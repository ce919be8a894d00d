----------------------------- MODULE PartsProofs -----------------------------
(***************************************************************************)
(* A session drops a message only when it processed it, and processes one  *)
(* twice only when the window has moved past it, for any number of         *)
(* messages and any size of the window; and who signs in is not sent away  *)
(* but for a fault of its own, for any number of them.  From the cache of  *)
(* peers goes the one that was used longest ago, for any number of peers   *)
(* and any capacity.  The packer numbers messages in the order it writes   *)
(* them and chains ordered requests, for any number of them.  A peer that  *)
(* is asked for by itself, by number or as the account is the one that is  *)
(* found, for any number of users, chats and channels.                     *)
(*                                                                         *)
(* What the window promises rests on its binary search, which finds the    *)
(* place of an id in an ascending sequence of any length; what the cache   *)
(* promises on its Map, which is in the order of use, and on what is left  *)
(* of a sequence when some of its elements go; what the packer promises on *)
(* the loops of extend() and prepend(), and on counting along a batch;     *)
(* what is found for a peer on the marks of ids, which do not meet.        *)
(***************************************************************************)
EXTENDS ReceivedIds, Login, EntityCache, MessagePacker, Entities,
        FiniteSetTheorems, SequenceTheorems, WellFoundedInduction, TLAPS

-----------------------------------------------------------------------------
(* Recursion over numbers *)

\* A set of numbers that is not empty has a least one.
LEMMA LeastNumber ==
    ASSUME NEW T \in SUBSET Nat, T # {}
    PROVE  \E n \in T : \A m \in T : n <= m
<1> DEFINE F == {0 .. n : n \in T}
           R == StrictSubsetOrdering(Nat)
           S == FiniteSubsetsOf(Nat)
<1>1. IsWellFoundedOn(R, S) BY FS_StrictSubsetOrderingWellFounded
<1>2. F \subseteq S
  <2>1. ASSUME NEW n \in T PROVE 0 .. n \in S BY FS_Interval DEF FiniteSubsetsOf
  <2> QED BY <2>1
<1>3. F # {} OBVIOUS
<1>4. \E m \in F : \A z \in F : ~ (<<z, m>> \in R)
  <2> HIDE DEF R, S, F
  <2> QED BY <1>1, <1>2, <1>3, WFMin
<1>5. PICK n \in T : \A z \in F : ~ (<<z, 0 .. n>> \in R) BY <1>4
<1>6. ASSUME NEW m \in T, m < n PROVE FALSE
  <2>1. n \in 0 .. n /\ n \notin 0 .. m BY <1>6
  <2>2. 0 .. m \subseteq 0 .. n /\ 0 .. m # 0 .. n BY <1>6, <2>1
  <2>3. <<0 .. m, 0 .. n>> \in R BY <2>2 DEF StrictSubsetOrdering
  <2> QED BY <1>5, <2>3
<1> QED BY <1>6

\* Complete induction, with the numbers for which something holds as a set.
LEMMA Complete ==
    ASSUME NEW P \in SUBSET Nat,
           \A n \in Nat : (\A m \in Nat : m < n => m \in P) => n \in P
    PROVE  P = Nat
<1>1. SUFFICES ASSUME Nat \ P # {} PROVE FALSE OBVIOUS
<1>2. PICK n \in Nat \ P : \A m \in Nat \ P : n <= m BY <1>1, LeastNumber
<1>3. \A m \in Nat : m < n => m \in P BY <1>2
<1> QED BY <1>2, <1>3

-----------------------------------------------------------------------------
(* The binary search *)

Ascending(s) == \A i, k \in DOMAIN s : i < k => s[i] < s[k]

\* n elements of s between lo and hi are in front of the first that is not lower than id.
IsLowerBound(s, id, lo, hi, n) ==
    /\ n \in lo .. hi
    /\ \A k \in lo + 1 .. n : s[k] < id
    /\ n < hi => ~(s[n + 1] < id)

\* The loop from p = <<lo, hi>>, where f is what it gives from later pairs.
Turn(s, id, f, p) ==
    IF p[1] >= p[2] THEN p[1]
    ELSE LET mid == (p[1] + p[2]) \div 2 IN
         IF s[mid + 1] < id THEN f[<<mid + 1, p[2]>>] ELSE f[<<p[1], mid>>]

Pairs(n) == (0 .. n) \X (0 .. n)

LEMMA Middle ==
    ASSUME NEW lo \in Nat, NEW hi \in Nat, lo < hi, NEW mid, mid = (lo + hi) \div 2
    PROVE  mid \in Nat /\ lo <= mid /\ mid < hi
OBVIOUS

\* In any sequence there is one place at most, and in an ascending one there is one.
LEMMA LowerBoundUnique ==
    ASSUME NEW s, NEW id, NEW lo \in Nat, NEW hi \in Nat, NEW m, NEW n,
           IsLowerBound(s, id, lo, hi, m), IsLowerBound(s, id, lo, hi, n)
    PROVE  m = n
<1>1. m \in lo .. hi /\ n \in lo .. hi BY DEF IsLowerBound
<1>2. ASSUME NEW i, NEW k, IsLowerBound(s, id, lo, hi, i), IsLowerBound(s, id, lo, hi, k), i < k
      PROVE FALSE
  <2>1. i \in lo .. hi /\ k \in lo .. hi BY <1>2 DEF IsLowerBound
  <2>2. i < hi /\ i + 1 \in lo + 1 .. k BY <1>2, <2>1
  <2>3. ~(s[i + 1] < id) /\ s[i + 1] < id BY <1>2, <2>2 DEF IsLowerBound
  <2> QED BY <2>3
<1>3. ~(m < n) /\ ~(n < m) BY <1>2
<1> QED BY <1>1, <1>3

LEMMA LowerBoundExists ==
    ASSUME NEW s, NEW id, NEW lo \in Nat, NEW hi \in Nat, lo <= hi
    PROVE  \E n \in lo .. hi : IsLowerBound(s, id, lo, hi, n)
<1> DEFINE T == {n \in lo .. hi : n < hi => ~(s[n + 1] < id)}
<1>1. T \in SUBSET Nat /\ hi \in T OBVIOUS
<1>2. PICK n \in T : \A m \in T : n <= m
  <2> HIDE DEF T
  <2> QED BY <1>1, LeastNumber
<1>3. ASSUME NEW k \in lo + 1 .. n PROVE s[k] < id
  <2>1. k - 1 \in lo .. hi /\ k - 1 < n /\ (k - 1) + 1 = k BY <1>2
  <2>2. k - 1 \notin T
    <3> HIDE DEF T
    <3> QED BY <1>1, <1>2, <2>1
  <2> QED BY <2>1, <2>2
<1> QED BY <1>2, <1>3 DEF IsLowerBound

\* A turn of the loop keeps the place it looks for.
LEMMA TurnKeeps ==
    ASSUME NEW s \in Seq(Int), Ascending(s), NEW id \in Int,
           NEW lo \in Nat, NEW hi \in Nat, lo < hi, hi <= Len(s),
           NEW mid, mid = (lo + hi) \div 2, NEW n
    PROVE  /\ mid \in Nat /\ lo <= mid /\ mid < hi
           /\ s[mid + 1] < id =>
                 (IsLowerBound(s, id, mid + 1, hi, n) => IsLowerBound(s, id, lo, hi, n))
           /\ ~(s[mid + 1] < id) =>
                 (IsLowerBound(s, id, lo, mid, n) => IsLowerBound(s, id, lo, hi, n))
<1>1. mid \in Nat /\ lo <= mid /\ mid < hi BY Middle
<1>2. \A k \in 1 .. Len(s) : s[k] \in Int OBVIOUS
<1>3. ASSUME s[mid + 1] < id, IsLowerBound(s, id, mid + 1, hi, n)
      PROVE  IsLowerBound(s, id, lo, hi, n)
  <2>1. n \in mid + 1 .. hi /\ n \in lo .. hi BY <1>1, <1>3 DEF IsLowerBound
  <2>2. ASSUME NEW k \in lo + 1 .. n PROVE s[k] < id
    <3>1. CASE k \in (mid + 1) + 1 .. n BY <1>3, <3>1 DEF IsLowerBound
    <3>2. CASE k = mid + 1 BY <1>3, <3>2
    <3>3. CASE k < mid + 1
      <4>1. k \in 1 .. Len(s) /\ mid + 1 \in 1 .. Len(s) BY <1>1, <3>3
      <4>2. s[k] < s[mid + 1] BY <3>3, <4>1 DEF Ascending
      <4> QED BY <1>2, <1>3, <4>1, <4>2
    <3> QED BY <1>1, <2>1, <3>1, <3>2, <3>3
  <2> QED BY <1>3, <2>1, <2>2 DEF IsLowerBound
<1>4. ASSUME ~(s[mid + 1] < id), IsLowerBound(s, id, lo, mid, n)
      PROVE  IsLowerBound(s, id, lo, hi, n)
  <2>1. n \in lo .. mid /\ n \in lo .. hi BY <1>1, <1>4 DEF IsLowerBound
  <2>2. ~(s[n + 1] < id)
    <3>1. CASE n < mid BY <1>4, <3>1 DEF IsLowerBound
    <3>2. CASE n = mid BY <1>4, <3>2
    <3> QED BY <1>1, <2>1, <3>1, <3>2
  <2> QED BY <1>4, <2>1, <2>2 DEF IsLowerBound
<1> QED BY <1>1, <1>3, <1>4

\* A function that the loop defines exists.
LEMMA SearchExists ==
    ASSUME NEW s \in Seq(Int), Ascending(s), NEW id \in Int
    PROVE  \E f : f = [p \in Pairs(Len(s)) |-> Turn(s, id, f, p)]
<1> DEFINE Place(p) == CHOOSE m \in p[1] .. p[2] : IsLowerBound(s, id, p[1], p[2], m)
           f == [p \in Pairs(Len(s)) |-> IF p[1] > p[2] THEN p[1] ELSE Place(p)]
<1>1. ASSUME NEW lo \in Nat, NEW hi \in Nat, lo <= hi
      PROVE  IsLowerBound(s, id, lo, hi, Place(<<lo, hi>>))
  <2>1. \E m \in lo .. hi : IsLowerBound(s, id, lo, hi, m) BY <1>1, LowerBoundExists
  <2> QED BY <2>1
<1> HIDE DEF Place
<1>2. Len(s) \in Nat OBVIOUS
<1>3. ASSUME NEW lo \in 0 .. Len(s), NEW hi \in 0 .. Len(s)
      PROVE  f[<<lo, hi>>] = Turn(s, id, f, <<lo, hi>>)
  <2>0. <<lo, hi>> \in Pairs(Len(s)) /\ lo \in Nat /\ hi \in Nat /\ hi <= Len(s)
    BY <1>2 DEF Pairs
  <2>1. CASE lo > hi BY <2>0, <2>1 DEF Turn
  <2>2. CASE lo = hi
    <3>0. lo <= hi BY <2>0, <2>2
    <3>1. IsLowerBound(s, id, lo, hi, Place(<<lo, hi>>)) BY <1>1, <2>0, <3>0
    <3>2. Place(<<lo, hi>>) = lo BY <2>2, <3>1 DEF IsLowerBound
    <3> QED BY <2>0, <2>2, <3>2 DEF Turn
  <2>3. CASE lo < hi
    <3>1. PICK mid : mid = (lo + hi) \div 2 OBVIOUS
    <3>2. mid \in Nat /\ lo <= mid /\ mid < hi BY <2>3, <3>1, Middle
    <3>3. f[<<lo, hi>>] = Place(<<lo, hi>>) BY <2>0, <2>3
    <3>0. lo <= hi /\ mid + 1 \in Nat /\ mid + 1 <= hi BY <2>0, <2>3, <3>2
    <3>4. IsLowerBound(s, id, lo, hi, Place(<<lo, hi>>)) BY <1>1, <2>0, <3>0
    <3>5. CASE s[mid + 1] < id
      <4>1. f[<<mid + 1, hi>>] = Place(<<mid + 1, hi>>)
        BY <1>2, <3>2 DEF Pairs
      <4>2. IsLowerBound(s, id, mid + 1, hi, Place(<<mid + 1, hi>>)) BY <1>1, <2>0, <3>0
      <4>3. IsLowerBound(s, id, lo, hi, Place(<<mid + 1, hi>>))
        BY <2>0, <2>3, <3>1, <3>5, <4>2, TurnKeeps
      <4>4. Place(<<mid + 1, hi>>) = Place(<<lo, hi>>) BY <3>4, <4>3, LowerBoundUnique
      <4> QED BY <2>3, <3>1, <3>3, <3>5, <4>1, <4>4 DEF Turn
    <3>6. CASE ~(s[mid + 1] < id)
      <4>1. f[<<lo, mid>>] = Place(<<lo, mid>>)
        BY <1>2, <3>2 DEF Pairs
      <4>2. IsLowerBound(s, id, lo, mid, Place(<<lo, mid>>)) BY <1>1, <2>0, <3>2
      <4>3. IsLowerBound(s, id, lo, hi, Place(<<lo, mid>>))
        BY <2>0, <2>3, <3>1, <3>6, <4>2, TurnKeeps
      <4>4. Place(<<lo, mid>>) = Place(<<lo, hi>>) BY <3>4, <4>3, LowerBoundUnique
      <4> QED BY <2>3, <3>1, <3>3, <3>6, <4>1, <4>4 DEF Turn
    <3> QED BY <3>5, <3>6
  <2> QED BY <2>1, <2>2, <2>3
<1>4. ASSUME NEW p \in Pairs(Len(s)) PROVE f[p] = Turn(s, id, f, p)
  <2>1. PICK lo \in 0 .. Len(s), hi \in 0 .. Len(s) : p = <<lo, hi>> BY DEF Pairs
  <2> HIDE DEF f
  <2> QED BY <1>3, <2>1
<1>5. f = [p \in Pairs(Len(s)) |-> Turn(s, id, f, p)]
  <2>1. f = [p \in Pairs(Len(s)) |-> f[p]] OBVIOUS
  <2> HIDE DEF f
  <2> QED BY <1>4, <2>1
<1> QED BY <1>5

\* lowerBound of ReceivedIdsManager gives the place it is named for.
LEMMA LowerBoundFound ==
    ASSUME NEW s \in Seq(Int), Ascending(s), NEW id \in Int
    PROVE  IsLowerBound(s, id, 0, Len(s), LowerBound(s, id))
<1> DEFINE Defines(f) == f = [p \in Pairs(Len(s)) |-> Turn(s, id, f, p)]
           search == CHOOSE f : Defines(f)
<1>1. Defines(search)
  <2>1. \E f : Defines(f) BY SearchExists
  <2> HIDE DEF Defines
  <2> QED BY <2>1
<1>2. LowerBound(s, id) = search[<<0, Len(s)>>] BY DEF LowerBound, Turn, Pairs
<1>3. \A p \in Pairs(Len(s)) : search[p] = Turn(s, id, search, p)
  <2> HIDE DEF search
  <2> QED BY <1>1
<1> HIDE DEF search
<1> DEFINE Finds(lo, hi) == IsLowerBound(s, id, lo, hi, search[<<lo, hi>>])
           P == {n \in Nat : \A lo, hi \in 0 .. Len(s) : lo + n = hi => Finds(lo, hi)}
<1>4. ASSUME NEW n \in Nat, \A m \in Nat : m < n => m \in P PROVE n \in P
  <2>1. SUFFICES ASSUME NEW lo \in 0 .. Len(s), NEW hi \in 0 .. Len(s), lo + n = hi
                 PROVE  Finds(lo, hi)
    OBVIOUS
  <2>2. /\ <<lo, hi>> \in Pairs(Len(s)) /\ lo \in Nat /\ hi \in Nat /\ hi <= Len(s)
        /\ Len(s) \in Nat
    BY DEF Pairs
  <2>3. search[<<lo, hi>>] = Turn(s, id, search, <<lo, hi>>) BY <1>3, <2>2
  <2>4. ASSUME NEW a \in 0 .. Len(s), NEW b \in 0 .. Len(s), a <= b, b - a < n
        PROVE  Finds(a, b)
    <3>1. b - a \in Nat /\ a + (b - a) = b BY <2>4
    <3>2. b - a \in P BY <1>4, <2>4, <3>1
    <3> HIDE DEF Finds
    <3> QED BY <3>1, <3>2
  <2>5. CASE lo = hi
    <3>1. search[<<lo, hi>>] = lo BY <2>3, <2>5 DEF Turn
    <3> QED BY <2>2, <2>5, <3>1 DEF IsLowerBound
  <2>6. CASE lo < hi
    <3>1. PICK mid : mid = (lo + hi) \div 2 OBVIOUS
    <3>2. mid \in Nat /\ lo <= mid /\ mid < hi BY <2>2, <2>6, <3>1, Middle
    <3>3. CASE s[mid + 1] < id
      <4>1. search[<<lo, hi>>] = search[<<mid + 1, hi>>] BY <2>3, <2>6, <3>1, <3>3 DEF Turn
      <4>2. mid + 1 \in 0 .. Len(s) /\ mid + 1 <= hi /\ hi - (mid + 1) < n
        BY <2>1, <2>2, <3>2
      <4>3. Finds(mid + 1, hi)
        <5> HIDE DEF Finds
        <5> QED BY <2>4, <4>2
      <4>4. IsLowerBound(s, id, mid + 1, hi, search[<<lo, hi>>]) BY <4>1, <4>3
      <4> QED BY <2>2, <2>6, <3>1, <3>3, <4>4, TurnKeeps
    <3>4. CASE ~(s[mid + 1] < id)
      <4>1. search[<<lo, hi>>] = search[<<lo, mid>>] BY <2>3, <2>6, <3>1, <3>4 DEF Turn
      <4>2. mid \in 0 .. Len(s) /\ lo <= mid /\ mid - lo < n BY <2>1, <2>2, <3>2
      <4>3. Finds(lo, mid)
        <5> HIDE DEF Finds
        <5> QED BY <2>4, <4>2
      <4>4. IsLowerBound(s, id, lo, mid, search[<<lo, hi>>]) BY <4>1, <4>3
      <4> QED BY <2>2, <2>6, <3>1, <3>4, <4>4, TurnKeeps
    <3> QED BY <3>3, <3>4
  <2> QED BY <2>1, <2>2, <2>5, <2>6
<1>5. P = Nat
  <2>1. P \in SUBSET Nat OBVIOUS
  <2> HIDE DEF P
  <2> QED BY <1>4, <2>1, Complete
<1>6. Len(s) \in P /\ Len(s) \in Nat /\ 0 \in 0 .. Len(s) /\ Len(s) \in 0 .. Len(s)
      /\ 0 + Len(s) = Len(s)
  <2> HIDE DEF P
  <2>1. Len(s) \in Nat OBVIOUS
  <2> QED BY <1>5, <2>1
<1>7. Finds(0, Len(s))
  <2> HIDE DEF Finds
  <2> QED BY <1>6
<1> QED BY <1>2, <1>7

-----------------------------------------------------------------------------
(* The operations of ReceivedIdsManager *)

Has(s, id) == \E i \in DOMAIN s : s[i] = id

\* indexOf finds an id that is there.
LEMMA ContainsWhatItHas ==
    ASSUME NEW s \in Seq(Int), Ascending(s), NEW id \in Int
    PROVE  Contains(s, id) <=> Has(s, id)
<1> DEFINE n == LowerBound(s, id)
<1>1. IsLowerBound(s, id, 0, Len(s), n) BY LowerBoundFound
<1>2. Contains(s, id) <=> n < Len(s) /\ s[n + 1] = id BY DEF Contains
<1> HIDE DEF n
<1>3. /\ n \in 0 .. Len(s) /\ Len(s) \in Nat
      /\ \A k \in 1 .. n : s[k] < id
      /\ n < Len(s) => ~(s[n + 1] < id)
      /\ \A i \in 1 .. Len(s) : s[i] \in Int
  BY <1>1 DEF IsLowerBound
<1>4. n < Len(s) /\ s[n + 1] = id => Has(s, id) BY <1>3 DEF Has
<1>5. ASSUME NEW i \in DOMAIN s, s[i] = id PROVE n < Len(s) /\ s[n + 1] = id
  <2>1. i \in 1 .. Len(s) OBVIOUS
  <2>2. ~(i <= n) BY <1>3, <1>5, <2>1
  <2>3. n < Len(s) /\ n + 1 \in 1 .. Len(s) /\ n + 1 <= i BY <1>3, <2>1, <2>2
  <2>4. ~(n + 1 < i)
    <3>1. n + 1 < i => s[n + 1] < s[i] BY <2>3 DEF Ascending
    <3> QED BY <1>3, <1>5, <2>3, <3>1
  <2>5. n + 1 = i BY <1>3, <2>1, <2>3, <2>4
  <2> QED BY <1>5, <2>3, <2>5
<1> QED BY <1>2, <1>4, <1>5 DEF Has

LEMMA JoinedIds ==
    ASSUME NEW s \in Seq(Int), NEW t \in Seq(Int)
    PROVE  /\ s \o t \in Seq(Int) /\ Len(s \o t) = Len(s) + Len(t)
           /\ \A i \in 1 .. Len(s) : (s \o t)[i] = s[i]
           /\ \A k \in 1 .. Len(t) : (s \o t)[Len(s) + k] = t[k]
<1> DEFINE u == s \o t
<1>1. /\ u \in Seq(Int) /\ Len(u) = Len(s) + Len(t)
      /\ \A i \in 1 .. Len(s) + Len(t) : u[i] = IF i <= Len(s) THEN s[i] ELSE t[i - Len(s)]
  BY ConcatProperties
<1>2. Len(s) \in Nat /\ Len(t) \in Nat BY LenProperties
<1> HIDE DEF u
<1>3. ASSUME NEW i \in 1 .. Len(s) PROVE u[i] = s[i] BY <1>1, <1>2
<1>4. ASSUME NEW k \in 1 .. Len(t) PROVE u[Len(s) + k] = t[k]
  <2>1. /\ Len(s) + k \in 1 .. Len(s) + Len(t) /\ ~(Len(s) + k <= Len(s))
        /\ (Len(s) + k) - Len(s) = k
    BY <1>2
  <2> QED BY <1>1, <2>1
<1>5. /\ u \in Seq(Int) /\ Len(u) = Len(s) + Len(t)
      /\ \A i \in 1 .. Len(s) : u[i] = s[i]
      /\ \A k \in 1 .. Len(t) : u[Len(s) + k] = t[k]
  BY <1>1, <1>3, <1>4
<1> QED BY <1>5 DEF u

\* splice: the id is put at its place, and nothing else changes.
LEMMA InsertedAscends ==
    ASSUME NEW s \in Seq(Int), Ascending(s), NEW id \in Int, ~Has(s, id),
           NEW t, t = Inserted(s, id)
    PROVE  /\ t \in Seq(Int) /\ Len(t) = Len(s) + 1 /\ Ascending(t)
           /\ \A x \in Int : Has(t, x) <=> Has(s, x) \/ x = id
           /\ Len(s) > 0 /\ ~(id < s[1]) => t[1] = s[1]
<1>1. PICK n : n = LowerBound(s, id) OBVIOUS
<1>2. IsLowerBound(s, id, 0, Len(s), n) BY <1>1, LowerBoundFound
<1>3. /\ n \in Nat /\ n <= Len(s) /\ Len(s) \in Nat
      /\ \A k \in 1 .. n : s[k] < id
      /\ n < Len(s) => ~(s[n + 1] < id)
      /\ \A i \in 1 .. Len(s) : s[i] \in Int
  BY <1>2 DEF IsLowerBound
<1>4. \A k \in 1 .. Len(s) : k > n => id < s[k]
  <2>1. SUFFICES ASSUME NEW k \in 1 .. Len(s), k > n PROVE id < s[k] OBVIOUS
  <2>2. s[k] # id BY DEF Has
  <2>3. n + 1 \in 1 .. Len(s) /\ ~(s[n + 1] < id) BY <1>3, <2>1
  <2>4. s[n + 1] <= s[k]
    <3>1. n + 1 < k => s[n + 1] < s[k] BY <2>3 DEF Ascending
    <3>2. n + 1 < k \/ n + 1 = k BY <1>3, <2>1
    <3> QED BY <1>3, <2>3, <3>1, <3>2
  <2> QED BY <1>3, <2>2, <2>3, <2>4
<1>5. /\ t \in Seq(Int) /\ Len(t) = Len(s) + 1
      /\ \A k \in 1 .. n : t[k] = s[k]
      /\ t[n + 1] = id
      /\ \A k \in n + 2 .. Len(s) + 1 : t[k] = s[k - 1]
  <2> DEFINE a == SubSeq(s, 1, n)
             b == SubSeq(s, n + 1, Len(s))
  <2>1. a \in Seq(Int) /\ Len(a) = n /\ \A k \in 1 .. n : a[k] = s[k]
    BY <1>3, SubSeqProperties
  <2>2. b \in Seq(Int) /\ Len(b) = Len(s) - n /\ \A k \in 1 .. Len(s) - n : b[k] = s[n + k]
    <3>1. \A k \in n + 1 .. Len(s) : s[k] \in Int BY <1>3
    <3>2. /\ b \in Seq(Int)
          /\ Len(b) = IF n + 1 <= Len(s) THEN Len(s) - (n + 1) + 1 ELSE 0
          /\ \A k \in 1 .. Len(s) - (n + 1) + 1 : b[k] = s[(n + 1) + k - 1]
      <4>1. n + 1 \in Int /\ Len(s) \in Int BY <1>3
      <4> QED BY <3>1, <4>1, SubSeqProperties
    <3>3. Len(b) = Len(s) - n BY <1>3, <3>2
    <3>4. ASSUME NEW k \in 1 .. Len(s) - n PROVE b[k] = s[n + k]
      <4>1. k \in 1 .. Len(s) - (n + 1) + 1 /\ (n + 1) + k - 1 = n + k BY <1>3
      <4> QED BY <3>2, <4>1
    <3> QED BY <3>2, <3>3, <3>4
  <2>3. t = a \o <<id>> \o b BY <1>1 DEF Inserted
  <2> HIDE DEF a, b
  <2>4. PICK c : c = a \o <<id>> OBVIOUS
  <2>5. c \in Seq(Int) /\ Len(c) = n + 1 /\ c[n + 1] = id /\ \A k \in 1 .. n : c[k] = s[k]
    <3>1. /\ <<id>> \in Seq(Int) /\ Len(<<id>>) = 1 /\ <<id>>[1] = id
          /\ 1 \in 1 .. Len(<<id>>)
      OBVIOUS
    <3>2. /\ c \in Seq(Int) /\ Len(c) = Len(a) + 1 /\ c[Len(a) + 1] = id
          /\ \A k \in 1 .. Len(a) : c[k] = a[k]
      BY <2>1, <2>4, <3>1, JoinedIds
    <3> QED BY <2>1, <3>2
  <2>6. /\ t \in Seq(Int) /\ Len(t) = Len(c) + Len(b)
        /\ \A k \in 1 .. Len(c) : t[k] = c[k]
        /\ \A k \in 1 .. Len(b) : t[Len(c) + k] = b[k]
    <3>1. t = c \o b BY <2>3, <2>4
    <3>2. /\ c \o b \in Seq(Int) /\ Len(c \o b) = Len(c) + Len(b)
          /\ \A k \in 1 .. Len(c) : (c \o b)[k] = c[k]
          /\ \A k \in 1 .. Len(b) : (c \o b)[Len(c) + k] = b[k]
      BY <2>2, <2>5, JoinedIds
    <3> QED BY <3>1, <3>2
  <2>7. ASSUME NEW k \in n + 2 .. Len(s) + 1 PROVE t[k] = s[k - 1]
    <3>1. /\ k - (n + 1) \in 1 .. Len(b) /\ k - (n + 1) \in 1 .. Len(s) - n
          /\ Len(c) + (k - (n + 1)) = k /\ n + (k - (n + 1)) = k - 1
      BY <1>3, <2>2, <2>5
    <3>2. PICK j : j = k - (n + 1) OBVIOUS
    <3>3. t[Len(c) + j] = b[j] /\ b[j] = s[n + j] BY <2>2, <2>6, <3>1, <3>2
    <3> QED BY <3>1, <3>2, <3>3
  <2>8. Len(t) = Len(s) + 1 BY <1>3, <2>2, <2>5, <2>6
  <2>9. \A k \in 1 .. n + 1 : t[k] = c[k] BY <2>5, <2>6
  <2>10. t[n + 1] = id
    <3>1. n + 1 \in 1 .. n + 1 BY <1>3
    <3> QED BY <2>5, <2>9, <3>1
  <2>11. ASSUME NEW k \in 1 .. n PROVE t[k] = s[k]
    <3>1. k \in 1 .. n + 1 BY <1>3
    <3> QED BY <2>5, <2>9, <3>1
  <2> QED BY <2>6, <2>7, <2>8, <2>10, <2>11
<1>6. ASSUME NEW i \in DOMAIN t, NEW k \in DOMAIN t, i < k PROVE t[i] < t[k]
  <2>1. i \in 1 .. Len(s) + 1 /\ k \in 1 .. Len(s) + 1 BY <1>5
  <2>2. CASE k <= n
    <3>1. i \in 1 .. n /\ k \in 1 .. n /\ i \in DOMAIN s /\ k \in DOMAIN s
      BY <1>3, <1>6, <2>1, <2>2
    <3> QED BY <1>5, <1>6, <3>1 DEF Ascending
  <2>3. CASE k = n + 1
    <3>1. i \in 1 .. n BY <1>3, <1>6, <2>1, <2>3
    <3> QED BY <1>3, <1>5, <2>3, <3>1
  <2>4. CASE k > n + 1
    <3>1. k \in n + 2 .. Len(s) + 1 /\ k - 1 \in 1 .. Len(s) /\ k - 1 > n /\ k - 1 \in DOMAIN s
      BY <1>3, <2>1, <2>4
    <3>2. CASE i <= n
      <4>1. i \in 1 .. n /\ i \in DOMAIN s /\ i < k - 1 BY <1>3, <2>1, <3>1, <3>2, SMTT(30)
      <4> QED BY <1>5, <3>1, <4>1 DEF Ascending
    <3>3. CASE i = n + 1 BY <1>4, <1>5, <3>1, <3>3
    <3>4. CASE i > n + 1
      <4>1. i \in n + 2 .. Len(s) + 1 /\ i - 1 \in DOMAIN s /\ i - 1 < k - 1
        BY <1>3, <1>6, <2>1, <3>1, <3>4, SMTT(30)
      <4> QED BY <1>5, <3>1, <4>1 DEF Ascending
    <3> QED BY <1>3, <2>1, <3>2, <3>3, <3>4, SMTT(30)
  <2> QED BY <1>3, <2>1, <2>2, <2>3, <2>4
<1>7. ASSUME NEW x \in Int, Has(s, x) PROVE Has(t, x)
  <2>1. PICK k \in 1 .. Len(s) : s[k] = x BY <1>7 DEF Has
  <2>2. CASE k <= n
    <3>1. k \in 1 .. n /\ k \in DOMAIN t BY <1>3, <1>5, <2>2
    <3> QED BY <1>5, <2>1, <3>1 DEF Has
  <2>3. CASE k > n
    <3>1. k + 1 \in n + 2 .. Len(s) + 1 /\ (k + 1) - 1 = k /\ k + 1 \in DOMAIN t
      BY <1>3, <1>5, <2>3
    <3> QED BY <1>5, <2>1, <3>1 DEF Has
  <2> QED BY <1>3, <2>2, <2>3
<1>8. ASSUME NEW x \in Int, Has(t, x), x # id PROVE Has(s, x)
  <2>1. PICK k \in 1 .. Len(s) + 1 : t[k] = x BY <1>5, <1>8 DEF Has
  <2>2. CASE k <= n
    <3>1. k \in 1 .. n /\ k \in DOMAIN s BY <1>3, <2>2
    <3> QED BY <1>5, <2>1, <3>1 DEF Has
  <2>3. CASE k > n + 1
    <3>1. k \in n + 2 .. Len(s) + 1 /\ k - 1 \in DOMAIN s BY <1>3, <2>3
    <3> QED BY <1>5, <2>1, <3>1 DEF Has
  <2> QED BY <1>3, <1>5, <1>8, <2>1, <2>2, <2>3
<1>9. Has(t, id)
  <2>1. n + 1 \in DOMAIN t BY <1>3, <1>5
  <2> QED BY <1>5, <2>1 DEF Has
<1>10. Len(s) > 0 /\ ~(id < s[1]) => t[1] = s[1]
  <2>1. ASSUME Len(s) > 0, ~(id < s[1]) PROVE 1 \in 1 .. n
    <3>1. 1 \in 1 .. Len(s) BY <1>3, <2>1
    <3>2. ~(1 > n) BY <1>4, <2>1, <3>1
    <3> QED BY <1>3, <3>2
  <2> QED BY <1>5, <2>1
<1> QED BY <1>5, <1>6, <1>7, <1>8, <1>9, <1>10 DEF Ascending

\* An ascending sequence has as many elements as it is long.
LEMMA AscendingCounts ==
    ASSUME NEW s \in Seq(Int), Ascending(s)
    PROVE  LET S == {s[i] : i \in DOMAIN s} IN IsFiniteSet(S) /\ Cardinality(S) = Len(s)
<1> DEFINE S == {s[i] : i \in DOMAIN s}
<1>1. Len(s) \in Nat /\ DOMAIN s = 1 .. Len(s) /\ \A i \in 1 .. Len(s) : s[i] \in Int OBVIOUS
<1>2. s \in [1 .. Len(s) -> S] BY <1>1
<1>3. ASSUME NEW i \in 1 .. Len(s), NEW k \in 1 .. Len(s), s[i] = s[k] PROVE i = k
  <2>1. ~(i < k) /\ ~(k < i) BY <1>1, <1>3 DEF Ascending
  <2> QED BY <2>1
<1>4. \A x \in S : \E i \in 1 .. Len(s) : s[i] = x BY <1>1
<1>5. s \in Bijection(1 .. Len(s), S)
  BY <1>2, <1>3, <1>4 DEF Bijection, Injection, Surjection, IsInjective
<1>6. ExistsBijection(1 .. Len(s), S)
  <2> HIDE DEF S
  <2> QED BY <1>5 DEF ExistsBijection
<1>7. IsFiniteSet(S) /\ Cardinality(S) = Len(s)
  <2> HIDE DEF S
  <2> QED BY <1>1, <1>6, FS_NatBijection, FS_CountingElements
<1> QED BY <1>7

\* shift: what is left when the first id goes.
LEMMA ShrinkDrops ==
    ASSUME NEW t \in Seq(Int), Ascending(t), BufferSize \in Nat, BufferSize > 0,
           Len(t) <= BufferSize + 1, NEW u, u = Shrink(t)
    PROVE  /\ u \in Seq(Int) /\ Ascending(u)
           /\ Len(t) <= BufferSize => u = t
           /\ Len(t) = BufferSize + 1 =>
                 /\ Len(u) = BufferSize /\ t[1] < u[1]
                 /\ \A x \in Int : Has(t, x) <=> Has(u, x) \/ x = t[1]
<1>1. Len(t) \in Nat /\ \A i \in 1 .. Len(t) : t[i] \in Int OBVIOUS
<1>2. CASE Len(t) <= BufferSize BY <1>1, <1>2 DEF Shrink
<1>3. CASE Len(t) = BufferSize + 1
  <2>1. u = SubSeq(t, 2, Len(t))
    <3>1. Len(t) > BufferSize /\ Len(t) - BufferSize + 1 = 2 BY <1>3
    <3> QED BY <3>1 DEF Shrink
  <2>2. /\ u \in Seq(Int) /\ Len(u) = BufferSize
        /\ \A i \in 1 .. BufferSize : u[i] = t[i + 1]
    <3>1. \A i \in 2 .. Len(t) : t[i] \in Int BY <1>1
    <3>2. /\ u \in Seq(Int) /\ Len(u) = IF 2 <= Len(t) THEN Len(t) - 2 + 1 ELSE 0
          /\ \A i \in 1 .. Len(t) - 2 + 1 : u[i] = t[2 + i - 1]
      BY <1>1, <2>1, <3>1, SubSeqProperties
    <3>3. Len(u) = BufferSize BY <1>3, <3>2
    <3>4. ASSUME NEW i \in 1 .. BufferSize PROVE u[i] = t[i + 1]
      <4>1. i \in 1 .. Len(t) - 2 + 1 /\ 2 + i - 1 = i + 1 BY <1>3
      <4> QED BY <3>2, <4>1
    <3> QED BY <3>2, <3>3, <3>4
  <2>3. ASSUME NEW i \in 1 .. BufferSize PROVE i + 1 \in DOMAIN t /\ 1 \in DOMAIN t /\ 1 < i + 1
    BY <1>1, <1>3
  <2>4. ASSUME NEW i \in DOMAIN u, NEW k \in DOMAIN u, i < k PROVE u[i] < u[k]
    <3>1. i \in 1 .. BufferSize /\ k \in 1 .. BufferSize /\ i + 1 < k + 1 BY <2>2, <2>4
    <3>2. t[i + 1] < t[k + 1] BY <2>3, <3>1 DEF Ascending
    <3> QED BY <2>2, <3>1, <3>2
  <2>5. t[1] < u[1]
    <3>1. 1 \in 1 .. BufferSize OBVIOUS
    <3> QED BY <2>2, <2>3, <3>1 DEF Ascending
  <2>6. ASSUME NEW x \in Int, Has(u, x) PROVE Has(t, x)
    <3>1. PICK i \in 1 .. BufferSize : u[i] = x BY <2>2, <2>6 DEF Has
    <3> QED BY <2>2, <2>3, <3>1 DEF Has
  <2>7. ASSUME NEW x \in Int, Has(t, x), x # t[1] PROVE Has(u, x)
    <3>1. PICK i \in 1 .. Len(t) : t[i] = x BY <2>7 DEF Has
    <3>2. i - 1 \in 1 .. BufferSize /\ (i - 1) + 1 = i /\ i - 1 \in DOMAIN u
      BY <1>3, <2>2, <2>7, <3>1
    <3> QED BY <2>2, <3>1, <3>2 DEF Has
  <2>8. Has(t, t[1])
    <3>1. 1 \in DOMAIN t BY <1>3
    <3> QED BY <3>1 DEF Has
  <2> QED BY <1>3, <2>2, <2>4, <2>5, <2>6, <2>7, <2>8 DEF Ascending
<1> QED BY <1>1, <1>2, <1>3

-----------------------------------------------------------------------------
(* The window of a session *)

IdsTypeOK ==
    /\ ids \in Seq(MessageIds) /\ processed \in Seq(MessageIds)
    /\ arrived \in [MessageIds -> Nat]
    /\ last.result \in {"none", "duplicate", "tooOld", "success"}

\* What is remembered was processed, and what was processed and is forgotten is lower than
\* all of a full window.
WindowOK ==
    /\ Ascending(ids) /\ Len(ids) <= BufferSize
    /\ \A id \in MessageIds : Has(ids, id) => Has(processed, id)
    /\ \A id \in MessageIds :
          Has(processed, id) /\ ~Has(ids, id) => Len(ids) = BufferSize /\ id < ids[1]

Above(n, id) == {processed[k] : k \in 1 .. n} \cap {x \in MessageIds : x > id}

IdsInv == IdsTypeOK /\ WindowOK /\ ReceivedOnce

LEMMA Bounds ==
    /\ MaxId \in Nat /\ BufferSize \in Nat /\ BufferSize > 0
    /\ MessageIds \subseteq Int /\ Seq(MessageIds) \subseteq Seq(Int)
BY ReceivedIdsAssumption DEF MessageIds

LEMMA IdsBegin == IdsInit => IdsInv
BY Bounds DEF IdsInit, IdsInv, IdsTypeOK, WindowOK, ReceivedOnce, ProcessedOnce,
   DroppedWasProcessed, Has, Ascending, MessageIds

\* An id that is processed although it was before has a whole window above it.
LEMMA WindowIsAbove ==
    ASSUME IdsTypeOK, WindowOK, NEW id \in MessageIds, Has(processed, id), ~Has(ids, id)
    PROVE  Cardinality(Above(Len(processed), id)) >= BufferSize
<1> DEFINE R == {ids[i] : i \in DOMAIN ids}
<1>1. ids \in Seq(Int) /\ Ascending(ids) /\ Len(ids) = BufferSize /\ id < ids[1]
  BY Bounds DEF IdsTypeOK, WindowOK
<1>2. IsFiniteSet(R) /\ Cardinality(R) = BufferSize BY <1>1, AscendingCounts
<1>3. IsFiniteSet(Above(Len(processed), id))
  <2>1. IsFiniteSet(MessageIds) BY Bounds, FS_Interval DEF MessageIds
  <2>2. Above(Len(processed), id) \subseteq MessageIds BY DEF Above
  <2> QED BY <2>1, <2>2, FS_Subset
<1>4. R \subseteq Above(Len(processed), id)
  <2>1. SUFFICES ASSUME NEW i \in DOMAIN ids PROVE ids[i] \in Above(Len(processed), id)
    OBVIOUS
  <2>2. ids[i] \in MessageIds /\ i \in 1 .. Len(ids) BY DEF IdsTypeOK
  <2>3. Has(ids, ids[i]) BY DEF Has
  <2>4. PICK k \in DOMAIN processed : processed[k] = ids[i]
    BY <2>2, <2>3 DEF WindowOK, Has
  <2>5. k \in 1 .. Len(processed) BY DEF IdsTypeOK
  <2>6. id < ids[i]
    <3>1. 1 \in DOMAIN ids /\ (i = 1 \/ 1 < i) BY <1>1, <2>2
    <3>2. 1 < i => ids[1] < ids[i] BY <1>1, <3>1 DEF Ascending
    <3>3. id \in Int /\ ids[1] \in Int /\ ids[i] \in Int BY <1>1, <2>2, <3>1, Bounds
    <3> QED BY <1>1, <3>1, <3>2, <3>3
  <2>7. ids[i] \in {processed[n] : n \in 1 .. Len(processed)} BY <2>4, <2>5
  <2> QED BY <2>2, <2>6, <2>7 DEF Above
<1>5. Cardinality(R) <= Cardinality(Above(Len(processed), id))
  <2> HIDE DEF R
  <2> QED BY <1>3, <1>4, FS_Subset
<1>6. Cardinality(Above(Len(processed), id)) \in Nat BY <1>3, FS_CardinalityType
<1> QED BY <1>2, <1>5, <1>6, Bounds

\* What Has says of one more element.
LEMMA OneMore ==
    ASSUME NEW s \in Seq(MessageIds), NEW id \in MessageIds, NEW t, t = Append(s, id)
    PROVE  /\ t \in Seq(MessageIds) /\ Len(t) = Len(s) + 1 /\ Len(s) \in Nat
           /\ t[Len(s) + 1] = id /\ \A k \in 1 .. Len(s) : t[k] = s[k]
           /\ \A x \in MessageIds : Has(t, x) <=> Has(s, x) \/ x = id
<1>1. /\ t \in Seq(MessageIds) /\ Len(t) = Len(s) + 1 /\ Len(s) \in Nat
      /\ t[Len(s) + 1] = id /\ \A k \in 1 .. Len(s) : t[k] = s[k]
  OBVIOUS
<1>2. ASSUME NEW x \in MessageIds, Has(s, x) PROVE Has(t, x)
  <2>1. PICK k \in 1 .. Len(s) : s[k] = x BY <1>2 DEF Has
  <2>2. k \in DOMAIN t BY <1>1
  <2> QED BY <1>1, <2>1, <2>2 DEF Has
<1>3. ASSUME NEW x \in MessageIds, Has(t, x), x # id PROVE Has(s, x)
  <2>1. PICK k \in 1 .. Len(t) : t[k] = x BY <1>1, <1>3 DEF Has
  <2>2. k \in 1 .. Len(s) BY <1>1, <1>3, <2>1
  <2> QED BY <1>1, <2>1, <2>2 DEF Has
<1>4. Has(t, id)
  <2>1. Len(s) + 1 \in DOMAIN t BY <1>1
  <2> QED BY <1>1, <2>1 DEF Has
<1> QED BY <1>1, <1>2, <1>3, <1>4

\* The history grows by an id that is not in the window.
LEMMA ProcessedOnceKept ==
    ASSUME IdsTypeOK, WindowOK, ProcessedOnce, NEW id \in MessageIds, ~Has(ids, id),
           processed' = Append(processed, id)
    PROVE  ProcessedOnce'
<1>0. PICK n \in Nat : n = Len(processed) BY DEF IdsTypeOK
<1>1. /\ DOMAIN processed' = 1 .. n + 1 /\ DOMAIN processed = 1 .. n
      /\ processed'[n + 1] = id /\ \A k \in 1 .. n : processed'[k] = processed[k]
  <2>1. /\ processed' \in Seq(MessageIds) /\ Len(processed') = n + 1
        /\ processed'[n + 1] = id /\ \A k \in 1 .. n : processed'[k] = processed[k]
        /\ processed \in Seq(MessageIds)
    BY <1>0, OneMore DEF IdsTypeOK
  <2> QED BY <1>0, <2>1
<1>2. SUFFICES ASSUME NEW i \in 1 .. n + 1, NEW j \in 1 .. n + 1, i < j,
                      processed'[i] = processed'[j]
               PROVE  Cardinality({processed'[k] : k \in 1 .. j - 1}
                                     \cap {x \in MessageIds : x > processed'[i]}) >= BufferSize
  BY <1>1 DEF ProcessedOnce
<1>3. i \in 1 .. n /\ j - 1 <= n /\ processed'[i] = processed[i] BY <1>1, <1>2
<1>3a. n \in Nat BY <1>0
<1>3b. j \in 1 .. n + 1 OBVIOUS
<1>3c. j \in 1 .. n \/ j = n + 1 BY <1>3a, <1>3b
<1>4. {processed'[k] : k \in 1 .. j - 1} = {processed[k] : k \in 1 .. j - 1}
  <2>1. \A k \in 1 .. j - 1 : k \in 1 .. n BY <1>2, <1>3
  <2>2. \A k \in 1 .. j - 1 : processed'[k] = processed[k] BY <1>1, <2>1
  <2> QED BY <2>2
<1>5. CASE j \in 1 .. n
  <2>1. processed[i] = processed[j] BY <1>1, <1>2, <1>3, <1>5
  <2>2. Cardinality({processed[k] : k \in 1 .. j - 1}
                       \cap {x \in MessageIds : x > processed[i]}) >= BufferSize
    BY <1>1, <1>2, <1>3, <1>5, <2>1 DEF ProcessedOnce
  <2> QED BY <1>3, <1>4, <2>2
<1>6. CASE j = n + 1
  <2>1. processed[i] = id BY <1>1, <1>2, <1>3, <1>6
  <2>1a. j - 1 = n BY <1>3a, <1>6
  <2>2. Has(processed, id) BY <1>1, <1>3, <2>1 DEF Has
  <2>3. Cardinality(Above(n, id)) >= BufferSize BY <1>0, <2>2, WindowIsAbove
  <2> QED BY <1>3, <1>4, <2>1, <2>1a, <2>3 DEF Above
<1> QED BY <1>3c, <1>5, <1>6

\* registerMsgId and shrink keep the window.
LEMMA RememberedKept ==
    ASSUME IdsTypeOK, WindowOK, NEW id \in MessageIds, ~Has(ids, id),
           ~(Len(ids) >= BufferSize /\ id < ids[1]),
           ids' = Shrink(Inserted(ids, id)), processed' = Append(processed, id)
    PROVE  ids' \in Seq(MessageIds) /\ WindowOK'
<1>1. PICK t : t = Inserted(ids, id) OBVIOUS
<1>2. /\ ids \in Seq(Int) /\ Ascending(ids) /\ id \in Int /\ Len(ids) \in Nat
      /\ Len(ids) <= BufferSize /\ \A i \in 1 .. Len(ids) : ids[i] \in MessageIds
  BY Bounds DEF IdsTypeOK, WindowOK
<1>3. /\ t \in Seq(Int) /\ Len(t) = Len(ids) + 1 /\ Ascending(t)
      /\ \A x \in Int : Has(t, x) <=> Has(ids, x) \/ x = id
      /\ Len(ids) > 0 /\ ~(id < ids[1]) => t[1] = ids[1]
  BY <1>1, <1>2, InsertedAscends
<1>4. PICK u : u = Shrink(t) OBVIOUS
<1>5. ids' = u BY <1>1, <1>4
<1>6. /\ u \in Seq(Int) /\ Ascending(u)
      /\ Len(t) <= BufferSize => u = t
      /\ Len(t) = BufferSize + 1 =>
            /\ Len(u) = BufferSize /\ t[1] < u[1]
            /\ \A x \in Int : Has(t, x) <=> Has(u, x) \/ x = t[1]
  BY <1>2, <1>3, <1>4, Bounds, ShrinkDrops, SMTT(30)
<1>7. \A x \in MessageIds : Has(processed', x) <=> Has(processed, x) \/ x = id
  BY OneMore DEF IdsTypeOK
<1>8. ASSUME NEW x \in Int, Has(u, x) PROVE Has(ids, x) \/ x = id
  <2>1. Len(t) <= BufferSize \/ Len(t) = BufferSize + 1 BY <1>2, <1>3, Bounds
  <2> QED BY <1>3, <1>6, <1>8, <2>1
<1>9. ASSUME NEW x \in Int, Has(ids, x) PROVE x \in MessageIds
  BY <1>2, <1>9 DEF Has
<1>10. u \in Seq(MessageIds)
  <2>1. ASSUME NEW i \in 1 .. Len(u) PROVE u[i] \in MessageIds
    <3>1. u[i] \in Int /\ i \in DOMAIN u BY <1>6
    <3>2. Has(u, u[i]) BY <3>1 DEF Has
    <3> QED BY <1>8, <1>9, <3>1, <3>2
  <2> QED BY <1>6, <2>1, SMTT(30)
<1>11. Len(u) <= BufferSize
  <2>1. Len(t) <= BufferSize \/ Len(t) = BufferSize + 1 BY <1>2, <1>3, Bounds
  <2> QED BY <1>6, <2>1, Bounds
<1>12. ASSUME NEW x \in MessageIds, Has(u, x) PROVE Has(processed', x)
  <2>1. Has(ids, x) \/ x = id BY <1>8, <1>12, Bounds
  <2> QED BY <1>7, <2>1 DEF WindowOK
<1>13. ASSUME NEW x \in MessageIds, Has(processed', x), ~Has(u, x)
       PROVE  Len(u) = BufferSize /\ x < u[1]
  <2>0. x \in Int BY Bounds
  <2>1. CASE Len(t) <= BufferSize
    <3>1. ~Has(ids, x) /\ x # id BY <1>3, <1>6, <1>13, <2>0, <2>1
    <3>2. Len(ids) = BufferSize BY <1>7, <1>13, <3>1 DEF WindowOK
    <3> QED BY <1>2, <1>3, <2>1, <3>2
  <2>2. CASE Len(t) = BufferSize + 1
    <3>1. /\ Len(ids) = BufferSize /\ ~(id < ids[1]) /\ t[1] = ids[1]
          /\ 1 \in 1 .. Len(t) /\ t[1] \in Int
      BY <1>2, <1>3, <2>2, Bounds
    <3>2. Len(u) = BufferSize /\ t[1] < u[1] /\ u[1] \in Int
      BY <1>6, <2>2, Bounds
    <3>3. CASE Has(t, x)
      <4>1. x = t[1] BY <1>6, <1>13, <2>0, <2>2, <3>3
      <4> QED BY <3>2, <4>1
    <3>4. CASE ~Has(t, x)
      <4>1. ~Has(ids, x) /\ x # id BY <1>3, <2>0, <3>4
      <4>2. x < ids[1] BY <1>7, <1>13, <4>1 DEF WindowOK
      <4> QED BY <2>0, <3>1, <3>2, <4>2
    <3> QED BY <3>3, <3>4
  <2> QED BY <1>2, <1>3, <2>1, <2>2, Bounds
<1> QED BY <1>5, <1>6, <1>10, <1>11, <1>12, <1>13 DEF WindowOK

LEMMA ReceiveStep == ASSUME IdsInv, NEW id \in MessageIds, Receive(id) PROVE IdsInv'
<1>1. /\ IdsTypeOK /\ WindowOK /\ ProcessedOnce /\ ids \in Seq(Int) /\ Ascending(ids) /\ id \in Int
      /\ Len(ids) \in Nat /\ Len(ids) <= BufferSize
  BY Bounds DEF IdsInv, ReceivedOnce, IdsTypeOK, WindowOK
<1>2. PICK result : result = Register(ids, id) OBVIOUS
<1>3. /\ arrived' = [arrived EXCEPT ![id] = @ + 1]
      /\ last' = [id |-> id, result |-> result]
      /\ processed' = IF result = "duplicate" THEN processed ELSE Append(processed, id)
      /\ ids' = IF result = "success" THEN Shrink(Inserted(ids, id)) ELSE ids
  BY <1>2 DEF Receive
<1>4. result = IF Has(ids, id) THEN "duplicate"
               ELSE IF Len(ids) >= BufferSize /\ id < ids[1] THEN "tooOld" ELSE "success"
  BY <1>1, <1>2, ContainsWhatItHas DEF Register
<1>5. arrived' \in [MessageIds -> Nat] /\ last'.id = id /\ last'.result = result
  BY <1>1, <1>3 DEF IdsTypeOK
<1>6. CASE Has(ids, id)
  <2>1. ids' = ids /\ processed' = processed /\ last'.result = "duplicate" BY <1>3, <1>4, <1>5, <1>6
  <2>2. IdsTypeOK' BY <1>1, <1>5, <2>1 DEF IdsTypeOK
  <2>3. WindowOK' BY <1>1, <2>1 DEF WindowOK, Has, Ascending
  <2>4. ProcessedOnce' BY <1>1, <2>1 DEF ProcessedOnce
  <2>5. DroppedWasProcessed' BY <1>1, <1>5, <1>6, <2>1 DEF DroppedWasProcessed, WindowOK, Has
  <2> QED BY <2>2, <2>3, <2>4, <2>5 DEF IdsInv, ReceivedOnce
<1>7. CASE ~Has(ids, id)
  <2>1. processed' = Append(processed, id) /\ last'.result # "duplicate"
        /\ last'.result \in {"none", "duplicate", "tooOld", "success"}
    BY <1>3, <1>4, <1>5, <1>7
  <2>2. ProcessedOnce' BY <1>1, <1>7, <2>1, ProcessedOnceKept
  <2>3. processed' \in Seq(MessageIds) BY <1>1, <2>1, OneMore DEF IdsTypeOK
  <2>4. CASE Len(ids) >= BufferSize /\ id < ids[1]
    <3>1. ids' = ids BY <1>3, <1>4, <1>7, <2>4
    <3>2. IdsTypeOK' BY <1>1, <1>5, <2>1, <2>3, <3>1 DEF IdsTypeOK
    <3>3. \A x \in MessageIds : Has(processed', x) <=> Has(processed, x) \/ x = id
      BY <1>1, <2>1, OneMore DEF IdsTypeOK
    <3>4. Len(ids) = BufferSize BY <1>1, <2>4, Bounds
    <3>5. Ascending(ids') /\ Len(ids') <= BufferSize BY <1>1, <3>1 DEF Ascending
    <3>6. \A x \in MessageIds : Has(ids', x) <=> Has(ids, x) BY <3>1 DEF Has
    <3>7. WindowOK' BY <1>1, <2>4, <3>1, <3>3, <3>4, <3>5, <3>6 DEF WindowOK
    <3> QED BY <2>1, <2>2, <3>2, <3>7 DEF IdsInv, ReceivedOnce, DroppedWasProcessed
  <2>5. CASE ~(Len(ids) >= BufferSize /\ id < ids[1])
    <3>1. ids' = Shrink(Inserted(ids, id)) BY <1>3, <1>4, <1>7, <2>5
    <3>2. ids' \in Seq(MessageIds) /\ WindowOK' BY <1>1, <1>7, <2>1, <2>5, <3>1, RememberedKept
    <3>3. IdsTypeOK' BY <1>1, <1>5, <2>1, <2>3, <3>2 DEF IdsTypeOK
    <3> QED BY <2>1, <2>2, <3>2, <3>3 DEF IdsInv, ReceivedOnce, DroppedWasProcessed
  <2> QED BY <2>4, <2>5
<1> QED BY <1>6, <1>7

LEMMA IdsStep == IdsInv /\ [IdsNext]_idsVars => IdsInv'
<1> SUFFICES ASSUME IdsInv, [IdsNext]_idsVars PROVE IdsInv' OBVIOUS
<1>1. ASSUME NEW id \in MessageIds, Receive(id) PROVE IdsInv' BY <1>1, ReceiveStep
<1>2. CASE Reset
  BY <1>2, Bounds DEF Reset, IdsInv, IdsTypeOK, WindowOK, ReceivedOnce, ProcessedOnce,
     DroppedWasProcessed, Has, Ascending
<1>3. CASE UNCHANGED idsVars
  <2>1. ids' = ids /\ arrived' = arrived /\ processed' = processed /\ last' = last
    BY <1>3 DEF idsVars
  <2>2. IdsTypeOK' BY <2>1 DEF IdsInv, IdsTypeOK
  <2>3. WindowOK' BY <2>1 DEF IdsInv, WindowOK, Has, Ascending
  <2>4. ReceivedOnce'
    BY <2>1 DEF IdsInv, ReceivedOnce, ProcessedOnce, DroppedWasProcessed
  <2> QED BY <2>2, <2>3, <2>4 DEF IdsInv
<1> QED BY <1>1, <1>2, <1>3 DEF IdsNext

\* The window is of the type the code gives it, whatever messages come.
THEOREM IdsTyped == IdsSpec => []IdsTypeOK
<1>1. IdsInv => IdsTypeOK BY DEF IdsInv
<1> QED BY <1>1, IdsBegin, IdsStep, PTL DEF IdsSpec

\* registerMsgId says "duplicate" only of an id that was processed, and an id is processed
\* again only with a whole window of higher ones before it: for any number of messages, late,
\* twice and in any order, and any size of the window (ReceivedIdsManager.ts:9-69).
THEOREM WindowHolds == IdsSpec => []ReceivedOnce
<1>1. IdsInv => ReceivedOnce BY DEF IdsInv
<1> QED BY <1>1, IdsBegin, IdsStep, PTL DEF IdsSpec

-----------------------------------------------------------------------------
(* Signing in *)

\* Who was scanned signs in with the QR code or the password after it, and is at the token
\* that was accepted because of the scan.
ScanLeads ==
    /\ scanned => flow \in {"waiting", "exporting", "importing", "password", "done", "threw"}
    /\ flow \in {"exporting", "importing"} \/ update = "pushed" => scanned

LoginInv == ScanLeads /\ SignsIn

LEMMA LoginBegins == LoginInit => LoginInv
BY DEF LoginInit, LoginInv, ScanLeads, SignsIn, HashIsLatest, HashWasKept, ScanSignsIn

LEMMA LeadsStep ==
    ASSUME ScanLeads, [LoginNext]_loginVars
    PROVE  ScanLeads'
<1> USE DEF ScanLeads, serverVars, hashVars, phoneVars, qrVars, Try, Asks, Throws, Moves
<1>1. CASE SendCode BY <1>1 DEF SendCode, SentAgain, NewHash, NumberFails
<1>2. CASE ChooseQr BY <1>2 DEF ChooseQr
<1>3. CASE VerifyEmail BY <1>3 DEF VerifyEmail, TakesHash, KeepsHash, NewHash, NumberFails
<1>4. CASE TypeCode BY <1>4 DEF TypeCode
<1>5. CASE RestartAuth BY <1>5 DEF RestartAuth
<1>6. CASE SignIn BY <1>6 DEF SignIn
<1>7. CASE Expire BY <1>7 DEF Expire
<1>8. CASE SignUp BY <1>8 DEF SignUp
<1>9. CASE AcceptTerms BY <1>9 DEF AcceptTerms
<1>10. CASE CheckPassword BY <1>10 DEF CheckPassword
<1>11. CASE StartQr BY <1>11 DEF StartQr
<1>12. CASE PollAnswer BY <1>12 DEF PollAnswer, Token
<1>13. CASE PollAgain BY <1>13 DEF PollAgain, Stopped
<1>14. CASE Scan BY <1>14 DEF Scan
<1>15. CASE OnUpdate BY <1>15 DEF OnUpdate
<1>16. CASE Abort BY <1>16 DEF Abort
<1>17. CASE Export BY <1>17 DEF Export, Token, Migrated
<1>18. CASE Import BY <1>18 DEF Import
<1>19. CASE PollFails BY <1>19 DEF PollFails
<1>20. CASE UNCHANGED loginVars BY <1>20 DEF loginVars
<1> QED
  BY <1>1, <1>2, <1>3, <1>4, <1>5, <1>6, <1>7, <1>8, <1>9, <1>10, <1>11, <1>12, <1>13, <1>14,
     <1>15, <1>16, <1>17, <1>18, <1>19, <1>20
  DEF LoginNext

LEMMA HashStep ==
    ASSUME HashIsLatest, [LoginNext]_loginVars
    PROVE  HashIsLatest'
<1> USE DEF HashIsLatest, HashWasKept, serverVars, hashVars, phoneVars, qrVars, Try, Asks, Throws, Moves
<1>1. CASE SendCode BY <1>1 DEF SendCode, SentAgain, NewHash, NumberFails
<1>2. CASE ChooseQr BY <1>2 DEF ChooseQr
<1>3. CASE VerifyEmail BY <1>3 DEF VerifyEmail, TakesHash, KeepsHash, NewHash, NumberFails
<1>4. CASE TypeCode BY <1>4 DEF TypeCode
<1>5. CASE RestartAuth BY <1>5 DEF RestartAuth
<1>6. CASE SignIn BY <1>6 DEF SignIn
<1>7. CASE Expire BY <1>7 DEF Expire
<1>8. CASE SignUp BY <1>8 DEF SignUp
<1>9. CASE AcceptTerms BY <1>9 DEF AcceptTerms
<1>10. CASE CheckPassword BY <1>10 DEF CheckPassword
<1>11. CASE StartQr BY <1>11 DEF StartQr
<1>12. CASE PollAnswer BY <1>12 DEF PollAnswer, Token
<1>13. CASE PollAgain BY <1>13 DEF PollAgain, Stopped
<1>14. CASE Scan BY <1>14 DEF Scan
<1>15. CASE OnUpdate BY <1>15 DEF OnUpdate
<1>16. CASE Abort BY <1>16 DEF Abort
<1>17. CASE Export BY <1>17 DEF Export, Token, Migrated
<1>18. CASE Import BY <1>18 DEF Import
<1>19. CASE PollFails BY <1>19 DEF PollFails
<1>20. CASE UNCHANGED loginVars BY <1>20 DEF loginVars
<1> QED
  BY <1>1, <1>2, <1>3, <1>4, <1>5, <1>6, <1>7, <1>8, <1>9, <1>10, <1>11, <1>12, <1>13, <1>14,
     <1>15, <1>16, <1>17, <1>18, <1>19, <1>20
  DEF LoginNext

LEMMA ScanStep ==
    ASSUME ScanLeads, ScanSignsIn, [LoginNext]_loginVars
    PROVE  ScanSignsIn'
<1> USE DEF ScanLeads, ScanSignsIn, serverVars, hashVars, phoneVars, qrVars, Try, Asks, Throws, Moves
<1>1. CASE SendCode BY <1>1 DEF SendCode, SentAgain, NewHash, NumberFails
<1>2. CASE ChooseQr BY <1>2 DEF ChooseQr
<1>3. CASE VerifyEmail BY <1>3 DEF VerifyEmail, TakesHash, KeepsHash, NewHash, NumberFails
<1>4. CASE TypeCode BY <1>4 DEF TypeCode
<1>5. CASE RestartAuth BY <1>5 DEF RestartAuth
<1>6. CASE SignIn BY <1>6 DEF SignIn
<1>7. CASE Expire BY <1>7 DEF Expire
<1>8. CASE SignUp BY <1>8 DEF SignUp
<1>9. CASE AcceptTerms BY <1>9 DEF AcceptTerms
<1>10. CASE CheckPassword BY <1>10 DEF CheckPassword
<1>11. CASE StartQr BY <1>11 DEF StartQr
<1>12. CASE PollAnswer BY <1>12 DEF PollAnswer, Token
<1>13. CASE PollAgain BY <1>13 DEF PollAgain, Stopped
<1>14. CASE Scan BY <1>14 DEF Scan
<1>15. CASE OnUpdate BY <1>15 DEF OnUpdate
<1>16. CASE Abort BY <1>16 DEF Abort
<1>17. CASE Export BY <1>17 DEF Export, Token, Migrated
<1>18. CASE Import BY <1>18 DEF Import
<1>19. CASE PollFails BY <1>19 DEF PollFails
<1>20. CASE UNCHANGED loginVars BY <1>20 DEF loginVars
<1> QED
  BY <1>1, <1>2, <1>3, <1>4, <1>5, <1>6, <1>7, <1>8, <1>9, <1>10, <1>11, <1>12, <1>13, <1>14,
     <1>15, <1>16, <1>17, <1>18, <1>19, <1>20
  DEF LoginNext

LEMMA LoginStep == LoginInv /\ [LoginNext]_loginVars => LoginInv'
<1> SUFFICES ASSUME LoginInv, [LoginNext]_loginVars PROVE LoginInv' OBVIOUS
<1>1. ScanLeads' BY LeadsStep DEF LoginInv
<1>2. SignsIn' BY HashStep, ScanStep DEF LoginInv, SignsIn
<1> QED BY <1>1, <1>2 DEF LoginInv

\* A code is sent with the hash it belongs to, after any number of verified emails, resends and
\* restarts, but for the hash that is kept when the server answers a verified email with something
\* else than a sent code; and a scan signs in but for a fault of its own or the poll's, whatever
\* the account and however many requests fail (auth.ts:190-530).
THEOREM SignInSound == LoginSpec => []SignsIn
<1>1. LoginInv => SignsIn BY DEF LoginInv
<1> QED BY <1>1, LoginBegins, LoginStep, PTL DEF LoginSpec

-----------------------------------------------------------------------------
(* What is kept of a sequence *)

\* One element more, where f is what is kept of fewer.
KeptNext(s, T, f, n) ==
    IF n = 0 THEN <<>>
    ELSE IF s[n] \in T THEN Append(f[n - 1], s[n]) ELSE f[n - 1]

\* g tells where the elements of t, which are the first n of s that are in T, are in s.
Places(g, s, n, T, t) ==
    /\ g \in [1 .. Len(t) -> 1 .. n]
    /\ \A i, k \in 1 .. Len(t) : i < k => g[i] < g[k]
    /\ \A k \in 1 .. Len(t) : t[k] = s[g[k]] /\ s[g[k]] \in T
    /\ \A i \in 1 .. n : s[i] \in T => \E k \in 1 .. Len(t) : g[k] = i

LEMMA KeptExists ==
    ASSUME NEW s, NEW T, NEW N \in Nat
    PROVE  \E f : f = [n \in 0 .. N |-> KeptNext(s, T, f, n)]
<1> DEFINE P == {n \in Nat : \E f : f = [k \in 0 .. n |-> KeptNext(s, T, f, k)]}
<1>1. ASSUME NEW n \in Nat, \A m \in Nat : m < n => m \in P PROVE n \in P
  <2>1. CASE n = 0
    <3>1. PICK f : f = [k \in 0 .. 0 |-> <<>>] OBVIOUS
    <3>2. f = [k \in 0 .. n |-> KeptNext(s, T, f, k)] BY <2>1, <3>1 DEF KeptNext
    <3> QED BY <3>2
  <2>2. CASE n > 0
    <3>1. n - 1 \in Nat /\ n - 1 < n BY <2>2
    <3>2. PICK f : f = [k \in 0 .. n - 1 |-> KeptNext(s, T, f, k)] BY <1>1, <3>1
    <3> DEFINE g == [k \in 0 .. n |-> IF k = n THEN KeptNext(s, T, f, n) ELSE f[k]]
    <3>3. ASSUME NEW k \in 0 .. n PROVE g[k] = KeptNext(s, T, g, k)
      <4>1. CASE k = 0 BY <2>2, <3>2, <4>1 DEF KeptNext
      <4>2. CASE k > 0
        <5>1. k - 1 \in 0 .. n /\ k - 1 # n BY <4>2
        <5>2. g[k - 1] = f[k - 1] BY <5>1
        <5>3. KeptNext(s, T, g, k) = KeptNext(s, T, f, k)
          <6> HIDE DEF g
          <6> QED BY <5>2, <4>2 DEF KeptNext
        <5>4. g[k] = KeptNext(s, T, f, k) BY <3>2, <5>1
        <5> QED BY <5>3, <5>4
      <4> QED BY <4>1, <4>2
    <3>4. g = [k \in 0 .. n |-> KeptNext(s, T, g, k)]
      <4>1. g = [k \in 0 .. n |-> g[k]] OBVIOUS
      <4> HIDE DEF g
      <4> QED BY <3>3, <4>1
    <3> QED BY <3>4
  <2> QED BY <2>1, <2>2
<1>2. P = Nat
  <2>1. P \in SUBSET Nat OBVIOUS
  <2> HIDE DEF P
  <2> QED BY <1>1, <2>1, Complete
<1>3. N \in P
  <2> HIDE DEF P
  <2> QED BY <1>2
<1> QED BY <1>3

\* One more element of s is kept, or is not.
LEMMA KeptGrows ==
    ASSUME NEW S, NEW s, NEW n \in Nat, s[n + 1] \in S, NEW T,
           NEW t \in Seq(S), NEW g, Places(g, s, n, T, t)
    PROVE  /\ s[n + 1] \in T =>
                 \E h : Places(h, s, n + 1, T, Append(t, s[n + 1]))
           /\ s[n + 1] \notin T => Places(g, s, n + 1, T, t)
<1>1. Len(t) \in Nat OBVIOUS
<1>2. ASSUME s[n + 1] \notin T PROVE Places(g, s, n + 1, T, t)
  <2>1. \A i \in 1 .. n + 1 : s[i] \in T => i \in 1 .. n BY <1>2
  <2> QED BY <2>1 DEF Places
<1>3. ASSUME s[n + 1] \in T PROVE \E h : Places(h, s, n + 1, T, Append(t, s[n + 1]))
  <2> DEFINE u == Append(t, s[n + 1])
             h == [k \in 1 .. Len(t) + 1 |-> IF k = Len(t) + 1 THEN n + 1 ELSE g[k]]
  <2>1. /\ Len(u) = Len(t) + 1 /\ u[Len(t) + 1] = s[n + 1]
        /\ \A k \in 1 .. Len(t) : u[k] = t[k]
    BY AppendProperties
  <2>2. h \in [1 .. Len(u) -> 1 .. n + 1] BY <1>1, <2>1 DEF Places
  <2>3. h[Len(t) + 1] = n + 1 /\ \A k \in 1 .. Len(t) : h[k] = g[k] /\ g[k] \in 1 .. n
    BY <1>1 DEF Places
  <2>4. Len(t) + 1 \in 1 .. Len(u) /\ \A k \in 1 .. Len(u) : k \in 1 .. Len(t) \/ k = Len(t) + 1
    BY <1>1, <2>1
  <2>12. 1 .. Len(t) \subseteq 1 .. Len(u) BY <1>1, <2>1
  <2> HIDE DEF u, h
  <2>5. ASSUME NEW i \in 1 .. Len(u), NEW k \in 1 .. Len(u), i < k PROVE h[i] < h[k]
    <3>1. i \in 1 .. Len(t) BY <1>1, <2>1, <2>5
    <3>2. CASE k \in 1 .. Len(t) BY <2>3, <2>5, <3>1, <3>2 DEF Places
    <3>3. CASE k = Len(t) + 1 BY <2>3, <3>1, <3>3
    <3> QED BY <2>4, <3>2, <3>3
  <2>6. ASSUME NEW k \in 1 .. Len(u) PROVE u[k] = s[h[k]] /\ s[h[k]] \in T
    <3>1. CASE k \in 1 .. Len(t) BY <2>1, <2>3, <3>1 DEF Places
    <3>2. CASE k = Len(t) + 1 BY <1>3, <2>1, <2>3, <3>2
    <3> QED BY <2>4, <3>1, <3>2
  <2>7. ASSUME NEW i \in 1 .. n + 1, s[i] \in T PROVE \E k \in 1 .. Len(u) : h[k] = i
    <3>1. CASE i = n + 1 BY <2>3, <2>4, <3>1
    <3>2. CASE i # n + 1
      <4>1. i \in 1 .. n BY <3>2
      <4>2. PICK k \in 1 .. Len(t) : g[k] = i BY <2>7, <4>1 DEF Places
      <4> QED BY <2>3, <2>12, <4>2
    <3> QED BY <3>1, <3>2
  <2>8. Places(h, s, n + 1, T, u) BY <2>2, <2>5, <2>6, <2>7 DEF Places
  <2> QED BY <2>8 DEF u
<1> QED BY <1>2, <1>3

\* Kept gives exactly the elements of s that are in T, in their order.
LEMMA KeptPlaces ==
    ASSUME NEW S, NEW s \in Seq(S), NEW T
    PROVE  /\ Kept(s, T) \in Seq(S)
           /\ \E g : Places(g, s, Len(s), T, Kept(s, T))
<1> DEFINE Defines(f) == f = [n \in 0 .. Len(s) |-> KeptNext(s, T, f, n)]
           kept == CHOOSE f : Defines(f)
<1>0. Len(s) \in Nat /\ \A i \in 1 .. Len(s) : s[i] \in S OBVIOUS
<1>1. Defines(kept)
  <2>1. \E f : Defines(f) BY <1>0, KeptExists
  <2> HIDE DEF Defines
  <2> QED BY <2>1
<1>2. Kept(s, T) = kept[Len(s)] BY DEF Kept, KeptNext
<1>3. \A n \in 0 .. Len(s) : kept[n] = KeptNext(s, T, kept, n)
  <2> HIDE DEF kept
  <2> QED BY <1>1
<1> HIDE DEF kept
<1> DEFINE Good(n) == kept[n] \in Seq(S) /\ \E g : Places(g, s, n, T, kept[n])
           P == {n \in Nat : n <= Len(s) => Good(n)}
<1>4. ASSUME NEW n \in Nat, \A m \in Nat : m < n => m \in P PROVE n \in P
  <2>1. SUFFICES ASSUME n <= Len(s) PROVE Good(n) OBVIOUS
  <2>2. n \in 0 .. Len(s) /\ kept[n] = KeptNext(s, T, kept, n) BY <1>0, <1>3, <2>1
  <2>3. CASE n = 0
    <3>1. kept[n] = <<>> BY <2>2, <2>3 DEF KeptNext
    <3>2. PICK g : g = [k \in 1 .. 0 |-> 0] OBVIOUS
    <3>3. Places(g, s, 0, T, <<>>) BY <3>2 DEF Places
    <3> QED BY <2>3, <3>1, <3>3
  <2>4. CASE n > 0
    <3>1. PICK m : m = n - 1 OBVIOUS
    <3>2. m \in Nat /\ m < n /\ m <= Len(s) /\ m + 1 = n /\ n \in 1 .. Len(s)
      BY <1>0, <2>1, <2>4, <3>1
    <3>3. Good(m)
      <4> HIDE DEF Good
      <4> QED BY <1>4, <3>2
    <3>4. PICK g : Places(g, s, m, T, kept[m]) BY <3>3
    <3>5. s[m + 1] \in S BY <1>0, <3>2
    <3>6. /\ s[m + 1] \in T => \E h : Places(h, s, m + 1, T, Append(kept[m], s[m + 1]))
          /\ s[m + 1] \notin T => Places(g, s, m + 1, T, kept[m])
      BY <3>2, <3>3, <3>4, <3>5, KeptGrows
    <3>7. kept[n] = IF s[n] \in T THEN Append(kept[m], s[n]) ELSE kept[m]
      BY <2>2, <2>4, <3>1 DEF KeptNext
    <3>8. kept[n] \in Seq(S) BY <3>2, <3>3, <3>5, <3>7, AppendProperties
    <3>9. \E h : Places(h, s, n, T, kept[n])
      <4>1. CASE s[n] \in T BY <3>2, <3>6, <3>7, <4>1
      <4>2. CASE s[n] \notin T BY <3>2, <3>6, <3>7, <4>2
      <4> QED BY <4>1, <4>2
    <3> QED BY <3>8, <3>9
  <2> QED BY <2>3, <2>4
<1>5. P = Nat
  <2>1. P \in SUBSET Nat OBVIOUS
  <2> HIDE DEF P
  <2> QED BY <1>4, <2>1, Complete
<1>6. Good(Len(s))
  <2>1. Len(s) \in P
    <3> HIDE DEF P
    <3> QED BY <1>0, <1>5
  <2> HIDE DEF Good
  <2> QED BY <1>0, <2>1
<1> QED BY <1>2, <1>6

Peer == [peer : MarkedIds, writtenAt : Nat]
Distinct(s) == \A i, k \in DOMAIN s : s[i].peer = s[k].peer => i = k

\* p is in u before q.
Before(u, p, q) == \E i, k \in DOMAIN u : i < k /\ u[i] = p /\ u[k] = q

\* The order of s is the order of use.
InOrder(s, u) ==
    /\ Keys(s) \subseteq Entries(u)
    /\ \A i, k \in DOMAIN s : i < k => Before(u, s[i].peer, s[k].peer)

\* A segment of the map, with what was used.
IsSegment(s, u) == s \in Seq(Peer) /\ Distinct(s) /\ InOrder(s, u)

\* What is kept of a segment is a segment.
LEMMA KeptSegment ==
    ASSUME NEW s \in Seq(Peer), Distinct(s), NEW u, InOrder(s, u), NEW T,
           NEW t, t = Kept(s, T)
    PROVE  /\ t \in Seq(Peer) /\ Distinct(t) /\ InOrder(t, u)
           /\ Entries(t) = Entries(s) \cap T
<1>1. t \in Seq(Peer) BY KeptPlaces
<1>2. PICK g : Places(g, s, Len(s), T, t) BY KeptPlaces
<1>3. Len(s) \in Nat /\ Len(t) \in Nat /\ DOMAIN s = 1 .. Len(s) /\ DOMAIN t = 1 .. Len(t)
  BY <1>1
<1>4. \A k \in DOMAIN t : g[k] \in DOMAIN s /\ t[k] = s[g[k]] /\ s[g[k]] \in T
  BY <1>2, <1>3 DEF Places
<1>5. \A i, k \in DOMAIN t : i < k => g[i] < g[k] BY <1>2, <1>3 DEF Places
<1>6. ASSUME NEW i \in DOMAIN t, NEW k \in DOMAIN t, t[i].peer = t[k].peer PROVE i = k
  <2>1. g[i] = g[k] BY <1>4, <1>6 DEF Distinct
  <2>2. g[i] \in Int /\ g[k] \in Int BY <1>3, <1>4
  <2>3. ~(i < k) /\ ~(k < i) BY <1>5, <2>1, <2>2
  <2> QED BY <1>3, <2>3
<1>7. Entries(t) = Entries(s) \cap T
  <2>1. Entries(t) \subseteq Entries(s) \cap T BY <1>4 DEF Entries
  <2>2. ASSUME NEW i \in DOMAIN s, s[i] \in T PROVE s[i] \in Entries(t)
    <3>1. PICK k \in DOMAIN t : g[k] = i BY <1>2, <1>3, <2>2 DEF Places
    <3>2. s[i] = t[k] BY <1>4, <3>1
    <3> QED BY <3>2 DEF Entries
  <2> QED BY <2>1, <2>2 DEF Entries
<1>8. Keys(t) \subseteq Keys(s) BY <1>4 DEF Keys
<1>9. ASSUME NEW i \in DOMAIN t, NEW k \in DOMAIN t, i < k
      PROVE  Before(u, t[i].peer, t[k].peer)
  <2>1. g[i] < g[k] BY <1>5, <1>9
  <2> QED BY <1>4, <2>1 DEF InOrder
<1> QED BY <1>1, <1>6, <1>7, <1>8, <1>9 DEF Distinct, InOrder

\* v is u with p at its end, where the others keep their order.
GoesLast(u, p, v) ==
    /\ v \in Seq(MarkedIds)
    /\ Entries(v) = Entries(u) \cup {p}
    /\ \A a, b \in MarkedIds \ {p} : Before(u, a, b) => Before(v, a, b)
    /\ \A a \in Entries(u) \ {p} : Before(v, a, p)

\* Who is used goes to the end.
LEMMA BeforeKept ==
    ASSUME NEW u \in Seq(MarkedIds), NEW p \in MarkedIds, NEW v, v = Append(Kept(u, MarkedIds \ {p}), p)
    PROVE  GoesLast(u, p, v)
<1> DEFINE t == Kept(u, MarkedIds \ {p})
<1>1. t \in Seq(MarkedIds) BY KeptPlaces
<1>2. PICK g : Places(g, u, Len(u), MarkedIds \ {p}, t) BY KeptPlaces
<1>3. Len(u) \in Nat /\ DOMAIN u = 1 .. Len(u) /\ \A i \in DOMAIN u : u[i] \in MarkedIds OBVIOUS
<1>4. v = Append(t, p) OBVIOUS
<1> HIDE DEF t
<1>5. /\ v \in Seq(MarkedIds) /\ Len(t) \in Nat /\ Len(v) = Len(t) + 1 /\ v[Len(t) + 1] = p
      /\ \A k \in 1 .. Len(t) : v[k] = t[k]
      /\ DOMAIN t = 1 .. Len(t) /\ DOMAIN v = 1 .. Len(t) + 1
  <2>1. Append(t, p) \in Seq(MarkedIds) BY <1>1, AppendProperties
  <2>2. Len(Append(t, p)) = Len(t) + 1 /\ Append(t, p)[Len(t) + 1] = p
    BY <1>1, AppendProperties
  <2>3. \A k \in 1 .. Len(t) : Append(t, p)[k] = t[k] BY <1>1, AppendProperties
  <2>4. Len(t) \in Nat /\ DOMAIN t = 1 .. Len(t) BY <1>1, LenProperties
  <2>5. DOMAIN v = 1 .. Len(v) BY <1>4, <2>1, LenProperties
  <2> QED BY <1>4, <2>1, <2>2, <2>3, <2>4, <2>5
<1>6. \A k \in DOMAIN t : g[k] \in DOMAIN u /\ v[k] = u[g[k]] /\ u[g[k]] # p
  BY <1>2, <1>3, <1>5 DEF Places
<1>7. \A i, k \in DOMAIN t : i < k => g[i] < g[k] BY <1>2, <1>5 DEF Places
<1>8. \A i \in DOMAIN u : u[i] # p => \E k \in DOMAIN t : g[k] = i
  BY <1>2, <1>3, <1>5 DEF Places
<1>9. Len(t) + 1 \in DOMAIN v /\ \A k \in DOMAIN t : k \in DOMAIN v /\ k < Len(t) + 1
  <2>1. PICK n \in Nat : n = Len(t) BY <1>5
  <2>2. DOMAIN t = 1 .. n /\ DOMAIN v = 1 .. n + 1 BY <1>5, <2>1
  <2>3. n + 1 \in 1 .. n + 1 /\ \A k \in 1 .. n : k \in 1 .. n + 1 /\ k < n + 1 OBVIOUS
  <2> QED BY <2>1, <2>2, <2>3
<1>10. ASSUME NEW a \in Entries(u) \ {p} PROVE \E k \in DOMAIN t : v[k] = a
  <2>1. PICK i \in DOMAIN u : u[i] = a BY DEF Entries
  <2>2. PICK k \in DOMAIN t : g[k] = i BY <1>8, <2>1
  <2> QED BY <1>6, <2>1, <2>2
<1>11. Entries(v) = Entries(u) \cup {p}
  <2>1. ASSUME NEW k \in DOMAIN v PROVE v[k] \in Entries(u) \cup {p}
    <3>1. CASE k \in DOMAIN t BY <1>6, <3>1 DEF Entries
    <3>2. CASE k = Len(t) + 1 BY <1>5, <3>2
    <3> QED BY <1>5, <3>1, <3>2
  <2>2. p \in Entries(v) BY <1>5, <1>9 DEF Entries
  <2>3. Entries(u) \ {p} \subseteq Entries(v) BY <1>9, <1>10 DEF Entries
  <2>4. Entries(v) \subseteq Entries(u) \cup {p} BY <2>1 DEF Entries
  <2> QED BY <2>2, <2>3, <2>4
<1>12. ASSUME NEW a \in MarkedIds \ {p}, NEW b \in MarkedIds \ {p}, Before(u, a, b)
       PROVE  Before(v, a, b)
  <2>1. PICK i \in DOMAIN u, k \in DOMAIN u : i < k /\ u[i] = a /\ u[k] = b
    BY <1>12 DEF Before
  <2>2. PICK x \in DOMAIN t : g[x] = i BY <1>8, <2>1
  <2>3. PICK y \in DOMAIN t : g[y] = k BY <1>8, <2>1
  <2>4. x \in Nat /\ y \in Nat BY <1>5
  <2>5. ~(y < x) /\ x # y
    <3>1. y < x => k < i BY <1>7, <2>2, <2>3
    <3> QED BY <1>3, <2>1, <2>2, <2>3, <3>1
  <2>6. x < y BY <2>4, <2>5
  <2>7. v[x] = a /\ v[y] = b BY <1>6, <2>1, <2>2, <2>3
  <2> QED BY <1>9, <2>6, <2>7 DEF Before
<1>13. ASSUME NEW a \in Entries(u) \ {p} PROVE Before(v, a, p)
  <2>1. PICK k \in DOMAIN t : v[k] = a BY <1>10
  <2> QED BY <1>5, <1>9, <2>1 DEF Before
<1> QED BY <1>5, <1>11, <1>12, <1>13 DEF GoesLast

\* Without p, and with p at the end, written or read.
LEMMA UsedSegment ==
    ASSUME NEW s \in Seq(Peer), Distinct(s), NEW u \in Seq(MarkedIds), InOrder(s, u),
           NEW p \in MarkedIds, NEW e \in Peer, e.peer = p,
           NEW v, v = Append(Kept(u, MarkedIds \ {p}), p),
           NEW t, t = Append(Without(s, p), e)
    PROVE  IsSegment(t, v) /\ v \in Seq(MarkedIds)
<1> DEFINE w == Without(s, p)
<1>1. /\ w \in Seq(Peer) /\ Distinct(w) /\ InOrder(w, u)
      /\ Entries(w) = Entries(s) \cap {x \in Entries(s) : x.peer # p}
  BY KeptSegment DEF Without
<1>2. t = Append(w, e) OBVIOUS
<1> HIDE DEF w
<1>3. /\ t \in Seq(Peer) /\ Len(w) \in Nat /\ t[Len(w) + 1] = e
      /\ \A k \in DOMAIN w : t[k] = w[k]
      /\ DOMAIN w = 1 .. Len(w) /\ DOMAIN t = 1 .. Len(w) + 1
      /\ \A k \in DOMAIN w : w[k] \in Peer
  BY <1>1, <1>2, AppendProperties
<1>4. \A k \in DOMAIN w : w[k].peer # p BY <1>1 DEF Entries
<1>5. \A k \in DOMAIN w : w[k].peer \in Entries(u) \ {p} BY <1>1, <1>4 DEF InOrder, Keys
<1>6. \A k \in DOMAIN w : w[k].peer \in MarkedIds \ {p} BY <1>3, <1>4 DEF Peer
<1>7. /\ v \in Seq(MarkedIds)
      /\ Entries(v) = Entries(u) \cup {p}
      /\ \A a, b \in MarkedIds \ {p} : Before(u, a, b) => Before(v, a, b)
      /\ \A a \in Entries(u) \ {p} : Before(v, a, p)
  <2>1. GoesLast(u, p, v) BY BeforeKept
  <2> QED BY <2>1 DEF GoesLast
<1>8. \A k \in DOMAIN t : k \in DOMAIN w \/ k = Len(w) + 1 BY <1>3
<1>9. Distinct(t)
  <2>1. SUFFICES ASSUME NEW i \in DOMAIN t, NEW k \in DOMAIN t, t[i].peer = t[k].peer
                 PROVE  i = k
    BY DEF Distinct
  <2>2. CASE i \in DOMAIN w /\ k \in DOMAIN w BY <1>1, <1>3, <2>1, <2>2 DEF Distinct
  <2>3. CASE ~(i \in DOMAIN w /\ k \in DOMAIN w) BY <1>3, <1>4, <1>8, <2>1, <2>3
  <2> QED BY <2>2, <2>3
<1>10. InOrder(t, v)
  <2>1. ASSUME NEW k \in DOMAIN t PROVE t[k].peer \in Entries(v)
    <3>1. CASE k \in DOMAIN w BY <1>3, <1>5, <1>7, <3>1
    <3>2. CASE k = Len(w) + 1 BY <1>3, <1>7, <3>2
    <3> QED BY <1>8, <3>1, <3>2
  <2>2. ASSUME NEW i \in DOMAIN t, NEW k \in DOMAIN t, i < k
        PROVE  Before(v, t[i].peer, t[k].peer)
    <3>1. i \in DOMAIN w BY <1>3, <2>2
    <3>2. CASE k \in DOMAIN w
      <4>1. Before(u, w[i].peer, w[k].peer) BY <1>1, <2>2, <3>1, <3>2 DEF InOrder
      <4> QED BY <1>3, <1>6, <1>7, <3>1, <3>2, <4>1
    <3>3. CASE k = Len(w) + 1 BY <1>3, <1>5, <1>7, <3>1, <3>3
    <3> QED BY <1>8, <3>2, <3>3
  <2> QED BY <2>1, <2>2 DEF InOrder, Keys
<1> QED BY <1>3, <1>7, <1>9, <1>10 DEF IsSegment

-----------------------------------------------------------------------------
(* The prune by size *)

LEMMA KeptLength ==
    ASSUME NEW S, NEW s \in Seq(S), NEW T
    PROVE  Len(Kept(s, T)) = Cardinality({i \in DOMAIN s : s[i] \in T})
<1> DEFINE t == Kept(s, T)
           D == {i \in DOMAIN s : s[i] \in T}
<1>1. t \in Seq(S) BY KeptPlaces
<1>2. PICK g : Places(g, s, Len(s), T, t) BY KeptPlaces
<1>3. Len(s) \in Nat /\ Len(t) \in Nat /\ DOMAIN s = 1 .. Len(s) BY <1>1
<1> HIDE DEF t
<1>4. g \in [1 .. Len(t) -> D] BY <1>2, <1>3 DEF Places
<1>5. ASSUME NEW i \in 1 .. Len(t), NEW k \in 1 .. Len(t), g[i] = g[k] PROVE i = k
  <2>1. \A j \in 1 .. Len(t) : g[j] \in Int BY <1>2, <1>3 DEF Places
  <2>2. ~(i < k) /\ ~(k < i) BY <1>2, <1>5, <2>1 DEF Places
  <2> QED BY <1>3, <2>2
<1>6. \A i \in D : \E k \in 1 .. Len(t) : g[k] = i BY <1>2, <1>3 DEF Places
<1>7. g \in Bijection(1 .. Len(t), D)
  <2> HIDE DEF D
  <2> QED BY <1>4, <1>5, <1>6 DEF Bijection, Injection, Surjection, IsInjective
<1>8. Cardinality(D) = Len(t)
  <2>1. ExistsBijection(1 .. Len(t), D) BY <1>7 DEF ExistsBijection
  <2> HIDE DEF D
  <2> QED BY <1>3, <2>1, FS_CountingElements
<1> QED BY <1>8 DEF t

\* Without the elements at some places.
LEMMA KeptWithout ==
    ASSUME NEW s \in Seq(Peer), Distinct(s), NEW X \in SUBSET DOMAIN s,
           NEW t, t = Kept(s, Entries(s) \ {s[i] : i \in X})
    PROVE  /\ IsFiniteSet(X) /\ Cardinality(X) \in Nat /\ Len(t) = Len(s) - Cardinality(X)
           /\ Entries(t) = {s[i] : i \in DOMAIN s \ X}
<1> DEFINE T == Entries(s) \ {s[i] : i \in X}
<1>1. Len(s) \in Nat /\ DOMAIN s = 1 .. Len(s) OBVIOUS
<1>2. \A i \in DOMAIN s : s[i] \in T <=> i \notin X BY DEF Distinct, Entries
<1>3. {i \in DOMAIN s : s[i] \in T} = DOMAIN s \ X
  <2> HIDE DEF T
  <2> QED BY <1>2
<1>4. IsFiniteSet(DOMAIN s) /\ Cardinality(DOMAIN s) = Len(s)
  <2>1. PICK n \in Nat : n = Len(s) BY <1>1
  <2>2. IsFiniteSet(1 .. n) /\ Cardinality(1 .. n) = n BY FS_Interval
  <2> QED BY <1>1, <2>1, <2>2
<1>5. IsFiniteSet(X) /\ IsFiniteSet(DOMAIN s \ X) BY <1>4, FS_Subset
<1>6. Cardinality(X) \in Nat /\ Cardinality(DOMAIN s \ X) \in Nat BY <1>5, FS_CardinalityType
<1>7. Cardinality(DOMAIN s \ X) + Cardinality(X) = Len(s)
  <2> DEFINE Y == DOMAIN s \ X
  <2>1. Y \cup X = DOMAIN s /\ Y \cap X = {} OBVIOUS
  <2>2. IsFiniteSet(Y) /\ Cardinality(Y) \in Nat BY <1>5, <1>6
  <2>3. Cardinality({}) = 0 BY FS_EmptySet
  <2> HIDE DEF Y
  <2>4. Cardinality(Y \cup X) = Cardinality(Y) + Cardinality(X) - Cardinality(Y \cap X)
    BY <1>5, <2>2, FS_Union
  <2>5. Len(s) = Cardinality(Y) + Cardinality(X) - 0 BY <1>4, <2>1, <2>3, <2>4
  <2>6. Cardinality(Y) + Cardinality(X) = Len(s) BY <1>6, <2>2, <2>5
  <2> QED BY <2>6 DEF Y
<1>8. Len(t) = Cardinality(DOMAIN s \ X) BY <1>3, KeptLength
<1>9. Entries(t) = {s[i] : i \in DOMAIN s \ X}
  <2>1. PICK g : Places(g, s, Len(s), T, t) BY KeptPlaces
  <2>2. t \in Seq(Peer) BY KeptPlaces
  <2>3. Len(t) \in Nat /\ DOMAIN t = 1 .. Len(t) BY <2>2
  <2> HIDE DEF T
  <2>4. ASSUME NEW k \in DOMAIN t PROVE \E i \in DOMAIN s \ X : t[k] = s[i]
    <3>1. g[k] \in DOMAIN s /\ t[k] = s[g[k]] /\ s[g[k]] \in T
      BY <1>1, <2>1, <2>3 DEF Places
    <3> QED BY <1>2, <3>1
  <2>5. ASSUME NEW i \in DOMAIN s \ X PROVE \E k \in DOMAIN t : t[k] = s[i]
    <3>1. PICK k \in DOMAIN t : g[k] = i BY <1>1, <1>2, <2>1, <2>3 DEF Places
    <3> QED BY <2>1, <2>3, <3>1 DEF Places
  <2>6. Entries(t) \subseteq {s[i] : i \in DOMAIN s \ X} BY <2>4 DEF Entries
  <2>7. {s[i] : i \in DOMAIN s \ X} \subseteq Entries(t) BY <2>5 DEF Entries
  <2> QED BY <2>6, <2>7
<1> QED BY <1>5, <1>6, <1>7, <1>8, <1>9

LEMMA LooseGrows ==
    ASSUME NEW s \in Seq(Peer), NEW i \in Nat, NEW k \in Nat
    PROVE  /\ IsFiniteSet(Loose(s) \cap 1 .. k) /\ LooseUpTo(s, k) \in Nat /\ LooseUpTo(s, 0) = 0
           /\ i <= k => LooseUpTo(s, i) <= LooseUpTo(s, k)
           /\ LooseUpTo(s, k + 1) <= LooseUpTo(s, k) + 1
           /\ k \in Loose(s) => LooseUpTo(s, k) > 0
<1> DEFINE D(n) == Loose(s) \cap 1 .. n
<1>1. \A n \in Nat : IsFiniteSet(D(n)) /\ Cardinality(D(n)) \in Nat
  <2>1. SUFFICES ASSUME NEW n \in Nat PROVE IsFiniteSet(D(n)) /\ Cardinality(D(n)) \in Nat
    OBVIOUS
  <2>2. IsFiniteSet(1 .. n) BY FS_Interval
  <2>3. IsFiniteSet(D(n)) BY <2>2, FS_Subset
  <2> QED BY <2>3, FS_CardinalityType
<1>2. LooseUpTo(s, 0) = 0
  <2>1. D(0) = {} OBVIOUS
  <2> QED BY <2>1, FS_EmptySet DEF LooseUpTo
<1>3. ASSUME i <= k PROVE LooseUpTo(s, i) <= LooseUpTo(s, k)
  <2>1. D(i) \in SUBSET D(k) BY <1>3
  <2> QED BY <1>1, <2>1, FS_Subset DEF LooseUpTo
<1>4. LooseUpTo(s, k + 1) <= LooseUpTo(s, k) + 1
  <2>1. /\ IsFiniteSet(D(k) \cup {k + 1})
        /\ Cardinality(D(k) \cup {k + 1}) =
              IF k + 1 \in D(k) THEN Cardinality(D(k)) ELSE Cardinality(D(k)) + 1
    <3> HIDE DEF D
    <3> QED BY <1>1, FS_AddElement
  <2>2. D(k + 1) \in SUBSET (D(k) \cup {k + 1}) OBVIOUS
  <2>3. Cardinality(D(k + 1)) <= Cardinality(D(k) \cup {k + 1})
    <3> HIDE DEF D
    <3> QED BY <2>1, <2>2, FS_Subset
  <2>4. Cardinality(D(k)) \in Nat /\ Cardinality(D(k + 1)) \in Nat
    <3> HIDE DEF D
    <3> QED BY <1>1, SMTT(30)
  <2> HIDE DEF D
  <2>5. PICK a \in Nat, b \in Nat : a = Cardinality(D(k)) /\ b = Cardinality(D(k + 1)) BY <2>4
  <2>6. b <= a \/ b <= a + 1 BY <2>1, <2>3, <2>5
  <2>7. b <= a + 1 BY <2>6
  <2> QED BY <2>5, <2>7 DEF LooseUpTo, D
<1>5. ASSUME k \in Loose(s) PROVE LooseUpTo(s, k) > 0
  <2>1. k \in D(k)
    <3>1. k \in 1 .. Len(s) BY <1>5 DEF Loose
    <3> QED BY <1>5, <3>1
  <2>2. Cardinality(D(k)) # 0
    <3> HIDE DEF D
    <3> QED BY <1>1, <2>1, FS_EmptySet
  <2>3. Cardinality(D(k)) > 0
    <3> HIDE DEF D
    <3> QED BY <1>1, <2>2
  <2> QED BY <2>3 DEF LooseUpTo
<1> QED BY <1>1, <1>2, <1>3, <1>4, <1>5 DEF LooseUpTo

\* No more than what is over the capacity goes, and all of that unless too few are loose.
LEMMA ExcessCount ==
    ASSUME NEW s \in Seq(Peer), IsFiniteSet(Excess(s)), Cardinality(Excess(s)) \in Nat,
           NEW over \in Int, over = OverCapacity(s)
    PROVE  /\ Excess(s) # {} => over > 0 /\ Cardinality(Excess(s)) <= over
           /\ Loose(s) \ Excess(s) # {} /\ over > 0 => Cardinality(Excess(s)) >= over
<1> DEFINE X == Excess(s)
           D(n) == Loose(s) \cap 1 .. n
<1>1. Len(s) \in Nat /\ Loose(s) \subseteq 1 .. Len(s) BY DEF Loose
<1>2. \A n \in Nat : IsFiniteSet(D(n)) /\ LooseUpTo(s, n) \in Nat /\ Cardinality(D(n)) = LooseUpTo(s, n)
  BY LooseGrows DEF LooseUpTo
<1>3. \A i \in X : i \in Loose(s) /\ i \in Nat /\ i <= Len(s) /\ LooseUpTo(s, i) <= over
  BY <1>1 DEF Excess
<1>4. ASSUME X # {} PROVE over > 0 /\ Cardinality(X) <= over
  <2> DEFINE T == {Len(s) - i : i \in X}
  <2>1. T \in SUBSET Nat /\ T # {} BY <1>1, <1>3, <1>4
  <2>2. PICK m \in T : \A n \in T : m <= n
    <3> HIDE DEF T
    <3> QED BY <2>1, LeastNumber
  <2>3. PICK i \in X : m = Len(s) - i OBVIOUS
  <2>4. ASSUME NEW k \in X PROVE k <= i
    <3>1. Len(s) - k \in T OBVIOUS
    <3>2. m <= Len(s) - k
      <4> HIDE DEF T, X
      <4> QED BY <2>2, <3>1
    <3>3. i \in Nat /\ k \in Nat BY <1>3
    <3> HIDE DEF T, X
    <3> QED BY <1>1, <2>3, <3>2, <3>3
  <2>5. i \in Nat /\ i \in Loose(s) /\ LooseUpTo(s, i) <= over BY <1>3, <2>3
  <2>6. LooseUpTo(s, i) > 0 BY <2>5, LooseGrows
  <2>7. X \subseteq D(i)
    <3>1. SUFFICES ASSUME NEW k \in X PROVE k \in D(i) OBVIOUS
    <3>2. k \in Loose(s) /\ k \in 1 .. Len(s) /\ k <= i BY <1>1, <1>3, <2>4
    <3> QED BY <2>5, <3>2
  <2>8. Cardinality(X) <= Cardinality(D(i))
    <3>1. IsFiniteSet(D(i)) BY <1>2, <2>5
    <3> HIDE DEF D, X
    <3> QED BY <2>7, <3>1, FS_Subset
  <2>9. Cardinality(X) <= LooseUpTo(s, i)
    <3> HIDE DEF D, X
    <3> QED BY <1>2, <2>5, <2>8
  <2>10. LooseUpTo(s, i) \in Nat /\ Cardinality(X) \in Nat BY <1>2, <2>5
  <2> HIDE DEF X, D
  <2> QED BY <2>5, <2>6, <2>9, <2>10
<1>5. ASSUME NEW k \in Loose(s) \ X, over > 0 PROVE Cardinality(X) >= over
  <2>1. k \in Nat /\ k \in 1 .. Len(s) BY <1>1
  <2>2. LooseUpTo(s, k) > over
    <3>1. LooseUpTo(s, k) \in Nat /\ ~(LooseUpTo(s, k) <= over) BY <1>2, <1>5, <2>1 DEF Excess
    <3> QED BY <3>1
  <2> DEFINE T == {n \in Nat : LooseUpTo(s, n) >= over}
  <2>3. T \in SUBSET Nat /\ k \in T
    <3>1. LooseUpTo(s, k) \in Nat BY <1>2, <2>1
    <3>2. LooseUpTo(s, k) >= over BY <2>2, <3>1
    <3> QED BY <2>1, <3>2
  <2>4. PICK n \in T : \A m \in T : n <= m
    <3> HIDE DEF T
    <3> QED BY <2>3, LeastNumber
  <2>5. n \in Nat /\ LooseUpTo(s, n) >= over /\ LooseUpTo(s, n) \in Nat BY <1>2, <2>4
  <2>6. n # 0
    <3>1. LooseUpTo(s, 0) = 0 BY <2>5, LooseGrows
    <3> QED BY <1>5, <2>5, <3>1
  <2>7. PICK m \in Nat : m + 1 = n
    <3>1. n - 1 \in Nat /\ (n - 1) + 1 = n BY <2>5, <2>6
    <3> QED BY <3>1
  <2>8. LooseUpTo(s, m) < over
    <3>1. m \notin T
      <4>1. ~(n <= m) BY <2>7
      <4> HIDE DEF T
      <4> QED BY <2>4, <4>1
    <3>2. LooseUpTo(s, m) \in Nat BY <1>2
    <3> QED BY <3>1, <3>2
  <2>9. LooseUpTo(s, n) = over
    <3>1. LooseUpTo(s, m + 1) <= LooseUpTo(s, m) + 1 /\ LooseUpTo(s, m) \in Nat BY LooseGrows
    <3>2. LooseUpTo(s, n) <= LooseUpTo(s, m) + 1 BY <2>7, <3>1
    <3> QED BY <2>5, <2>8, <3>1, <3>2
  <2>10. D(n) \subseteq X
    <3>1. SUFFICES ASSUME NEW i \in D(n) PROVE i \in X OBVIOUS
    <3>2. i \in Loose(s) /\ i \in Nat /\ i <= n BY <2>5
    <3>3. LooseUpTo(s, i) <= LooseUpTo(s, n) BY <2>5, <3>2, LooseGrows
    <3>4. LooseUpTo(s, i) <= over BY <2>9, <3>3
    <3> QED BY <3>2, <3>4 DEF Excess
  <2>11. Cardinality(D(n)) <= Cardinality(X)
    <3>1. D(n) \in SUBSET X BY <2>10
    <3>2. IsFiniteSet(X) OBVIOUS
    <3> HIDE DEF D, X
    <3> QED BY <3>1, <3>2, FS_Subset
  <2>12. Cardinality(D(n)) = over
    <3> HIDE DEF D
    <3> QED BY <1>2, <2>5, <2>9
  <2>13. Cardinality(X) \in Nat OBVIOUS
  <2> HIDE DEF D, X
  <2> QED BY <2>11, <2>12, <2>13
<1> HIDE DEF D
<1> QED BY <1>4, <1>5

\* What goes is loose and in front of all that is loose and stays; it goes until there is room or
\* nothing loose is left, and not when there is room.
LEMMA PrunedBySizeRight ==
    ASSUME NEW s \in Seq(Peer), Distinct(s), Capacity > 0, NEW t, t = PrunedBySize(s)
    PROVE  /\ Len(t) > Capacity => Keys(t) \subseteq pinnedKeys
           /\ Keys(s) \ Keys(t) # {} => Len(t) >= Capacity
           /\ \A p \in Keys(s) \ Keys(t) :
                 /\ p \notin pinnedKeys
                 /\ \A q \in Keys(t) \ pinnedKeys :
                       \E i, k \in DOMAIN s : i < k /\ s[i].peer = p /\ s[k].peer = q
<1> DEFINE X == Excess(s)
<1>1. /\ Len(s) \in Nat /\ DOMAIN s = 1 .. Len(s) /\ Capacity \in Nat
      /\ OverCapacity(s) = Len(s) - Capacity /\ OverCapacity(s) \in Int
  BY EntityCacheAssumption DEF OverCapacity
<1>2. Loose(s) \subseteq DOMAIN s /\ X \subseteq Loose(s) /\ X \in SUBSET DOMAIN s
  BY DEF Loose, Excess
<1>3. t = Kept(s, Entries(s) \ {s[i] : i \in X}) BY <1>1 DEF PrunedBySize
<1>4. /\ IsFiniteSet(X) /\ Cardinality(X) \in Nat /\ Len(t) = Len(s) - Cardinality(X)
      /\ Entries(t) = {s[i] : i \in DOMAIN s \ X}
  <2> HIDE DEF X
  <2> QED BY <1>2, <1>3, KeptWithout
<1>5. /\ X # {} => OverCapacity(s) > 0 /\ Cardinality(X) <= OverCapacity(s)
      /\ Loose(s) \ X # {} /\ OverCapacity(s) > 0 => Cardinality(X) >= OverCapacity(s)
  BY <1>1, <1>4, ExcessCount
<1> HIDE DEF X
<1>6. Keys(t) = {s[i].peer : i \in DOMAIN s \ X}
  <2>1. Keys(t) = {e.peer : e \in Entries(t)} BY DEF Keys, Entries
  <2> QED BY <1>4, <2>1
<1>7. \A i \in X : i \in Loose(s) /\ s[i].peer \notin pinnedKeys BY <1>2 DEF Loose
<1>8. ASSUME Len(t) > Capacity PROVE Keys(t) \subseteq pinnedKeys
  <2>1. Loose(s) \ X = {}
    <3>1. SUFFICES ASSUME Loose(s) \ X # {} PROVE FALSE OBVIOUS
    <3>2. CASE OverCapacity(s) > 0 BY <1>1, <1>4, <1>5, <1>8, <3>1, <3>2
    <3>3. CASE ~(OverCapacity(s) > 0) BY <1>1, <1>4, <1>8, <3>3
    <3> QED BY <3>2, <3>3
  <2> QED BY <1>6, <2>1 DEF Loose
<1>9. \A p \in Keys(s) \ Keys(t) : \E i \in X : s[i].peer = p BY <1>2, <1>6 DEF Keys
<1>10. Keys(s) \ Keys(t) # {} => Len(t) >= Capacity
  <2>1. SUFFICES ASSUME X # {} PROVE Len(t) >= Capacity BY <1>9
  <2> QED BY <1>1, <1>4, <1>5, <2>1
<1>11. ASSUME NEW p \in Keys(s) \ Keys(t), NEW q \in Keys(t) \ pinnedKeys
       PROVE  \E i, k \in DOMAIN s : i < k /\ s[i].peer = p /\ s[k].peer = q
  <2>1. PICK i \in X : s[i].peer = p BY <1>9
  <2>2. PICK k \in DOMAIN s \ X : s[k].peer = q BY <1>6
  <2>3. k \in Loose(s) BY <2>2 DEF Loose
  <2>4. i \in DOMAIN s /\ i \in Nat /\ k \in Nat BY <1>1, <1>2
  <2>5. LooseUpTo(s, i) <= OverCapacity(s) /\ ~(LooseUpTo(s, k) <= OverCapacity(s))
    BY <2>3 DEF X, Excess
  <2>6. LooseUpTo(s, i) \in Nat /\ LooseUpTo(s, k) \in Nat /\ (k <= i => LooseUpTo(s, k) <= LooseUpTo(s, i))
    BY <2>4, LooseGrows
  <2>7. i < k BY <1>1, <2>4, <2>5, <2>6
  <2> QED BY <2>1, <2>2, <2>4, <2>7
<1> QED BY <1>7, <1>8, <1>9, <1>10, <1>11

-----------------------------------------------------------------------------
(* The cache of peers *)

CacheTypeOK ==
    /\ segment \in Seq(Peer) /\ pinnedKeys \subseteq MarkedIds /\ now \in Nat
    /\ used \in Seq(MarkedIds)
    /\ latest.gone \subseteq MarkedIds
    /\ latest.op \in {"none", "add", "hit", "miss", "delete", "clear", "pin"}

\* The order of the map is the order of use.
CacheInv == CacheTypeOK /\ Distinct(segment) /\ InOrder(segment, used) /\ LeastUsedGoes

LEMMA CacheBegins == CacheInit => CacheInv
<1> SUFFICES ASSUME CacheInit PROVE CacheInv OBVIOUS
<1>1. /\ segment = <<>> /\ pinnedKeys = {} /\ now = 0 /\ used = <<>>
      /\ latest = [op |-> "none", gone |-> {}]
  BY DEF CacheInit
<1>2. CacheTypeOK BY <1>1 DEF CacheTypeOK
<1>3. Distinct(segment) /\ InOrder(segment, used)
  BY <1>1 DEF Distinct, InOrder, Keys
<1>4. LeastUsedGoes BY <1>1 DEF LeastUsedGoes, OlderGoes, HoldsCapacity
<1> QED BY <1>2, <1>3, <1>4 DEF CacheInv

LEMMA SegmentNow ==
    ASSUME NEW t, NEW v, Distinct(t), InOrder(t, v), segment' = t, used' = v
    PROVE  Distinct(segment)' /\ InOrder(segment, used)'
<1>1. Distinct(segment)' BY DEF Distinct
<1>2. (Keys(segment) \subseteq Entries(used))' BY DEF InOrder, Keys, Entries
<1>3. (\A i, k \in DOMAIN segment : i < k => Before(used, segment[i].peer, segment[k].peer))'
  BY DEF InOrder, Before
<1> QED BY <1>1, <1>2, <1>3 DEF InOrder

\* A step that evicts nothing for want of room.
LEMMA NothingGoes ==
    ASSUME latest'.gone = {}, latest'.op # "add"
    PROVE  LeastUsedGoes'
BY DEF LeastUsedGoes, OlderGoes, HoldsCapacity

LEMMA EntryFound ==
    ASSUME NEW s \in Seq(Peer), NEW p \in Keys(s)
    PROVE  Entry(s, p) \in Peer /\ Entry(s, p).peer = p
<1>1. \E e \in Entries(s) : e.peer = p BY DEF Keys, Entries
<1>2. Entries(s) \subseteq Peer BY DEF Entries
<1>3. Entry(s, p) \in Entries(s) /\ Entry(s, p).peer = p BY <1>1 DEF Entry
<1> QED BY <1>2, <1>3

LEMMA PeersOf ==
    ASSUME NEW s \in Seq(Peer)
    PROVE  Keys(s) \subseteq MarkedIds
<1>1. \A i \in DOMAIN s : s[i] \in Peer OBVIOUS
<1>2. \A i \in DOMAIN s : s[i].peer \in MarkedIds BY <1>1 DEF Peer
<1> QED BY <1>2 DEF Keys

LEMMA AddStep ==
    ASSUME CacheInv, NEW p \in MarkedIds, Add(p)
    PROVE  CacheInv'
<1> DEFINE e == [peer |-> p, writtenAt |-> now]
           s == Append(Without(segment, p), e)
           a == PrunedByAge(s)
           t == PrunedBySize(a)
<1>1. /\ segment \in Seq(Peer) /\ Distinct(segment) /\ InOrder(segment, used)
      /\ used \in Seq(MarkedIds) /\ now \in Nat /\ pinnedKeys \subseteq MarkedIds
  BY DEF CacheInv, CacheTypeOK
<1>2. /\ segment' = t /\ latest' = [op |-> "add", gone |-> Keys(a) \ Keys(t)]
      /\ used' = Append(Kept(used, MarkedIds \ {p}), p)
      /\ pinnedKeys' = pinnedKeys /\ now' = now
  BY DEF Add, UsedLast, Prune
<1>3. e \in Peer /\ e.peer = p BY <1>1 DEF Peer
<1>4. s \in Seq(Peer) /\ Distinct(s) /\ InOrder(s, used') /\ used' \in Seq(MarkedIds)
  <2> HIDE DEF e, a, t
  <2>1. IsSegment(s, used') /\ used' \in Seq(MarkedIds) BY <1>1, <1>2, <1>3, UsedSegment
  <2> QED BY <2>1 DEF IsSegment
<1> HIDE DEF s
<1>5. a \in Seq(Peer) /\ Distinct(a) /\ InOrder(a, used')
  <2>1. PICK T : a = Kept(s, T) BY DEF PrunedByAge
  <2> QED BY <1>4, <2>1, KeptSegment
<1> HIDE DEF a
<1>6. t \in Seq(Peer) /\ Distinct(t) /\ InOrder(t, used')
  <2>1. CASE Capacity = 0 BY <1>5, <2>1 DEF PrunedBySize
  <2>2. CASE Capacity # 0
    <3>1. PICK T : t = Kept(a, T) BY <2>2 DEF PrunedBySize
    <3> HIDE DEF t
    <3> QED BY <1>5, <3>1, KeptSegment
  <2> QED BY <2>1, <2>2
<1>7. Keys(a) \subseteq MarkedIds BY <1>5, PeersOf
<1>8. CacheTypeOK' BY <1>1, <1>2, <1>4, <1>6, <1>7 DEF CacheTypeOK
<1>9. LeastUsedGoes'
  <2>1. CASE Capacity = 0
    <3>1. t = a BY <2>1 DEF PrunedBySize
    <3> QED BY <1>2, <2>1, <3>1 DEF LeastUsedGoes, OlderGoes, HoldsCapacity
  <2>2. CASE Capacity # 0
    <3>1. Capacity > 0 BY <2>2, EntityCacheAssumption
    <3>2. /\ Len(t) > Capacity => Keys(t) \subseteq pinnedKeys
          /\ Keys(a) \ Keys(t) # {} => Len(t) >= Capacity
          /\ \A q \in Keys(a) \ Keys(t) :
                /\ q \notin pinnedKeys
                /\ \A r \in Keys(t) \ pinnedKeys :
                      \E i, k \in DOMAIN a : i < k /\ a[i].peer = q /\ a[k].peer = r
      BY <1>5, <3>1, PrunedBySizeRight
    <3> HIDE DEF t
    <3>3. ASSUME NEW q \in Keys(a) \ Keys(t), NEW r \in Keys(t) \ pinnedKeys
          PROVE  Older(q, r)'
      <4>1. PICK i \in DOMAIN a, k \in DOMAIN a : i < k /\ a[i].peer = q /\ a[k].peer = r
        BY <3>2
      <4>2. Before(used', q, r) BY <1>5, <4>1 DEF InOrder
      <4> QED BY <4>2 DEF Before, Older
    <3>4. Keys(segment)' = Keys(t) BY <1>2 DEF Keys
    <3>5. OlderGoes' BY <1>2, <3>2, <3>3, <3>4 DEF OlderGoes
    <3>6. HoldsCapacity' BY <1>2, <3>2, <3>4 DEF HoldsCapacity
    <3> QED BY <3>5, <3>6 DEF LeastUsedGoes
  <2> QED BY <2>1, <2>2
<1>10. Distinct(segment)' /\ InOrder(segment, used)'
  <2> HIDE DEF t
  <2> QED BY <1>2, <1>6, SegmentNow
<1> QED BY <1>8, <1>9, <1>10 DEF CacheInv

\* A segment that lost some of its entries while nothing was used.
LEMMA FewerStep ==
    ASSUME CacheInv, NEW T, segment' = Kept(segment, T), used' = used, now' = now,
           pinnedKeys' \subseteq MarkedIds, latest'.gone = {},
           latest'.op \in {"miss", "delete"}
    PROVE  CacheInv'
<1>1. /\ segment \in Seq(Peer) /\ Distinct(segment) /\ InOrder(segment, used)
      /\ used \in Seq(MarkedIds) /\ now \in Nat
  BY DEF CacheInv, CacheTypeOK
<1>2. PICK t : t = Kept(segment, T) OBVIOUS
<1>3. t \in Seq(Peer) /\ Distinct(t) /\ InOrder(t, used) BY <1>1, <1>2, KeptSegment
<1>4. segment' = t BY <1>2
<1>5. CacheTypeOK' BY <1>1, <1>3, <1>4 DEF CacheTypeOK
<1>6. Distinct(segment)' /\ InOrder(segment, used)'
  BY <1>3, <1>4, SegmentNow
<1>7. LeastUsedGoes' BY NothingGoes
<1> QED BY <1>5, <1>6, <1>7 DEF CacheInv

LEMMA FindStep ==
    ASSUME CacheInv, NEW p \in MarkedIds, Find(p)
    PROVE  CacheInv'
<1> DEFINE e == Entry(segment, p)
           t == ReadAgain(segment, p)
<1>1. /\ segment \in Seq(Peer) /\ Distinct(segment) /\ InOrder(segment, used)
      /\ used \in Seq(MarkedIds) /\ now \in Nat /\ pinnedKeys \subseteq MarkedIds
  BY DEF CacheInv, CacheTypeOK
<1>2. p \in Keys(segment) /\ pinnedKeys' = pinnedKeys /\ now' = now BY DEF Find
<1>3. CASE Expired(e)
  <2>1. /\ segment' = Without(segment, p) /\ latest' = [op |-> "miss", gone |-> {}]
        /\ used' = used
    BY <1>3 DEF Find
  <2>2. PICK T : segment' = Kept(segment, T) BY <2>1 DEF Without
  <2>3. latest'.gone = {} /\ latest'.op \in {"miss", "delete"} BY <2>1
  <2> QED BY <1>1, <1>2, <2>1, <2>2, <2>3, FewerStep
<1>4. CASE ~Expired(e)
  <2>1. /\ segment' = t /\ latest' = [op |-> "hit", gone |-> {}]
        /\ used' = Append(Kept(used, MarkedIds \ {p}), p)
    BY <1>4 DEF Find, UsedLast
  <2>2. e \in Peer /\ e.peer = p BY <1>1, <1>2, EntryFound
  <2>3. t = Append(Without(segment, p), e) BY DEF ReadAgain
  <2> HIDE DEF t, e
  <2>4. t \in Seq(Peer) /\ Distinct(t) /\ InOrder(t, used') /\ used' \in Seq(MarkedIds)
    <3>1. IsSegment(t, used') /\ used' \in Seq(MarkedIds)
      BY <1>1, <2>1, <2>2, <2>3, UsedSegment
    <3> QED BY <3>1 DEF IsSegment
  <2>5. CacheTypeOK' BY <1>1, <1>2, <2>1, <2>4 DEF CacheTypeOK
  <2>6. Distinct(segment)' /\ InOrder(segment, used)'
    BY <2>1, <2>4, SegmentNow
  <2>7. LeastUsedGoes' BY <2>1, NothingGoes
  <2> QED BY <2>5, <2>6, <2>7 DEF CacheInv
<1> QED BY <1>3, <1>4

LEMMA ForgetStep ==
    ASSUME CacheInv, NEW p \in MarkedIds, Forget(p)
    PROVE  CacheInv'
<1>1. PICK T : segment' = Kept(segment, T) BY DEF Forget, Without
<1>2. /\ pinnedKeys' \subseteq MarkedIds /\ now' = now /\ used' = used
      /\ latest' = [op |-> "delete", gone |-> {}]
  BY DEF Forget, CacheInv, CacheTypeOK
<1>3. latest'.gone = {} /\ latest'.op \in {"miss", "delete"} BY <1>2
<1> QED BY <1>1, <1>2, <1>3, FewerStep

LEMMA ClearStep ==
    ASSUME CacheInv, Clear
    PROVE  CacheInv'
<1>1. /\ segment' = <<>> /\ pinnedKeys' = {} /\ now' = now /\ used' = used
      /\ latest' = [op |-> "clear", gone |-> {}]
  BY DEF Clear
<1>2. used \in Seq(MarkedIds) /\ now \in Nat BY DEF CacheInv, CacheTypeOK
<1>3. CacheTypeOK' BY <1>1, <1>2 DEF CacheTypeOK
<1>4. Distinct(segment)' /\ InOrder(segment, used)' BY <1>1 DEF Distinct, InOrder, Keys
<1>5. LeastUsedGoes' BY <1>1, NothingGoes
<1> QED BY <1>3, <1>4, <1>5 DEF CacheInv

LEMMA CacheStep == CacheInv /\ [CacheNext]_cacheVars => CacheInv'
<1> SUFFICES ASSUME CacheInv, [CacheNext]_cacheVars PROVE CacheInv' OBVIOUS
<1>1. ASSUME UNCHANGED <<segment, pinnedKeys, used, latest>>, now' \in Nat PROVE CacheInv'
  <2>1. CacheTypeOK' BY <1>1 DEF CacheInv, CacheTypeOK
  <2>2. Distinct(segment)' /\ InOrder(segment, used)'
    BY <1>1 DEF CacheInv, Distinct, InOrder, Keys, Entries, Before
  <2>3. LeastUsedGoes'
    BY <1>1 DEF CacheInv, LeastUsedGoes, OlderGoes, HoldsCapacity, Older, Keys
  <2> QED BY <2>1, <2>2, <2>3 DEF CacheInv
<1>2. CASE Tick BY <1>1, <1>2 DEF Tick, CacheInv, CacheTypeOK
<1>3. CASE Clear BY <1>3, ClearStep
<1>4. ASSUME NEW p \in MarkedIds, Add(p) PROVE CacheInv' BY <1>4, AddStep
<1>5. ASSUME NEW p \in MarkedIds, Find(p) PROVE CacheInv' BY <1>5, FindStep
<1>6. ASSUME NEW p \in MarkedIds, Forget(p) PROVE CacheInv' BY <1>6, ForgetStep
<1>7. ASSUME NEW p \in MarkedIds, PinOrUnpin(p) PROVE CacheInv'
  <2>1. /\ segment' = segment /\ used' = used /\ now' = now /\ pinnedKeys' \subseteq MarkedIds
        /\ latest' = [op |-> "pin", gone |-> {}]
    BY <1>7 DEF PinOrUnpin, Pin, Unpin, CacheInv, CacheTypeOK
  <2>2. CacheTypeOK' BY <2>1 DEF CacheInv, CacheTypeOK
  <2>3. Distinct(segment)' /\ InOrder(segment, used)'
    BY <2>1 DEF CacheInv, Distinct, InOrder, Keys, Entries, Before
  <2>4. LeastUsedGoes' BY <2>1, NothingGoes
  <2> QED BY <2>2, <2>3, <2>4 DEF CacheInv
<1>8. CASE UNCHANGED cacheVars BY <1>1, <1>8 DEF cacheVars, CacheInv, CacheTypeOK
<1> QED BY <1>2, <1>3, <1>4, <1>5, <1>6, <1>7, <1>8 DEF CacheNext

\* The cache evicts the peer that was used least of those that are not pinned, and only while it
\* holds more than its capacity, whatever was added, read, pinned, deleted and expired before
\* (entityCache.ts:114-225).
THEOREM EvictsByUse == CacheSpec => []LeastUsedGoes
<1>1. CacheInv => LeastUsedGoes BY DEF CacheInv
<1> QED BY <1>1, CacheBegins, CacheStep, PTL DEF CacheSpec

-----------------------------------------------------------------------------
(* The queue of the packer and its links *)

Once(q) == \A i, k \in DOMAIN q : q[i] = q[k] => i = k
Apart(p, q) == Entries(p) \cap Entries(q) = {}

Link == States \cup {0}
Pair == [q : Seq(States), a : [States -> Link]]

\* Of two ordered requests of q, one behind the other, the second is linked to the first.
Chains(q, a) ==
    \A i, j \in OrderedIn(q) :
       (i < j /\ ~\E k \in OrderedIn(q) : i < k /\ k < j) => a[q[j]] = q[i]

GoodPair(x) == x \in Pair /\ Once(x.q) /\ Chains(x.q, x.a)

\* y has what x has, and T.
Extends(x, y, T) == GoodPair(y) /\ Entries(y.q) = Entries(x.q) \cup T

\* A set of numbers with a bound has a greatest one.
LEMMA LatestOf ==
    ASSUME NEW n \in Nat, NEW I, I \subseteq 0 .. n, I # {}
    PROVE  Latest(I) \in I /\ \A k \in I : k <= Latest(I)
<1> DEFINE T == {m \in Nat : \A k \in I : k <= m}
<1>1. n \in T OBVIOUS
<1>2. PICK m \in T : \A k \in T : m <= k
  <2>1. T \in SUBSET Nat /\ T # {} BY <1>1
  <2> HIDE DEF T
  <2> QED BY <2>1, LeastNumber
<1>3. m \in I
  <2>1. SUFFICES ASSUME m \notin I PROVE FALSE OBVIOUS
  <2>2. \A k \in I : k \in Nat /\ k < m BY <1>2, <2>1
  <2>3. m > 0
    <3>1. PICK k \in I : k \in Nat /\ k < m BY <2>2
    <3> QED BY <3>1
  <2>4. m - 1 \in T BY <1>2, <2>2, <2>3
  <2>5. m <= m - 1
    <3> HIDE DEF T
    <3> QED BY <1>2, <2>4
  <2> QED BY <1>2, <2>5
<1>4. \E i \in I : \A k \in I : k <= i BY <1>2, <1>3
<1> QED BY <1>4 DEF Latest

LEMMA EarliestOf ==
    ASSUME NEW I \in SUBSET Nat, I # {}
    PROVE  Earliest(I) \in I /\ \A k \in I : Earliest(I) <= k
BY LeastNumber DEF Earliest

LEMMA OrderedPlaces ==
    ASSUME NEW q \in Seq(States)
    PROVE  /\ Len(q) \in Nat /\ DOMAIN q = 1 .. Len(q)
           /\ OrderedIn(q) \subseteq 0 .. Len(q) /\ OrderedIn(q) \in SUBSET Nat
           /\ \A i \in OrderedIn(q) : i \in 1 .. Len(q) /\ q[i] \in States /\ q[i] \in Ordered
BY DEF OrderedIn

\* append() keeps the chain.
LEMMA AtEndKeeps ==
    ASSUME NEW x, GoodPair(x), NEW s \in States \ Entries(x.q)
    PROVE  Extends(x, AtEnd(x, s), {s})
<1>1. PICK q, a : q = x.q /\ a = x.a OBVIOUS
<1>2. /\ q \in Seq(States) /\ a \in [States -> Link] /\ Once(q) /\ Chains(q, a)
      /\ s \in States /\ s \notin Entries(q)
  BY <1>1 DEF GoodPair, Pair
<1>3. PICK p, b : p = Append(q, s) /\ b = Linked(a, q, s) OBVIOUS
<1>4. AtEnd(x, s) = [q |-> p, a |-> b] BY <1>1, <1>3 DEF AtEnd
<1>5. /\ p \in Seq(States) /\ Len(p) = Len(q) + 1 /\ Len(q) \in Nat
      /\ \A i \in 1 .. Len(q) : p[i] = q[i] /\ p[i] # s
      /\ p[Len(p)] = s
  BY <1>2, <1>3, AppendProperties DEF Entries
<1>6. DOMAIN q = 1 .. Len(q) /\ DOMAIN p = 1 .. Len(p) BY <1>2, <1>5
<1>7. \A i \in DOMAIN p : i \in DOMAIN q \/ i = Len(p) BY <1>5, <1>6
<1>8. \A i \in DOMAIN q : i \in DOMAIN p /\ i < Len(p) /\ p[i] = q[i] /\ p[i] # s BY <1>5, <1>6
<1>9. Once(p) BY <1>5, <1>7, <1>8, <1>2 DEF Once
<1>10. Entries(p) = Entries(q) \cup {s} BY <1>5, <1>6, <1>7, <1>8 DEF Entries
<1>11. OrderedIn(q) # {} =>
          /\ Latest(OrderedIn(q)) \in OrderedIn(q)
          /\ \A k \in OrderedIn(q) : k <= Latest(OrderedIn(q))
  BY <1>2, OrderedPlaces, LatestOf
<1>12. b \in [States -> Link]
  BY <1>2, <1>3, <1>11, OrderedPlaces DEF Linked, Link
<1>13. \A t \in States \ {s} : b[t] = a[t] BY <1>2, <1>3 DEF Linked
<1>14. ASSUME NEW i \in OrderedIn(p), NEW j \in OrderedIn(p), i < j,
              ~\E k \in OrderedIn(p) : i < k /\ k < j
       PROVE  b[p[j]] = p[i]
  <2>1. i \in DOMAIN p /\ j \in DOMAIN p /\ p[i] \in Ordered /\ p[j] \in Ordered
    BY <1>14 DEF OrderedIn
  <2>2. i \in DOMAIN q
    <3>1. i # Len(p) BY <1>6, <1>14, <2>1, <1>5
    <3> QED BY <3>1, <2>1, <1>7
  <2>3. i \in OrderedIn(q) /\ p[i] = q[i] BY <2>1, <2>2, <1>8 DEF OrderedIn
  <2>4. \A k \in OrderedIn(q) : k \in OrderedIn(p) BY <1>8 DEF OrderedIn
  <2>5. CASE j = Len(p)
    <3>1. p[j] = s /\ s \in Ordered BY <1>5, <2>1, <2>5
    <3>2. PICK l : l = Latest(OrderedIn(q)) OBVIOUS
    <3>3. l \in OrderedIn(q) /\ i <= l BY <1>11, <2>3, <3>2
    <3>4. l \in DOMAIN q /\ l < j BY <1>8, <2>5, <3>3 DEF OrderedIn
    <3>5. ~(i < l) BY <1>14, <2>4, <3>3, <3>4
    <3>6. i = l BY <1>6, <2>2, <3>3, <3>4, <3>5
    <3>7. b = [a EXCEPT ![s] = q[l]] BY <1>3, <2>3, <3>1, <3>2 DEF Linked
    <3>8. b[s] = q[l] BY <1>2, <3>7
    <3> QED BY <2>3, <3>1, <3>6, <3>8
  <2>6. CASE j \in DOMAIN q
    <3>1. j \in OrderedIn(q) /\ p[j] = q[j] /\ p[j] # s BY <1>8, <2>1, <2>6 DEF OrderedIn
    <3>2. a[q[j]] = q[i] BY <1>2, <1>14, <2>3, <2>4, <3>1 DEF Chains
    <3>3. p[j] \in States BY <1>5, <1>6, <2>1
    <3> QED BY <1>13, <2>3, <3>1, <3>2, <3>3
  <2> QED BY <1>7, <2>1, <2>5, <2>6
<1>15. Chains(p, b) BY <1>14 DEF Chains
<1> QED BY <1>1, <1>4, <1>5, <1>9, <1>10, <1>12, <1>15 DEF Extends, GoodPair, Pair

\* append() at the start keeps the chain.
LEMMA AtStartKeeps ==
    ASSUME NEW x, GoodPair(x), NEW s \in States \ Entries(x.q)
    PROVE  Extends(x, AtStart(x, s), {s})
<1>1. PICK q, a : q = x.q /\ a = x.a OBVIOUS
<1>2. /\ q \in Seq(States) /\ a \in [States -> Link] /\ Once(q) /\ Chains(q, a)
      /\ s \in States /\ s \notin Entries(q)
  BY <1>1 DEF GoodPair, Pair
<1>3. PICK p, b : p = <<s>> \o q /\ b = LinkedAtStart(a, q, s) OBVIOUS
<1>4. AtStart(x, s) = [q |-> p, a |-> b] BY <1>1, <1>3 DEF AtStart
<1>5. /\ p \in Seq(States) /\ Len(p) = Len(q) + 1 /\ Len(q) \in Nat
      /\ p[1] = s
      /\ \A i \in 1 .. Len(q) : p[i + 1] = q[i] /\ q[i] # s
  <2>1. <<s>> \in Seq(States) /\ Len(<<s>>) = 1 /\ <<s>>[1] = s BY <1>2
  <2>2. PICK t : t = <<s>> OBVIOUS
  <2>3. p \in Seq(States) /\ Len(p) = 1 + Len(q)
    BY <1>2, <1>3, <2>1, <2>2, ConcatProperties
  <2>4. Len(q) \in Nat BY <1>2
  <2>5. p[1] = s BY <1>2, <1>3, <2>1, <2>2, <2>4
  <2>6. ASSUME NEW i \in 1 .. Len(q) PROVE p[i + 1] = q[i] /\ q[i] # s
    <3>1. p[i + 1] = q[i] BY <1>2, <1>3, <2>1, <2>2, <2>4
    <3>2. q[i] \in Entries(q) BY <1>2 DEF Entries
    <3> QED BY <1>2, <3>1, <3>2
  <2> QED BY <2>3, <2>4, <2>5, <2>6
<1>6. DOMAIN q = 1 .. Len(q) /\ DOMAIN p = 1 .. Len(p) BY <1>2, <1>5
<1>7. ASSUME NEW i \in DOMAIN p, i # 1
      PROVE  i - 1 \in DOMAIN q /\ p[i] = q[i - 1] /\ p[i] # s
  <2>1. i - 1 \in 1 .. Len(q) BY <1>5, <1>6, <1>7
  <2>2. p[(i - 1) + 1] = q[i - 1] /\ q[i - 1] # s BY <1>5, <2>1
  <2>3. (i - 1) + 1 = i BY <1>6, <1>7
  <2> QED BY <1>6, <2>1, <2>2, <2>3
<1>8. ASSUME NEW i \in DOMAIN q PROVE i + 1 \in DOMAIN p /\ p[i + 1] = q[i] BY <1>5, <1>6
<1>9. Once(p)
  <2>1. ASSUME NEW i \in DOMAIN p, NEW k \in DOMAIN p, p[i] = p[k] PROVE i = k
    <3>1. i = 1 <=> k = 1 BY <1>5, <1>7, <2>1
    <3>2. CASE i # 1 /\ k # 1
      <4>1. i - 1 = k - 1 BY <1>2, <1>7, <2>1, <3>2 DEF Once
      <4> QED BY <1>6, <4>1
    <3> QED BY <3>1, <3>2
  <2> QED BY <2>1 DEF Once
<1>10. Entries(p) = Entries(q) \cup {s}
  <2>1. ASSUME NEW i \in DOMAIN p PROVE p[i] \in Entries(q) \cup {s}
    BY <1>5, <1>7 DEF Entries
  <2>2. ASSUME NEW i \in DOMAIN q PROVE q[i] \in Entries(p) BY <1>8 DEF Entries
  <2>3. s \in Entries(p)
    <3>1. 1 \in DOMAIN p /\ p[1] = s BY <1>5, <1>6
    <3> QED BY <3>1 DEF Entries
  <2>4. Entries(p) \subseteq Entries(q) \cup {s} BY <2>1 DEF Entries
  <2>5. Entries(q) \subseteq Entries(p) BY <2>2 DEF Entries
  <2> QED BY <2>3, <2>4, <2>5
<1>11. OrderedIn(q) # {} =>
          /\ Earliest(OrderedIn(q)) \in OrderedIn(q)
          /\ \A k \in OrderedIn(q) : Earliest(OrderedIn(q)) <= k
  BY <1>2, OrderedPlaces, EarliestOf
<1>12. b \in [States -> Link]
  BY <1>2, <1>3, <1>11, OrderedPlaces DEF LinkedAtStart, Link
<1>14. ASSUME NEW i \in OrderedIn(p), NEW j \in OrderedIn(p), i < j,
              ~\E k \in OrderedIn(p) : i < k /\ k < j
       PROVE  b[p[j]] = p[i]
  <2>1. i \in DOMAIN p /\ j \in DOMAIN p /\ p[i] \in Ordered /\ p[j] \in Ordered
    BY <1>14 DEF OrderedIn
  <2>2. j # 1 /\ j \in Int /\ i \in Int BY <1>5, <1>6, <1>14, <2>1
  <2>3. j - 1 \in OrderedIn(q) /\ p[j] = q[j - 1]
    BY <1>7, <2>1, <2>2 DEF OrderedIn
  <2>4. \A k \in OrderedIn(q) : k + 1 \in OrderedIn(p) /\ k \in Int
    BY <1>6, <1>8 DEF OrderedIn
  <2>5. PICK l : l = Earliest(OrderedIn(q)) OBVIOUS
  <2>6. l \in OrderedIn(q) /\ l \in Int /\ l <= j - 1 BY <1>11, <2>3, <2>4, <2>5
  <2>7. CASE i = 1
    <3>1. s \in Ordered /\ p[i] = s BY <1>5, <2>1, <2>7
    <3>2. ~(1 < l + 1 /\ l + 1 < j) BY <1>14, <2>4, <2>6, <2>7
    <3>3. l >= 1 BY <1>6, <2>6 DEF OrderedIn
    <3>4. l = j - 1 BY <2>2, <2>6, <3>2, <3>3
    <3>5. b = [a EXCEPT ![q[l]] = s] BY <1>3, <2>5, <2>6, <3>1 DEF LinkedAtStart
    <3>6. q[l] \in States BY <1>2, <2>6, OrderedPlaces
    <3>7. b[q[l]] = s BY <1>2, <3>5, <3>6
    <3> QED BY <2>3, <3>1, <3>4, <3>7
  <2>8. CASE i # 1
    <3>1. i - 1 \in OrderedIn(q) /\ p[i] = q[i - 1] BY <1>7, <2>1, <2>8 DEF OrderedIn
    <3>2. ASSUME NEW k \in OrderedIn(q), i - 1 < k, k < j - 1 PROVE FALSE
      <4>1. k + 1 \in OrderedIn(p) /\ k \in Int BY <2>4
      <4>2. i < k + 1 /\ k + 1 < j BY <2>2, <3>2, <4>1
      <4> QED BY <1>14, <4>1, <4>2
    <3>3. i - 1 < j - 1 BY <1>14, <2>2
    <3>4. a[q[j - 1]] = q[i - 1] BY <1>2, <2>3, <3>1, <3>2, <3>3 DEF Chains
    <3>5. l <= i - 1 BY <1>11, <2>5, <3>1
    <3>6. l # j - 1 BY <2>2, <2>6, <3>3, <3>5
    <3>7. q[l] # q[j - 1] BY <1>2, <2>3, <2>6, <3>6 DEF Once, OrderedIn
    <3>8. q[l] \in States /\ q[j - 1] \in States BY <1>2, <2>3, <2>6, OrderedPlaces
    <3>9. b[q[j - 1]] = a[q[j - 1]] BY <1>2, <1>3, <2>5, <3>7, <3>8 DEF LinkedAtStart
    <3> QED BY <2>3, <3>1, <3>4, <3>9
  <2> QED BY <2>7, <2>8
<1>15. Chains(p, b) BY <1>14 DEF Chains
<1> QED BY <1>1, <1>4, <1>5, <1>9, <1>10, <1>12, <1>15 DEF Extends, GoodPair, Pair

\* What holds of the start of a loop of N turns and is kept by each turn holds of its end.
LEMMA LoopKeeps ==
    ASSUME NEW N \in Nat, NEW f, NEW G, <<0, f[0]>> \in G,
           \A n \in 1 .. N : <<n - 1, f[n - 1]>> \in G => <<n, f[n]>> \in G
    PROVE  \A n \in 0 .. N : <<n, f[n]>> \in G
<1> DEFINE P == {n \in Nat : n <= N => <<n, f[n]>> \in G}
<1>1. ASSUME NEW n \in Nat, \A m \in Nat : m < n => m \in P PROVE n \in P
  <2>1. SUFFICES ASSUME n <= N PROVE <<n, f[n]>> \in G OBVIOUS
  <2>2. CASE n = 0 BY <2>2
  <2>3. CASE n > 0
    <3>1. n - 1 \in Nat /\ n - 1 < n /\ n - 1 <= N /\ n \in 1 .. N BY <2>1, <2>3
    <3>2. <<n - 1, f[n - 1]>> \in G BY <1>1, <3>1
    <3> QED BY <3>1, <3>2
  <2> QED BY <2>2, <2>3
<1>2. P = Nat
  <2>1. P \in SUBSET Nat OBVIOUS
  <2> HIDE DEF P
  <2> QED BY <1>1, <2>1, Complete
<1>3. ASSUME NEW n \in 0 .. N PROVE <<n, f[n]>> \in G
  <2>1. n \in P
    <3> HIDE DEF P
    <3> QED BY <1>2
  <2> QED BY <2>1
<1> QED BY <1>3

\* The k-th turn of a loop from x, where F is a turn and f what there is after fewer.
TurnOf(x, F, f, k) == IF k = 0 THEN x ELSE F[<<k, f[k - 1]>>]

IsLoop(x, F, N, f) == f = [k \in 0 .. N |-> TurnOf(x, F, f, k)]
Stays(f, N, G) == \A k \in 0 .. N : <<k, f[k]>> \in G

\* A loop whose turns stay within G has a result.
LEMMA LoopExists ==
    ASSUME NEW N \in Nat, NEW x, NEW F, NEW G, <<0, x>> \in G,
           \A n \in 1 .. N : \A y : <<n - 1, y>> \in G => <<n, F[<<n, y>>]>> \in G
    PROVE  \E f : IsLoop(x, F, N, f) /\ Stays(f, N, G)
<1> DEFINE Fits(f, n) == /\ f = [k \in 0 .. n |-> TurnOf(x, F, f, k)]
                         /\ \A k \in 0 .. n : <<k, f[k]>> \in G
           P == {n \in Nat : n <= N => \E f : Fits(f, n)}
<1>1. ASSUME NEW n \in Nat, \A m \in Nat : m < n => m \in P PROVE n \in P
  <2>1. SUFFICES ASSUME n <= N PROVE \E f : Fits(f, n) OBVIOUS
  <2>2. CASE n = 0
    <3>1. PICK f : f = [k \in 0 .. 0 |-> x] OBVIOUS
    <3>2. f = [k \in 0 .. n |-> TurnOf(x, F, f, k)] BY <2>2, <3>1 DEF TurnOf
    <3>3. \A k \in 0 .. n : <<k, f[k]>> \in G BY <2>2, <3>1
    <3> QED BY <3>2, <3>3
  <2>3. CASE n > 0
    <3>1. n - 1 \in Nat /\ n - 1 < n /\ n - 1 <= N /\ n \in 1 .. N BY <2>1, <2>3
    <3>2. PICK f : Fits(f, n - 1) BY <1>1, <3>1
    <3> DEFINE g == [k \in 0 .. n |-> IF k = n THEN TurnOf(x, F, f, n) ELSE f[k]]
    <3>3. ASSUME NEW k \in 0 .. n PROVE g[k] = TurnOf(x, F, g, k)
      <4>1. CASE k = 0 BY <2>3, <3>2, <4>1 DEF TurnOf
      <4>2. CASE k > 0
        <5>1. k - 1 \in 0 .. n /\ k - 1 # n BY <4>2
        <5>2. g[k - 1] = f[k - 1] BY <5>1
        <5>3. TurnOf(x, F, g, k) = TurnOf(x, F, f, k)
          <6> HIDE DEF g
          <6> QED BY <5>2, <4>2 DEF TurnOf
        <5>4. g[k] = TurnOf(x, F, f, k)
          <6>1. CASE k = n BY <6>1
          <6>2. CASE k # n
            <7>1. k \in 0 .. n - 1 BY <6>2
            <7>2. g[k] = f[k] BY <6>2
            <7>3. f[k] = TurnOf(x, F, f, k)
              <8> HIDE DEF g
              <8> QED BY <3>2, <7>1
            <7> QED BY <7>2, <7>3
          <6> QED BY <6>1, <6>2
        <5> QED BY <5>3, <5>4
      <4> QED BY <4>1, <4>2
    <3>4. g = [k \in 0 .. n |-> TurnOf(x, F, g, k)]
      <4>1. g = [k \in 0 .. n |-> g[k]] OBVIOUS
      <4> HIDE DEF g
      <4> QED BY <3>3, <4>1
    <3>5. ASSUME NEW k \in 0 .. n PROVE <<k, g[k]>> \in G
      <4>1. CASE k = n
        <5>1. <<n - 1, f[n - 1]>> \in G BY <3>1, <3>2
        <5>2. <<n, F[<<n, f[n - 1]>>]>> \in G BY <3>1, <5>1
        <5>3. g[k] = F[<<n, f[n - 1]>>] BY <2>3, <4>1 DEF TurnOf
        <5> HIDE DEF g
        <5> QED BY <4>1, <5>2, <5>3
      <4>2. CASE k # n
        <5>1. k \in 0 .. n - 1 /\ g[k] = f[k] BY <4>2
        <5> HIDE DEF g
        <5> QED BY <3>2, <5>1
      <4> QED BY <4>1, <4>2
    <3>6. Fits(g, n) BY <3>4, <3>5
    <3> HIDE DEF g, Fits
    <3> QED BY <3>6
  <2> QED BY <2>2, <2>3
<1>2. P = Nat
  <2>1. P \in SUBSET Nat OBVIOUS
  <2> HIDE DEF P
  <2> QED BY <1>1, <2>1, Complete
<1>3. N \in P
  <2> HIDE DEF P
  <2> QED BY <1>2
<1>4. PICK f : Fits(f, N) BY <1>3
<1>5. IsLoop(x, F, N, f) /\ Stays(f, N, G) BY <1>4 DEF IsLoop, Stays
<1> QED BY <1>5

\* What is reached from x when the states of r are added in turn.
Front(r, n) == {r[i] : i \in 1 .. n}
Reached(x, r) == {p \in (0 .. Len(r)) \X Pair : Extends(x, p[2], Front(r, p[1]))}

LEMMA ReachedNext ==
    ASSUME NEW x, GoodPair(x), NEW r \in Seq(States), Once(r), Apart(r, x.q),
           NEW n \in 1 .. Len(r), NEW y, <<n - 1, y>> \in Reached(x, r), NEW z,
           r[n] \in States \ Entries(y.q) /\ GoodPair(y) => Extends(y, z, {r[n]})
    PROVE  <<n, z>> \in Reached(x, r)
<1>1. Len(r) \in Nat /\ DOMAIN r = 1 .. Len(r) /\ r[n] \in States BY DEF Entries
<1>2. y \in Pair /\ Extends(x, y, Front(r, n - 1)) BY DEF Reached
<1>3. Front(r, n) = Front(r, n - 1) \cup {r[n]}
  <2>1. \A i \in 1 .. n : i \in 1 .. n - 1 \/ i = n OBVIOUS
  <2>2. n \in 1 .. n /\ \A i \in 1 .. n - 1 : i \in 1 .. n OBVIOUS
  <2> QED BY <2>1, <2>2 DEF Front
<1>4. r[n] \notin Front(r, n - 1)
  <2>1. \A i \in 1 .. n - 1 : i \in DOMAIN r /\ i # n BY <1>1
  <2>2. n \in DOMAIN r BY <1>1
  <2> QED BY <2>1, <2>2 DEF Front, Once
<1>5. r[n] \notin Entries(x.q)
  <2>1. r[n] \in Entries(r) BY <1>1 DEF Entries
  <2> QED BY <2>1 DEF Apart
<1>6. r[n] \notin Entries(y.q) BY <1>2, <1>4, <1>5 DEF Extends
<1>7. Extends(y, z, {r[n]}) BY <1>1, <1>2, <1>6 DEF Extends
<1>8. Extends(x, z, Front(r, n)) BY <1>2, <1>3, <1>7 DEF Extends
<1>9. z \in Pair BY <1>7 DEF Extends, GoodPair
<1>10. <<n, z>> \in (0 .. Len(r)) \X Pair BY <1>1, <1>9
<1>11. <<n, z>>[1] = n /\ <<n, z>>[2] = z OBVIOUS
<1> QED BY <1>8, <1>10, <1>11 DEF Reached

LEMMA ReachedFirst ==
    ASSUME NEW x, GoodPair(x), NEW r \in Seq(States)
    PROVE  <<0, x>> \in Reached(x, r)
<1>1. Front(r, 0) = {} BY DEF Front
<1>2. Extends(x, x, Front(r, 0)) BY <1>1 DEF Extends
<1>3. <<0, x>> \in (0 .. Len(r)) \X Pair BY DEF GoodPair
<1>4. <<0, x>>[1] = 0 /\ <<0, x>>[2] = x OBVIOUS
<1> QED BY <1>2, <1>3, <1>4 DEF Reached

LEMMA ReachedLast ==
    ASSUME NEW x, NEW r \in Seq(States), NEW y, <<Len(r), y>> \in Reached(x, r)
    PROVE  Extends(x, y, Entries(r))
<1>1. Extends(x, y, Front(r, Len(r))) BY DEF Reached
<1>2. Front(r, Len(r)) = Entries(r) BY DEF Front, Entries
<1> QED BY <1>1, <1>2

\* extend() keeps the chain of a queue that has none of the states yet.
LEMMA ExtendedKeeps ==
    ASSUME NEW x, GoodPair(x), NEW r \in Seq(States), Once(r), Apart(r, x.q)
    PROVE  Extends(x, ExtendedBy(x, r), Entries(r))
<1> DEFINE N == Len(r)
           F == [p \in (1 .. N) \X Pair |-> AtEnd(p[2], r[p[1]])]
           G == Reached(x, r)
           Defines(f) == f = [n \in 0 .. N |-> IF n = 0 THEN x ELSE AtEnd(f[n - 1], r[n])]
           ext == CHOOSE f : Defines(f)
<1>1. N \in Nat /\ <<0, x>> \in G BY ReachedFirst
<1>2. ASSUME NEW n \in 1 .. N, NEW y, <<n - 1, y>> \in G
      PROVE  /\ <<n, AtEnd(y, r[n])>> \in G
             /\ F[<<n, y>>] = AtEnd(y, r[n])
  <2>1. r[n] \in States \ Entries(y.q) /\ GoodPair(y) => Extends(y, AtEnd(y, r[n]), {r[n]})
    BY AtEndKeeps
  <2>2. <<n, AtEnd(y, r[n])>> \in G BY <1>2, <2>1, ReachedNext
  <2>3. <<n, y>> \in (1 .. N) \X Pair BY <1>2 DEF Reached
  <2> QED BY <2>2, <2>3
<1>3. \E f : Defines(f)
  <2>1. \A n \in 1 .. N : \A y : <<n - 1, y>> \in G => <<n, F[<<n, y>>]>> \in G
    <3> HIDE DEF F, G
    <3> QED BY <1>2
  <2>0. PICK f : IsLoop(x, F, N, f) /\ Stays(f, N, G)
    <3> HIDE DEF F, G, N
    <3> QED BY <1>1, <2>1, LoopExists
  <2>2. /\ f = [k \in 0 .. N |-> TurnOf(x, F, f, k)]
        /\ \A k \in 0 .. N : <<k, f[k]>> \in G
    <3> HIDE DEF F, G, N
    <3> QED BY <2>0 DEF IsLoop, Stays
  <2>3. ASSUME NEW k \in 0 .. N
        PROVE  TurnOf(x, F, f, k) = IF k = 0 THEN x ELSE AtEnd(f[k - 1], r[k])
    <3>1. CASE k = 0 BY <3>1 DEF TurnOf
    <3>2. CASE k # 0
      <4>1. k \in 1 .. N /\ k - 1 \in 0 .. N BY <1>1, <3>2
      <4>2. F[<<k, f[k - 1]>>] = AtEnd(f[k - 1], r[k])
        <5> HIDE DEF F, G
        <5> QED BY <1>2, <2>2, <4>1
      <4> HIDE DEF F
      <4> QED BY <3>2, <4>2 DEF TurnOf
    <3> QED BY <3>1, <3>2
  <2>4. Defines(f)
    <3> HIDE DEF F, G, N
    <3> QED BY <2>2, <2>3
  <2> QED BY <2>4
<1>4. Defines(ext)
  <2> HIDE DEF Defines
  <2> QED BY <1>3
<1>5. ExtendedBy(x, r) = ext[N] BY DEF ExtendedBy
<1>6. ext[0] = x /\ \A n \in 1 .. N : ext[n] = AtEnd(ext[n - 1], r[n])
  <2>1. \A n \in 0 .. N : ext[n] = IF n = 0 THEN x ELSE AtEnd(ext[n - 1], r[n])
    <3> HIDE DEF ext, N
    <3> QED BY <1>4
  <2> HIDE DEF ext, N, Defines
  <2>2. 0 \in 0 .. N /\ \A n \in 1 .. N : n \in 0 .. N /\ n # 0 BY <1>1
  <2> QED BY <2>1, <2>2
<1> HIDE DEF ext, Defines, F
<1>7. <<0, ext[0]>> \in G /\ \A n \in 1 .. N : <<n - 1, ext[n - 1]>> \in G => <<n, ext[n]>> \in G
  <2> HIDE DEF G
  <2> QED BY <1>1, <1>2, <1>6
<1>8. <<N, ext[N]>> \in G
  <2> HIDE DEF G, N
  <2>1. N \in 0 .. N BY <1>1
  <2> QED BY <1>1, <1>7, <2>1, LoopKeeps
<1>9. Extends(x, ext[N], Entries(r)) BY <1>8, ReachedLast
<1> QED BY <1>5, <1>9

\* prepend() too.
LEMMA PrependedKeeps ==
    ASSUME NEW x, GoodPair(x), NEW r \in Seq(States), Once(r), Apart(r, x.q)
    PROVE  Extends(x, PrependedBy(x, r), Entries(r))
<1> DEFINE N == Len(r)
           t == [n \in 1 .. N |-> r[N + 1 - n]]
           F == [p \in (1 .. N) \X Pair |-> AtStart(p[2], t[p[1]])]
           G == Reached(x, t)
           Defines(f) ==
               f = [n \in 0 .. N |-> IF n = 0 THEN x ELSE AtStart(f[n - 1], r[N + 1 - n])]
           ext == CHOOSE f : Defines(f)
<1>0. /\ t \in Seq(States) /\ Len(t) = N /\ Once(t) /\ Entries(t) = Entries(r)
      /\ Apart(t, x.q) /\ N \in Nat
      /\ \A n \in 1 .. N : t[n] = r[N + 1 - n]
  <2>1. N \in Nat /\ DOMAIN r = 1 .. N /\ \A n \in 1 .. N : r[n] \in States OBVIOUS
  <2>2. \A n \in 1 .. N : N + 1 - n \in 1 .. N /\ N + 1 - (N + 1 - n) = n BY <2>1
  <2>3. \A n \in 1 .. N : t[n] = r[N + 1 - n] /\ t[n] \in States BY <2>1, <2>2
  <2>4. t \in [1 .. N -> States] BY <2>1, <2>2
  <2>5. t \in Seq(States) /\ Len(t) = N /\ DOMAIN t = 1 .. N
    <3> HIDE DEF t, N
    <3> QED BY <2>1, <2>4
  <2> HIDE DEF t, N
  <2>6. ASSUME NEW m \in 1 .. N, NEW n \in 1 .. N, t[m] = t[n] PROVE m = n
    <3>1. N + 1 - m = N + 1 - n BY <2>1, <2>2, <2>3, <2>6 DEF Once
    <3> QED BY <2>1, <3>1
  <2>7. Entries(t) \subseteq Entries(r) BY <2>1, <2>2, <2>3, <2>5 DEF Entries
  <2>8. ASSUME NEW n \in 1 .. N PROVE r[n] \in Entries(t)
    <3>1. N + 1 - n \in 1 .. N /\ t[N + 1 - n] = r[n] BY <2>2, <2>3
    <3> QED BY <2>5, <3>1 DEF Entries
  <2>9. Entries(t) = Entries(r) BY <2>1, <2>7, <2>8 DEF Entries
  <2> QED BY <2>1, <2>3, <2>5, <2>6, <2>9 DEF Once, Apart
<1> HIDE DEF t
<1>1. N \in Nat /\ <<0, x>> \in G BY <1>0, ReachedFirst
<1>2. ASSUME NEW n \in 1 .. N, NEW y, <<n - 1, y>> \in G
      PROVE  /\ <<n, AtStart(y, r[N + 1 - n])>> \in G
             /\ F[<<n, y>>] = AtStart(y, r[N + 1 - n])
  <2>1. t[n] \in States \ Entries(y.q) /\ GoodPair(y) => Extends(y, AtStart(y, t[n]), {t[n]})
    BY AtStartKeeps
  <2>2. <<n, AtStart(y, t[n])>> \in G
    <3> HIDE DEF N
    <3> QED BY <1>0, <1>2, <2>1, ReachedNext
  <2>3. <<n, y>> \in (1 .. N) \X Pair BY <1>2 DEF Reached
  <2>4. F[<<n, y>>] = AtStart(y, t[n]) BY <2>3
  <2> HIDE DEF F, G, N
  <2> QED BY <1>0, <2>2, <2>4
<1>3. \E f : Defines(f)
  <2>1. \A n \in 1 .. N : \A y : <<n - 1, y>> \in G => <<n, F[<<n, y>>]>> \in G
    <3> HIDE DEF F, G
    <3> QED BY <1>2
  <2>0. PICK f : IsLoop(x, F, N, f) /\ Stays(f, N, G)
    <3> HIDE DEF F, G, N
    <3> QED BY <1>1, <2>1, LoopExists
  <2>2. /\ f = [k \in 0 .. N |-> TurnOf(x, F, f, k)]
        /\ \A k \in 0 .. N : <<k, f[k]>> \in G
    <3> HIDE DEF F, G, N
    <3> QED BY <2>0 DEF IsLoop, Stays
  <2>3. ASSUME NEW k \in 0 .. N
        PROVE  TurnOf(x, F, f, k) = IF k = 0 THEN x ELSE AtStart(f[k - 1], r[N + 1 - k])
    <3>1. CASE k = 0 BY <3>1 DEF TurnOf
    <3>2. CASE k # 0
      <4>1. k \in 1 .. N /\ k - 1 \in 0 .. N BY <1>1, <3>2
      <4>2. F[<<k, f[k - 1]>>] = AtStart(f[k - 1], r[N + 1 - k])
        <5> HIDE DEF F, G
        <5> QED BY <1>2, <2>2, <4>1
      <4> HIDE DEF F
      <4> QED BY <3>2, <4>2 DEF TurnOf
    <3> QED BY <3>1, <3>2
  <2>4. Defines(f)
    <3> HIDE DEF F, G, N
    <3> QED BY <2>2, <2>3
  <2> QED BY <2>4
<1>4. Defines(ext)
  <2> HIDE DEF Defines
  <2> QED BY <1>3
<1>5. PrependedBy(x, r) = ext[N] BY DEF PrependedBy
<1>6. ext[0] = x /\ \A n \in 1 .. N : ext[n] = AtStart(ext[n - 1], r[N + 1 - n])
  <2>1. \A n \in 0 .. N : ext[n] = IF n = 0 THEN x ELSE AtStart(ext[n - 1], r[N + 1 - n])
    <3> HIDE DEF ext, N
    <3> QED BY <1>4
  <2> HIDE DEF ext, N, Defines
  <2>2. 0 \in 0 .. N /\ \A n \in 1 .. N : n \in 0 .. N /\ n # 0 BY <1>1
  <2> QED BY <2>1, <2>2
<1> HIDE DEF ext, Defines, F
<1>7. <<0, ext[0]>> \in G /\ \A n \in 1 .. N : <<n - 1, ext[n - 1]>> \in G => <<n, ext[n]>> \in G
  <2> HIDE DEF G
  <2> QED BY <1>1, <1>2, <1>6
<1>8. <<N, ext[N]>> \in G
  <2> HIDE DEF G, N
  <2>1. N \in 0 .. N BY <1>1
  <2> QED BY <1>1, <1>7, <2>1, LoopKeeps
<1>9. Extends(x, ext[N], Entries(r))
  <2> HIDE DEF N
  <2> QED BY <1>0, <1>8, ReachedLast
<1> QED BY <1>5, <1>9

LEMMA Piece ==
    ASSUME NEW p \in Seq(States), NEW m \in Nat, NEW n \in Nat, 1 <= m, m <= n + 1, n <= Len(p),
           NEW t, t = SubSeq(p, m, n)
    PROVE  /\ t \in Seq(States) /\ Len(t) = n - m + 1 /\ DOMAIN t = 1 .. n - m + 1
           /\ \A i \in 1 .. n - m + 1 : t[i] = p[m + i - 1]
<1>1. \A i \in m .. n : p[i] \in States
  <2>1. Len(p) \in Nat /\ \A i \in 1 .. Len(p) : p[i] \in States OBVIOUS
  <2>2. \A i \in m .. n : i \in 1 .. Len(p) BY <2>1
  <2> QED BY <2>1, <2>2
<1>2. m \in Int /\ n \in Int OBVIOUS
<1>3. /\ t \in Seq(States) /\ Len(t) = IF m <= n THEN n - m + 1 ELSE 0
      /\ \A i \in 1 .. n - m + 1 : t[i] = p[m + i - 1]
  BY <1>1, <1>2, SubSeqProperties
<1>4. Len(t) = n - m + 1 BY <1>2, <1>3
<1>5. DOMAIN t = 1 .. n - m + 1 BY <1>3, <1>4
<1> QED BY <1>3, <1>4, <1>5

\* What is cut out of p, and what is left of it.
LEMMA CutOut ==
    ASSUME NEW p \in Seq(States), Once(p), NEW lo \in 1 .. Len(p), NEW hi \in lo .. Len(p),
           NEW mid, mid = SubSeq(p, lo, hi),
           NEW rest, rest = SubSeq(p, 1, lo - 1) \o SubSeq(p, hi + 1, Len(p))
    PROVE  /\ mid \in Seq(States) /\ Once(mid) /\ Entries(mid) \subseteq Entries(p)
           /\ rest \in Seq(States) /\ Once(rest) /\ Entries(rest) \subseteq Entries(p)
           /\ Apart(mid, rest)
<1>1. PICK N \in Nat : N = Len(p) /\ DOMAIN p = 1 .. N /\ \A i \in 1 .. N : p[i] \in States
  OBVIOUS
<1>2. lo \in Nat /\ hi \in Nat /\ 1 <= lo /\ lo <= hi /\ hi <= N BY <1>1
<1>3. PICK a : a = SubSeq(p, 1, lo - 1) OBVIOUS
<1>4. PICK c : c = SubSeq(p, hi + 1, N) OBVIOUS
<1>5. /\ a \in Seq(States) /\ Len(a) = lo - 1 /\ \A i \in 1 .. lo - 1 : a[i] = p[i]
  <2>1. lo - 1 \in Nat /\ 1 <= lo - 1 + 1 /\ lo - 1 <= N BY <1>2
  <2>2. PICK k \in Nat : k = lo - 1 BY <2>1
  <2>3. /\ a \in Seq(States) /\ Len(a) = k - 1 + 1
        /\ \A i \in 1 .. k - 1 + 1 : a[i] = p[1 + i - 1]
    BY <1>1, <1>3, <2>1, <2>2, Piece
  <2>4. k - 1 + 1 = lo - 1 /\ \A i \in 1 .. lo - 1 : i \in 1 .. k - 1 + 1 /\ 1 + i - 1 = i
    BY <1>2, <2>2
  <2>5. \A i \in 1 .. lo - 1 : a[i] = p[i] BY <2>3, <2>4
  <2> QED BY <2>3, <2>4, <2>5
<1>6. /\ c \in Seq(States) /\ Len(c) = N - hi /\ \A i \in 1 .. N - hi : c[i] = p[hi + i]
  <2>1. PICK k \in Nat : k = hi + 1 BY <1>2
  <2>2. /\ c \in Seq(States) /\ Len(c) = N - k + 1
        /\ \A i \in 1 .. N - k + 1 : c[i] = p[k + i - 1]
    BY <1>1, <1>2, <1>4, <2>1, Piece
  <2>3. \A i \in 1 .. N - hi : k + i - 1 = hi + i /\ i \in 1 .. N - k + 1 BY <1>2, <2>1
  <2> QED BY <1>2, <2>1, <2>2, <2>3
<1>7. /\ mid \in Seq(States) /\ Len(mid) = hi - lo + 1
      /\ \A i \in 1 .. hi - lo + 1 : mid[i] = p[lo + i - 1]
  BY <1>1, <1>2, Piece
<1>8. DOMAIN mid = 1 .. hi - lo + 1 BY <1>2, <1>7
<1>9. rest = a \o c BY <1>1, <1>3, <1>4
<1>10. /\ rest \in Seq(States) /\ Len(rest) = (lo - 1) + (N - hi)
       /\ \A i \in 1 .. lo - 1 : rest[i] = a[i]
       /\ \A i \in 1 .. Len(rest) : i >= lo => rest[i] = c[i - (lo - 1)]
  <2>1. /\ rest \in Seq(States) /\ Len(rest) = Len(a) + Len(c)
        /\ \A i \in 1 .. Len(a) + Len(c) :
              rest[i] = IF i <= Len(a) THEN a[i] ELSE c[i - Len(a)]
    <3>1. PICK t : t = a \o c OBVIOUS
    <3>2. /\ t \in Seq(States) /\ Len(t) = Len(a) + Len(c)
          /\ \A i \in 1 .. Len(a) + Len(c) : t[i] = IF i <= Len(a) THEN a[i] ELSE c[i - Len(a)]
      BY <1>5, <1>6, <3>1, ConcatProperties
    <3>3. rest = t BY <1>9, <3>1
    <3> QED BY <3>2, <3>3
  <2>2. Len(rest) = (lo - 1) + (N - hi) BY <1>5, <1>6, <2>1
  <2>3. \A i \in 1 .. lo - 1 : i \in 1 .. (lo - 1) + (N - hi) /\ i <= lo - 1 BY <1>2
  <2>4. \A i \in 1 .. Len(rest) : i >= lo => ~(i <= lo - 1) BY <1>2, <2>2
  <2> QED BY <1>5, <1>6, <2>1, <2>2, <2>3, <2>4
<1>11. DOMAIN rest = 1 .. (lo - 1) + (N - hi)
  <2>1. PICK t : t = rest OBVIOUS
  <2>2. t \in Seq(States) /\ Len(t) = (lo - 1) + (N - hi) BY <1>10, <2>1
  <2>3. PICK k : k = (lo - 1) + (N - hi) OBVIOUS
  <2>4. Len(t) = k BY <2>2, <2>3
  <2>5. DOMAIN t = 1 .. k BY <2>2, <2>4
  <2> QED BY <2>1, <2>3, <2>5
<1> DEFINE At(i) == IF i < lo THEN i ELSE i + (hi - lo + 1)
<1>12. ASSUME NEW i \in DOMAIN rest
       PROVE  At(i) \in DOMAIN p /\ (At(i) < lo \/ hi < At(i)) /\ rest[i] = p[At(i)]
  <2>1. CASE i < lo
    <3>1. i \in 1 .. (lo - 1) + (N - hi) BY <1>11
    <3>2. i \in 1 .. lo - 1 /\ i \in 1 .. N BY <1>2, <2>1, <3>1
    <3>3. rest[i] = p[i] BY <1>5, <1>10, <3>2
    <3> HIDE DEF At
    <3>4. At(i) = i BY <2>1 DEF At
    <3>5. At(i) \in DOMAIN p BY <1>1, <3>2, <3>4
    <3> QED BY <2>1, <3>3, <3>4, <3>5
  <2>2. CASE i >= lo
    <3>0. i \in 1 .. (lo - 1) + (N - hi) BY <1>11
    <3>1. i - (lo - 1) \in 1 .. N - hi BY <1>2, <2>2, <3>0
    <3>2. rest[i] = c[i - (lo - 1)] BY <1>10, <1>11, <2>2
    <3>3. c[i - (lo - 1)] = p[hi + (i - (lo - 1))] BY <1>6, <3>1
    <3>4. hi + (i - (lo - 1)) = i + (hi - lo + 1) BY <1>2, <1>11
    <3>5. At(i) = i + (hi - lo + 1) BY <1>2, <1>11, <2>2
    <3> QED BY <1>1, <1>2, <3>1, <3>2, <3>3, <3>4, <3>5
  <2> QED BY <1>2, <1>11, <2>1, <2>2
<1>13. ASSUME NEW i \in DOMAIN mid
       PROVE  /\ lo + i - 1 \in DOMAIN p /\ lo <= lo + i - 1 /\ lo + i - 1 <= hi
              /\ mid[i] = p[lo + i - 1]
  BY <1>1, <1>2, <1>7, <1>8
<1>14. Once(mid)
  <2>1. ASSUME NEW i \in DOMAIN mid, NEW k \in DOMAIN mid, mid[i] = mid[k] PROVE i = k
    <3>1. lo + i - 1 = lo + k - 1 BY <1>13, <2>1 DEF Once
    <3> QED BY <1>2, <1>8, <3>1
  <2> QED BY <2>1 DEF Once
<1>15. Once(rest)
  <2>1. ASSUME NEW i \in DOMAIN rest, NEW k \in DOMAIN rest, rest[i] = rest[k] PROVE i = k
    <3>1. At(i) = At(k)
      <4> HIDE DEF At
      <4> QED BY <1>12, <2>1 DEF Once
    <3> QED BY <1>2, <1>11, <3>1
  <2> QED BY <2>1 DEF Once
<1>16. Entries(mid) \subseteq Entries(p) BY <1>13 DEF Entries
<1>17. Entries(rest) \subseteq Entries(p)
  <2> HIDE DEF At
  <2>1. ASSUME NEW i \in DOMAIN rest PROVE rest[i] \in Entries(p)
    <3>1. PICK k : k = At(i) OBVIOUS
    <3>2. k \in DOMAIN p /\ rest[i] = p[k] BY <1>12, <3>1
    <3> QED BY <3>2 DEF Entries
  <2> QED BY <2>1 DEF Entries
<1>18. ASSUME NEW i \in DOMAIN mid, NEW k \in DOMAIN rest, mid[i] = rest[k] PROVE FALSE
  <2>1. lo + i - 1 = At(k)
    <3> HIDE DEF At
    <3>1. PICK j, l : j = lo + i - 1 /\ l = At(k) OBVIOUS
    <3>2. j \in DOMAIN p /\ mid[i] = p[j] BY <1>13, <3>1
    <3>3. l \in DOMAIN p /\ rest[k] = p[l] BY <1>12, <3>1
    <3> QED BY <1>18, <3>1, <3>2, <3>3 DEF Once
  <2>2. At(k) \in Int BY <1>2, <1>11
  <2>3. At(k) < lo \/ hi < At(k) BY <1>12
  <2> HIDE DEF At
  <2> QED BY <1>2, <1>13, <2>1, <2>2, <2>3
<1>19. Apart(mid, rest) BY <1>18 DEF Apart, Entries
<1> QED BY <1>7, <1>10, <1>14, <1>15, <1>16, <1>17, <1>19

\* Two sequences that have nothing in common, one after the other.
LEMMA Joined ==
    ASSUME NEW p \in Seq(States), NEW q \in Seq(States), Once(p), Once(q), Apart(p, q)
    PROVE  /\ p \o q \in Seq(States) /\ Once(p \o q)
           /\ Entries(p \o q) = Entries(p) \cup Entries(q)
<1>1. PICK m \in Nat, n \in Nat : m = Len(p) /\ n = Len(q) OBVIOUS
<1>2. PICK s : s = p \o q OBVIOUS
<1>3. /\ s \in Seq(States) /\ Len(s) = m + n
      /\ \A i \in 1 .. m : s[i] = p[i]
      /\ \A i \in 1 .. m + n : i > m => s[i] = q[i - m]
  BY <1>1, <1>2, ConcatProperties
<1>4. DOMAIN s = 1 .. m + n /\ DOMAIN p = 1 .. m /\ DOMAIN q = 1 .. n BY <1>1, <1>3
<1>5. ASSUME NEW i \in DOMAIN s PROVE \/ i \in DOMAIN p /\ s[i] = p[i]
                                      \/ i > m /\ i - m \in DOMAIN q /\ s[i] = q[i - m]
  BY <1>3, <1>4
<1>6. ASSUME NEW i \in DOMAIN s, NEW k \in DOMAIN s, s[i] = s[k] PROVE i = k
  <2>1. CASE i \in DOMAIN p /\ k \in DOMAIN p BY <1>3, <1>4, <1>6, <2>1 DEF Once
  <2>2. CASE i \notin DOMAIN p /\ k \notin DOMAIN p
    <3>1. i - m = k - m BY <1>5, <1>6, <2>2 DEF Once
    <3> QED BY <1>4, <3>1
  <2>3. CASE i \in DOMAIN p /\ k \notin DOMAIN p
    <3>1. s[i] \in Entries(p) BY <1>3, <1>4, <2>3 DEF Entries
    <3>2. s[k] \in Entries(q) BY <1>5, <2>3 DEF Entries
    <3> QED BY <1>6, <3>1, <3>2 DEF Apart
  <2>4. CASE i \notin DOMAIN p /\ k \in DOMAIN p
    <3>1. s[k] \in Entries(p) BY <1>3, <1>4, <2>4 DEF Entries
    <3>2. s[i] \in Entries(q) BY <1>5, <2>4 DEF Entries
    <3> QED BY <1>6, <3>1, <3>2 DEF Apart
  <2> QED BY <2>1, <2>2, <2>3, <2>4
<1>7. Entries(s) \subseteq Entries(p) \cup Entries(q) BY <1>5 DEF Entries
<1>8. Entries(p) \subseteq Entries(s)
  <2>1. \A i \in DOMAIN p : i \in DOMAIN s /\ s[i] = p[i] BY <1>3, <1>4
  <2> QED BY <2>1 DEF Entries
<1>9. Entries(q) \subseteq Entries(s)
  <2>1. \A i \in DOMAIN q : i + m \in DOMAIN s /\ i + m > m /\ (i + m) - m = i BY <1>4
  <2>2. \A i \in DOMAIN q : i + m \in DOMAIN s /\ s[i + m] = q[i] BY <1>3, <1>4, <2>1
  <2> QED BY <2>2 DEF Entries
<1> QED BY <1>2, <1>3, <1>6, <1>7, <1>8, <1>9 DEF Once

-----------------------------------------------------------------------------
(* Ids and sequence numbers *)

\* The messages of S grow in number along b.
LEMMA CountGrows ==
    ASSUME NEW b, NEW S, NEW k \in Nat, NEW m \in Nat, k <= m
    PROVE  /\ Count(b, k, S) \in Nat /\ Count(b, m, S) \in Nat /\ Count(b, 0, S) = 0
           /\ Count(b, k, S) <= Count(b, m, S)
           /\ (k < m /\ b[m] \in S) => Count(b, k, S) < Count(b, m, S)
<1> DEFINE D(n) == {i \in 1 .. n : b[i] \in S}
<1>1. \A n \in Nat : IsFiniteSet(D(n)) /\ Cardinality(D(n)) \in Nat
  <2>1. ASSUME NEW n \in Nat PROVE IsFiniteSet(D(n)) /\ Cardinality(D(n)) \in Nat
    <3>1. IsFiniteSet(1 .. n) BY FS_Interval
    <3>2. D(n) \subseteq 1 .. n OBVIOUS
    <3> HIDE DEF D
    <3>3. IsFiniteSet(D(n)) BY <3>1, <3>2, FS_Subset
    <3> QED BY <3>3, FS_CardinalityType
  <2> QED BY <2>1
<1>2. D(0) = {} OBVIOUS
<1>3. D(k) \subseteq D(m) OBVIOUS
<1>4. (k < m /\ b[m] \in S) => D(k) # D(m)
  <2>1. ASSUME k < m, b[m] \in S PROVE m \in D(m) /\ m \notin D(k) BY <2>1
  <2> HIDE DEF D
  <2> QED BY <2>1
<1>5. \A n \in Nat : Count(b, n, S) = Cardinality(D(n)) BY DEF Count
<1> HIDE DEF D
<1>6. Cardinality(D(0)) = 0 BY <1>2, FS_EmptySet
<1>7. Cardinality(D(k)) <= Cardinality(D(m)) BY <1>1, <1>3, FS_Subset
<1>8. (k < m /\ b[m] \in S) => Cardinality(D(k)) < Cardinality(D(m))
  <2>1. D(k) # D(m) => Cardinality(D(k)) < Cardinality(D(m)) BY <1>1, <1>3, FS_Subset
  <2> QED BY <1>4, <2>1
<1> QED BY <1>1, <1>5, <1>6, <1>7, <1>8

Sent == [id : Nat, content : BOOLEAN, seq : Int, forced : BOOLEAN]
Numbered(w) == {i \in DOMAIN w : ~w[i].forced}

\* The messages of w before a last id and the count s of what was content related.
NumbersUpTo(w, n, s) ==
    \A i \in Numbered(w) :
       w[i].id <= n /\ w[i].seq <= 2 * s /\ (w[i].content => w[i].seq < 2 * s)

\* And those after.
NumbersFrom(w, n, s) == \A i \in Numbered(w) : n < w[i].id /\ 2 * s <= w[i].seq

\* The numbers of w grow.
Grows(w) ==
    \A i, j \in Numbered(w) : i < j =>
       /\ w[i].id < w[j].id /\ w[i].seq <= w[j].seq
       /\ w[i].content => w[i].seq < w[j].seq

Fit(w, n, s) == w \in Seq(Sent) /\ NumbersUpTo(w, n, s) /\ Grows(w)

LEMMA FitLater ==
    ASSUME NEW w, NEW n \in Nat, NEW s \in Int, Fit(w, n, s), NEW n2 \in Nat, NEW s2 \in Int,
           n <= n2, s <= s2
    PROVE  Fit(w, n2, s2)
<1>1. ASSUME NEW i \in Numbered(w)
      PROVE  w[i].id <= n2 /\ w[i].seq <= 2 * s2 /\ (w[i].content => w[i].seq < 2 * s2)
  <2>0. w[i] \in Sent BY DEF Fit, Numbered
  <2>1. w[i].id \in Nat /\ w[i].seq \in Int BY <2>0 DEF Sent
  <2>2. w[i].id <= n /\ w[i].seq <= 2 * s /\ (w[i].content => w[i].seq < 2 * s)
    BY DEF Fit, NumbersUpTo
  <2> QED BY <2>1, <2>2
<1> QED BY <1>1 DEF Fit, NumbersUpTo

\* What is written later has higher numbers.
LEMMA FitJoined ==
    ASSUME NEW w, NEW n \in Nat, NEW s \in Int, Fit(w, n, s),
           NEW m, NEW n2 \in Nat, NEW s2 \in Int, Fit(m, n2, s2), n <= n2, s <= s2,
           NumbersFrom(m, n, s)
    PROVE  Fit(w \o m, n2, s2)
<1>1. PICK a \in Nat, b \in Nat : a = Len(w) /\ b = Len(m) BY DEF Fit
<1>2. PICK t : t = w \o m OBVIOUS
<1>3. /\ t \in Seq(Sent) /\ Len(t) = a + b
      /\ \A i \in 1 .. a + b : t[i] = IF i <= a THEN w[i] ELSE m[i - a]
  BY <1>1, <1>2, ConcatProperties DEF Fit
<1>4. DOMAIN t = 1 .. a + b /\ DOMAIN w = 1 .. a /\ DOMAIN m = 1 .. b BY <1>1, <1>3 DEF Fit
<1>5. ASSUME NEW i \in Numbered(t)
      PROVE  \/ i <= a /\ i \in Numbered(w) /\ t[i] = w[i]
             \/ i > a /\ i - a \in Numbered(m) /\ t[i] = m[i - a]
  <2>1. i \in 1 .. a + b /\ ~t[i].forced BY <1>4 DEF Numbered
  <2>2. CASE i <= a
    <3>1. i \in DOMAIN w /\ t[i] = w[i] BY <1>3, <1>4, <2>1, <2>2
    <3> QED BY <2>1, <2>2, <3>1 DEF Numbered
  <2>3. CASE i > a
    <3>1. i - a \in DOMAIN m /\ t[i] = m[i - a] BY <1>3, <1>4, <2>1, <2>3
    <3> QED BY <2>1, <2>3, <3>1 DEF Numbered
  <2> QED BY <2>1, <2>2, <2>3
<1>6. Fit(w, n2, s2) BY FitLater
<1>7. ASSUME NEW i \in Numbered(t)
      PROVE  t[i].id <= n2 /\ t[i].seq <= 2 * s2 /\ (t[i].content => t[i].seq < 2 * s2)
  BY <1>5, <1>6 DEF Fit, NumbersUpTo
<1>8. ASSUME NEW i \in Numbered(t), NEW j \in Numbered(t), i < j
      PROVE  /\ t[i].id < t[j].id /\ t[i].seq <= t[j].seq
             /\ t[i].content => t[i].seq < t[j].seq
  <2>0. i \in Nat /\ j \in Nat BY <1>4 DEF Numbered
  <2>1. CASE j <= a
    <3>1. /\ i \in Numbered(w) /\ t[i] = w[i] /\ j \in Numbered(w) /\ t[j] = w[j]
      BY <1>5, <1>8, <2>0, <2>1
    <3> QED BY <1>8, <3>1 DEF Fit, Grows
  <2>2. CASE i > a
    <3>1. /\ i - a \in Numbered(m) /\ t[i] = m[i - a] /\ j - a \in Numbered(m) /\ t[j] = m[j - a]
      BY <1>5, <1>8, <2>0, <2>2
    <3>2. i - a < j - a BY <1>8, <2>0
    <3> QED BY <3>1, <3>2 DEF Fit, Grows
  <2>3. CASE i <= a /\ j > a
    <3>1. /\ i \in Numbered(w) /\ t[i] = w[i] /\ j - a \in Numbered(m) /\ t[j] = m[j - a]
      BY <1>5, <2>0, <2>3
    <3>2. t[i].id <= n /\ t[i].seq <= 2 * s /\ (t[i].content => t[i].seq < 2 * s)
      BY <3>1 DEF Fit, NumbersUpTo
    <3>3. n < t[j].id /\ 2 * s <= t[j].seq BY <3>1 DEF NumbersFrom
    <3>4. t[i] \in Sent /\ t[j] \in Sent BY <1>3, <1>4 DEF Numbered
    <3>5. /\ t[i].id \in Nat /\ t[i].seq \in Int /\ t[j].id \in Nat /\ t[j].seq \in Int
      BY <3>4 DEF Sent
    <3> QED BY <3>2, <3>3, <3>5
  <2> QED BY <2>0, <2>1, <2>2, <2>3
<1>9. Fit(t, n2, s2) BY <1>3, <1>7, <1>8 DEF Fit, NumbersUpTo, Grows
<1> QED BY <1>2, <1>9

\* One message, or none.
LEMMA FitOne ==
    ASSUME NEW x \in Sent, NEW n \in Nat, NEW s \in Int,
           ~x.forced => x.id <= n /\ x.seq <= 2 * s /\ (x.content => x.seq < 2 * s)
    PROVE  Fit(<<x>>, n, s) /\ Fit(<<>>, n, s)
<1>1. PICK w : w = <<x>> OBVIOUS
<1>2. w \in Seq(Sent) /\ DOMAIN w = {1} /\ w[1] = x BY <1>1
<1>3. Fit(w, n, s) BY <1>2 DEF Fit, NumbersUpTo, Grows, Numbered
<1>4. Fit(<<>>, n, s) BY DEF Fit, NumbersUpTo, Grows, Numbered
<1> QED BY <1>1, <1>3, <1>4

LEMMA LastFits ==
    ASSUME NEW w, NEW n \in Nat, NEW s \in Int, Fit(w, n, s)
    PROVE  Fit(LastNumbered(w), n, s)
<1> DEFINE I == {i \in DOMAIN w : ~w[i].forced}
<1>1. CASE I = {}
  <2>1. LastNumbered(w) = <<>> BY <1>1 DEF LastNumbered
  <2>2. Fit(<<>>, n, s) BY DEF Fit, NumbersUpTo, Grows, Numbered
  <2> QED BY <2>1, <2>2
<1>2. CASE I # {}
  <2>1. Len(w) \in Nat /\ I \subseteq 0 .. Len(w) BY DEF Fit
  <2>2. PICK i : i = Latest(I) OBVIOUS
  <2>3. i \in I BY <1>2, <2>1, <2>2, LatestOf
  <2>4. LastNumbered(w) = <<w[i]>> BY <1>2, <2>2 DEF LastNumbered
  <2>5. w[i] \in Sent BY <2>3 DEF Fit
  <2>6. w[i].id <= n /\ w[i].seq <= 2 * s /\ (w[i].content => w[i].seq < 2 * s)
    BY <2>3 DEF Fit, NumbersUpTo, Numbered
  <2>7. Fit(<<w[i]>>, n, s) BY <2>5, <2>6, FitOne
  <2> QED BY <2>4, <2>7
<1> QED BY <1>1, <1>2

\* The id of the last of n messages from now on.
LastId(n) == IF n > 0 THEN NewId(lastMsgId, n) ELSE lastMsgId

LEMMA NewIds ==
    ASSUME lastMsgId \in Nat, clock \in Int, timeOffset \in Int, NEW n \in Nat, NEW m \in Nat
    PROVE  /\ LastId(n) \in Nat /\ lastMsgId <= LastId(n)
           /\ n > 0 => /\ NewId(lastMsgId, n) \in Nat /\ lastMsgId < NewId(lastMsgId, n)
                       /\ LastId(n) = NewId(lastMsgId, n)
           /\ n < m => LastId(n) < NewId(lastMsgId, m)
           /\ n <= m => LastId(n) <= LastId(m)
BY DEF LastId, NewId, Now

PackerTypeOK ==
    /\ queue \in Seq(States) /\ pending \in Seq(States) /\ opened \in Seq(States)
    /\ fresh \subseteq States /\ after \in [States -> Link] /\ forced \in [States -> Nat]
    /\ clock \in Int /\ timeOffset \in Int /\ lastMsgId \in Nat /\ sequence \in Int

\* The number of what is content related is odd, and less than those that follow.
LEMMA Seqnos ==
    ASSUME NEW s \in Int, NEW a \in Nat, NEW b \in Nat, a <= b
    PROVE  /\ 2 * (s + a) \in Int /\ 2 * s <= 2 * (s + a) /\ 2 * (s + a) <= 2 * (s + b)
           /\ 2 * s <= 2 * (s + a) + 1
           /\ a < b => 2 * (s + a) + 1 < 2 * (s + b)
OBVIOUS

\* An odd number is strictly between the even ones of the sequences around it.
LEMMA OddBetween ==
    ASSUME NEW w \in Int, NEW x \in Nat, NEW z \in Nat, NEW v \in Int,
           x < z, v = 2 * (w + x) + 1
    PROVE  v < 2 * (w + z) /\ 2 * w <= v /\ v <= 2 * (w + z)
OBVIOUS

\* The messages of a batch, without their container.
LEMMA MessagesFit ==
    ASSUME PackerTypeOK, NEW b \in Seq(States), NEW n \in Nat, n = Len(b),
           NEW m, m = [k \in 1 .. n |-> Message(b, k)]
    PROVE  /\ Fit(m, LastId(Count(b, n, {s \in States : forced[s] = 0})),
                     sequence + Count(b, n, States \ Service))
           /\ NumbersFrom(m, lastMsgId, sequence)
<1> DEFINE U == {s \in States : forced[s] = 0}
           C == States \ Service
<1>1. /\ lastMsgId \in Nat /\ clock \in Int /\ timeOffset \in Int /\ sequence \in Int
      /\ forced \in [States -> Nat]
  BY DEF PackerTypeOK
<1>2. DOMAIN b = 1 .. n /\ \A k \in 1 .. n : b[k] \in States /\ k \in Nat /\ k - 1 \in Nat
  OBVIOUS
<1>a. PICK nums : nums = [k \in 0 .. n |-> Count(b, k, U)] OBVIOUS
<1>b. PICK cs : cs = [k \in 0 .. n |-> Count(b, k, C)] OBVIOUS
<1>c. /\ \A k \in 0 .. n : nums[k] = Count(b, k, U) /\ cs[k] = Count(b, k, C)
      /\ \A k \in 1 .. n : k \in 0 .. n /\ k - 1 \in 0 .. n /\ n \in 0 .. n
  BY <1>a, <1>b
<1>3. \A k \in 0 .. n : nums[k] \in Nat /\ cs[k] \in Nat
  <2>1. \A k \in 0 .. n : Count(b, k, U) \in Nat /\ Count(b, k, C) \in Nat
    <3> HIDE DEF U, C
    <3> QED BY CountGrows
  <2> QED BY <1>c, <2>1
<1>d. \A j, k \in 0 .. n : j <= k => nums[j] <= nums[k]
  <2>1. \A j, k \in 0 .. n : j <= k => Count(b, j, U) <= Count(b, k, U)
    <3> HIDE DEF U, C
    <3> QED BY CountGrows
  <2> QED BY <1>c, <2>1
<1>e. \A j, k \in 0 .. n : j <= k => cs[j] <= cs[k]
  <2>1. \A j, k \in 0 .. n : j <= k => Count(b, j, C) <= Count(b, k, C)
    <3> HIDE DEF U, C
    <3> QED BY CountGrows
  <2> QED BY <1>c, <2>1
<1>f. \A j, k \in 0 .. n : (j < k /\ b[k] \in U) => nums[j] < nums[k]
  <2>1. \A j, k \in 0 .. n : (j < k /\ b[k] \in U) => Count(b, j, U) < Count(b, k, U)
    <3> HIDE DEF U, C
    <3> QED BY CountGrows
  <2> QED BY <1>c, <2>1
<1>g. \A j, k \in 0 .. n : (j < k /\ b[k] \in C) => cs[j] < cs[k]
  <2>1. \A j, k \in 0 .. n : (j < k /\ b[k] \in C) => Count(b, j, C) < Count(b, k, C)
    <3> HIDE DEF U, C
    <3> QED BY CountGrows
  <2> QED BY <1>c, <2>1
<1>4. ASSUME NEW k \in 1 .. n
      PROVE  /\ m[k].content = (b[k] \in C) /\ m[k].forced = (forced[b[k]] # 0)
             /\ m[k].seq = IF b[k] \in C THEN 2 * (sequence + cs[k - 1]) + 1
                                         ELSE 2 * (sequence + cs[k - 1])
             /\ m[k] \in Sent
             /\ forced[b[k]] = 0 => m[k].id = NewId(lastMsgId, nums[k]) /\ nums[k] > 0
  <2>1. m[k] = Message(b, k) OBVIOUS
  <2>2. b[k] \notin Service <=> b[k] \in C BY <1>2
  <2>3. m[k].seq = IF b[k] \in C THEN 2 * (sequence + cs[k - 1]) + 1
                                 ELSE 2 * (sequence + cs[k - 1])
    BY <1>c, <2>1, <2>2 DEF Message, SeqNo
  <2>4. m[k].content = (b[k] \in C) /\ m[k].forced = (forced[b[k]] # 0)
    BY <2>1, <2>2 DEF Message
  <2>5. ASSUME forced[b[k]] = 0 PROVE m[k].id = NewId(lastMsgId, nums[k]) /\ nums[k] > 0
    <3>1. b[k] \in U BY <1>2, <2>5
    <3>2. nums[k - 1] < nums[k] /\ nums[k - 1] \in Nat
      <4> HIDE DEF U
      <4> QED BY <1>2, <1>3, <1>c, <1>f, <3>1
    <3>3. m[k].id = NewId(lastMsgId, nums[k]) BY <1>c, <2>1, <2>5 DEF Message, IdIn
    <3>4. nums[k] \in Nat BY <1>c, <1>3
    <3> HIDE DEF U
    <3> QED BY <3>2, <3>3, <3>4
  <2>6. m[k].id \in Nat
    <3>1. CASE forced[b[k]] = 0
      <4>1. nums[k] \in Nat BY <1>c, <1>3
      <4> QED BY <1>1, <2>5, <3>1, <4>1, NewIds
    <3>2. CASE forced[b[k]] # 0 BY <1>1, <1>2, <2>1, <3>2 DEF Message, IdIn
    <3> QED BY <3>1, <3>2
  <2>7. m[k].seq \in Int
    <3>1. cs[k - 1] \in Nat BY <1>c, <1>3
    <3> HIDE DEF C
    <3> QED BY <1>1, <2>3, <3>1
  <2>8. m[k] = [id |-> m[k].id, content |-> m[k].content, seq |-> m[k].seq,
                forced |-> m[k].forced]
    BY <2>1 DEF Message
  <2>9. m[k].content \in BOOLEAN /\ m[k].forced \in BOOLEAN
    <3>1. (b[k] \in C) \in BOOLEAN /\ (forced[b[k]] # 0) \in BOOLEAN OBVIOUS
    <3> QED BY <2>4, <3>1, Zenon
  <2>10. m[k] \in Sent
    <3> HIDE DEF C, U
    <3> QED BY <2>6, <2>7, <2>8, <2>9 DEF Sent
  <2> QED BY <2>3, <2>4, <2>5, <2>10
<1>5. m \in Seq(Sent) /\ DOMAIN m = 1 .. n
  <2>1. m \in [1 .. n -> Sent] BY <1>4
  <2> QED BY <2>1
<1> HIDE DEF U, C
<1>6. \A k \in Numbered(m) : k \in 1 .. n /\ forced[b[k]] = 0 /\ k \in Nat /\ k - 1 \in Nat
  <2>1. ASSUME NEW k \in Numbered(m)
        PROVE  k \in 1 .. n /\ forced[b[k]] = 0 /\ k \in Nat /\ k - 1 \in Nat
    <3>1. k \in 1 .. n /\ ~m[k].forced BY <1>5 DEF Numbered
    <3>2. forced[b[k]] = 0 BY <1>4, <3>1
    <3> QED BY <1>2, <3>1, <3>2
  <2> QED BY <2>1
<1>8. \A k \in Numbered(m) : b[k] \in U BY <1>2, <1>6 DEF U
<1>9. ASSUME NEW k \in Numbered(m)
      PROVE  /\ m[k].id <= LastId(nums[n]) /\ lastMsgId < m[k].id
             /\ m[k].seq <= 2 * (sequence + cs[n]) /\ 2 * sequence <= m[k].seq
             /\ m[k].content => m[k].seq < 2 * (sequence + cs[n])
  <2>1. k \in 1 .. n /\ forced[b[k]] = 0 /\ k \in Nat /\ k - 1 \in Nat BY <1>6
  <2>2. m[k].id = NewId(lastMsgId, nums[k]) /\ nums[k] > 0 BY <1>4, <2>1
  <2>3. nums[k] \in Nat /\ nums[n] \in Nat /\ nums[k] <= nums[n]
    BY <1>3, <1>c, <1>d, <2>1
  <2>4. m[k].id <= LastId(nums[n]) /\ lastMsgId < m[k].id BY <1>1, <2>2, <2>3, NewIds, ZenonT(30)
  <2>5. /\ cs[k - 1] \in Nat /\ cs[n] \in Nat /\ cs[k] \in Nat
        /\ cs[k - 1] <= cs[k] /\ cs[k] <= cs[n]
    BY <1>3, <1>c, <1>e, <2>1
  <2>10. b[k] \in C => cs[k - 1] < cs[k] BY <1>c, <1>g, <2>1
  <2>6. m[k].seq = IF b[k] \in C THEN 2 * (sequence + cs[k - 1]) + 1
                                 ELSE 2 * (sequence + cs[k - 1])
    BY <1>4, <2>1
  <2>7. m[k].content = (b[k] \in C) BY <1>4, <2>1
  <2>8. CASE b[k] \in C
    <3>1. m[k].seq = 2 * (sequence + cs[k - 1]) + 1 /\ cs[k - 1] < cs[k]
      BY <2>6, <2>8, <2>10
    <3>2. m[k].seq < 2 * (sequence + cs[n]) /\ 2 * sequence <= m[k].seq
          /\ m[k].seq <= 2 * (sequence + cs[n])
      <4>1. PICK x \in Nat, z \in Nat : x = cs[k - 1] /\ z = cs[n] /\ x < z BY <2>5, <3>1
      <4>2. PICK w \in Int : w = sequence BY <1>1
      <4>3. m[k].seq = 2 * (w + x) + 1 BY <3>1, <4>1, <4>2
      <4>4. PICK v \in Int : v = 2 * (w + x) + 1 BY <4>1
      <4>7. x < z BY <4>1
      <4>5. v < 2 * (w + z) /\ 2 * w <= v /\ v <= 2 * (w + z)
        BY <4>4, <4>7, OddBetween, Zenon
      <4>6. m[k].seq = v BY <4>3, <4>4
      <4> QED BY <4>1, <4>2, <4>5, <4>6
    <3> QED BY <2>4, <3>2
  <2>9. CASE b[k] \notin C
    <3>1. m[k].seq = 2 * (sequence + cs[k - 1]) BY <2>6, <2>9
    <3>2. ~m[k].content BY <2>7, <2>9
    <3>3. 2 * sequence <= m[k].seq /\ m[k].seq <= 2 * (sequence + cs[n])
      BY <1>1, <2>5, <3>1, SMTT(30)
    <3> QED BY <2>4, <3>2, <3>3
  <2> QED BY <2>8, <2>9
<1>10. ASSUME NEW i \in Numbered(m), NEW j \in Numbered(m), i < j
       PROVE  /\ m[i].id < m[j].id /\ m[i].seq <= m[j].seq
              /\ m[i].content => m[i].seq < m[j].seq
  <2>1. /\ i \in 1 .. n /\ forced[b[i]] = 0 /\ i \in Nat /\ i - 1 \in Nat
        /\ j \in 1 .. n /\ forced[b[j]] = 0 /\ j \in Nat /\ j - 1 \in Nat
        /\ i <= j - 1 /\ i - 1 <= j - 1
    BY <1>6, <1>10
  <2>2. /\ m[i].id = NewId(lastMsgId, nums[i]) /\ nums[i] > 0
        /\ m[j].id = NewId(lastMsgId, nums[j]) /\ nums[j] > 0
    BY <1>4, <2>1
  <2>3. nums[i] \in Nat /\ nums[j] \in Nat /\ nums[i] < nums[j]
    BY <1>3, <1>c, <1>f, <1>8, <1>10, <2>1
  <2>4. m[i].id < m[j].id BY <1>1, <2>2, <2>3, NewIds
  <2>5. /\ cs[i - 1] \in Nat /\ cs[i] \in Nat /\ cs[j - 1] \in Nat
        /\ cs[i - 1] <= cs[j - 1] /\ cs[i] <= cs[j - 1]
    BY <1>3, <1>c, <1>e, <2>1
  <2>10. b[i] \in C => cs[i - 1] < cs[i] BY <1>c, <1>g, <2>1
  <2>6. /\ m[i].seq = IF b[i] \in C THEN 2 * (sequence + cs[i - 1]) + 1
                                    ELSE 2 * (sequence + cs[i - 1])
        /\ m[j].seq = IF b[j] \in C THEN 2 * (sequence + cs[j - 1]) + 1
                                    ELSE 2 * (sequence + cs[j - 1])
        /\ m[i].content = (b[i] \in C)
    BY <1>4, <2>1
  <2>7. m[j].seq \in Int /\ 2 * (sequence + cs[j - 1]) <= m[j].seq
    <3>1. \/ m[j].seq = 2 * (sequence + cs[j - 1]) + 1
          \/ m[j].seq = 2 * (sequence + cs[j - 1])
      BY <2>6
    <3> QED BY <1>1, <2>5, <3>1, SMTT(30)
  <2>8. CASE b[i] \in C
    <3>1. m[i].seq = 2 * (sequence + cs[i - 1]) + 1 /\ cs[i - 1] < cs[i]
      BY <2>6, <2>8, <2>10
    <3>2. /\ m[i].seq \in Int /\ 2 * (sequence + cs[j - 1]) \in Int
          /\ m[i].seq < 2 * (sequence + cs[j - 1])
      <4>1. PICK x \in Nat, y \in Nat : x = cs[i - 1] /\ y = cs[j - 1] /\ x < y
        BY <2>5, <3>1
      <4>2. PICK w \in Int : w = sequence BY <1>1
      <4>3. m[i].seq = 2 * (w + x) + 1 BY <3>1, <4>1, <4>2
      <4>4. 2 * (w + x) + 1 \in Int /\ 2 * (w + y) \in Int /\ 2 * (w + x) + 1 < 2 * (w + y)
        BY <4>1, SMTT(30)
      <4> QED BY <4>1, <4>2, <4>3, <4>4
    <3>4. m[i].seq < m[j].seq /\ m[i].seq <= m[j].seq
      <4>1. PICK x \in Int, y \in Int, z \in Int :
                x = m[i].seq /\ y = 2 * (sequence + cs[j - 1]) /\ z = m[j].seq
        BY <2>7, <3>2
      <4>2. x < y /\ y <= z BY <2>7, <3>2, <4>1
      <4>3. x < z /\ x <= z BY <4>2
      <4> QED BY <4>1, <4>3
    <3> QED BY <2>4, <3>4
  <2>9. CASE b[i] \notin C
    <3>1. m[i].seq = 2 * (sequence + cs[i - 1]) BY <2>6, <2>9
    <3>2. ~m[i].content BY <2>6, <2>9
    <3>3. m[i].seq \in Int /\ m[i].seq <= 2 * (sequence + cs[j - 1])
          /\ 2 * (sequence + cs[j - 1]) \in Int
      BY <1>1, <2>5, <3>1, Seqnos, SMTT(30)
    <3>4. m[i].seq <= m[j].seq BY <2>7, <3>3
    <3> QED BY <2>4, <3>2, <3>4
  <2> QED BY <2>8, <2>9
<1>11. Fit(m, LastId(nums[n]), sequence + cs[n])
  BY <1>5, <1>9, <1>10 DEF Fit, NumbersUpTo, Grows
<1>12. NumbersFrom(m, lastMsgId, sequence) BY <1>9 DEF NumbersFrom
<1>13. n \in 0 .. n OBVIOUS
<1> QED BY <1>11, <1>12, <1>13, <1>c DEF U, C

-----------------------------------------------------------------------------
(* The packer *)

\* A state waits in the queue or for its answer, and once; o has each once too.
Placed(q, p, o, f) ==
    /\ Once(q) /\ Once(p) /\ Apart(q, p)
    /\ Once(o) /\ f \cap (Entries(q) \cup Entries(p) \cup Entries(o)) = {}

PackerInv ==
    /\ PackerTypeOK
    /\ Placed(queue, pending, opened, fresh) /\ Chains(queue, after)
    /\ Fit(wire, lastMsgId, sequence)

\* Some of the states of b, where each is once.
LEMMA ThoseOnce ==
    ASSUME NEW b \in Seq(States), Once(b), NEW T
    PROVE  /\ Those(b, T) \in Seq(States) /\ Once(Those(b, T))
           /\ Entries(Those(b, T)) \subseteq Entries(b) \cap T
<1>1. PICK t : t = Those(b, T) OBVIOUS
<1>2. t = Kept(b, T) BY <1>1 DEF Those, Kept
<1>3. t \in Seq(States) BY <1>2, KeptPlaces
<1>4. PICK g : Places(g, b, Len(b), T, t) BY <1>2, KeptPlaces
<1>5. DOMAIN b = 1 .. Len(b) /\ DOMAIN t = 1 .. Len(t) /\ Len(b) \in Nat /\ Len(t) \in Nat
  BY <1>3
<1>6. \A k \in DOMAIN t : g[k] \in DOMAIN b /\ t[k] = b[g[k]] /\ t[k] \in T
  BY <1>4, <1>5 DEF Places
<1>7. \A i, k \in DOMAIN t : i < k => g[i] < g[k] BY <1>4, <1>5 DEF Places
<1>8. ASSUME NEW i \in DOMAIN t, NEW k \in DOMAIN t, t[i] = t[k] PROVE i = k
  <2>1. g[i] = g[k] BY <1>6, <1>8 DEF Once
  <2>2. g[i] \in Int /\ g[k] \in Int BY <1>5, <1>6
  <2>3. ~(i < k) /\ ~(k < i) BY <1>7, <2>1, <2>2
  <2> QED BY <1>5, <2>3
<1>9. Once(t) BY <1>8 DEF Once
<1>10. Entries(t) \subseteq Entries(b) \cap T BY <1>6 DEF Entries
<1> QED BY <1>1, <1>3, <1>9, <1>10

\* p, with the links a, is b and the rest t of it.
Divides(p, a, b, t) ==
    /\ b \in Seq(States) /\ Once(b) /\ Entries(b) \subseteq Entries(p)
    /\ t \in Seq(States) /\ Once(t) /\ Entries(t) \subseteq Entries(p)
    /\ Apart(b, t) /\ Chains(t, a)

\* The first h states of p, and what stays behind them.
LEMMA BatchOut ==
    ASSUME NEW p \in Seq(States), Once(p), NEW a, Chains(p, a), NEW h \in 1 .. Len(p),
           NEW b, b = SubSeq(p, 1, h), NEW t, t = SubSeq(p, h + 1, Len(p))
    PROVE  Divides(p, a, b, t) /\ Len(b) = h
<1>1. PICK N \in Nat : N = Len(p) /\ DOMAIN p = 1 .. N OBVIOUS
<1>2. h \in Nat /\ 1 <= h /\ h <= N BY <1>1
<1>3. /\ b \in Seq(States) /\ Len(b) = h /\ DOMAIN b = 1 .. h
      /\ \A i \in 1 .. h : b[i] = p[i]
  <2>1. /\ b \in Seq(States) /\ Len(b) = h - 1 + 1 /\ DOMAIN b = 1 .. h - 1 + 1
        /\ \A i \in 1 .. h - 1 + 1 : b[i] = p[1 + i - 1]
    BY <1>1, <1>2, Piece
  <2>2. h - 1 + 1 = h /\ \A i \in 1 .. h : 1 + i - 1 = i BY <1>2
  <2> QED BY <2>1, <2>2
<1>4. /\ t \in Seq(States) /\ DOMAIN t = 1 .. N - h
      /\ \A i \in 1 .. N - h : t[i] = p[h + i]
  <2>1. PICK k \in Nat : k = h + 1 BY <1>2
  <2>2. 1 <= k /\ k <= N + 1 /\ N <= Len(p) /\ t = SubSeq(p, k, N) BY <1>1, <1>2, <2>1
  <2>3. /\ t \in Seq(States) /\ Len(t) = N - k + 1
        /\ \A i \in 1 .. N - k + 1 : t[i] = p[k + i - 1]
    BY <1>1, <1>2, <2>1, <2>2, Piece
  <2>4. N - k + 1 = N - h /\ \A i \in 1 .. N - h : k + i - 1 = h + i BY <1>2, <2>1
  <2>5. DOMAIN t = 1 .. Len(t) BY <2>3
  <2> QED BY <2>3, <2>4, <2>5
<1>5. \A i \in DOMAIN b : i \in DOMAIN p /\ b[i] = p[i] /\ i <= h BY <1>1, <1>2, <1>3
<1>6. \A i \in DOMAIN t : i \in Int /\ h + i \in DOMAIN p /\ t[i] = p[h + i] /\ h < h + i
  BY <1>1, <1>2, <1>4
<1>7. Once(b) BY <1>5 DEF Once
<1>8. Once(t)
  <2>1. ASSUME NEW i \in DOMAIN t, NEW k \in DOMAIN t, t[i] = t[k] PROVE i = k
    <3>1. h + i = h + k BY <1>6, <2>1 DEF Once
    <3> QED BY <1>2, <1>6, <3>1
  <2> QED BY <2>1 DEF Once
<1>9. Entries(b) \subseteq Entries(p) /\ Entries(t) \subseteq Entries(p)
  BY <1>5, <1>6 DEF Entries
<1>10. Apart(b, t)
  <2>1. ASSUME NEW i \in DOMAIN b, NEW k \in DOMAIN t PROVE b[i] # t[k]
    <3>1. i \in Int /\ i <= h BY <1>3, <1>5
    <3>2. i # h + k BY <1>2, <1>6, <3>1
    <3> QED BY <1>5, <1>6, <3>2 DEF Once
  <2> QED BY <2>1 DEF Apart, Entries
<1>11. ASSUME NEW i \in OrderedIn(t), NEW j \in OrderedIn(t), i < j,
              ~\E k \in OrderedIn(t) : i < k /\ k < j
       PROVE  a[t[j]] = t[i]
  <2>1. /\ i \in DOMAIN t /\ j \in DOMAIN t /\ t[i] \in Ordered /\ t[j] \in Ordered
    BY DEF OrderedIn
  <2>2. h + i \in OrderedIn(p) /\ h + j \in OrderedIn(p) BY <1>6, <2>1 DEF OrderedIn
  <2>3. h + i < h + j BY <1>2, <1>6, <1>11, <2>1
  <2>4. ASSUME NEW k \in OrderedIn(p), h + i < k, k < h + j PROVE FALSE
    <3>1. k \in 1 .. N /\ p[k] \in Ordered BY <1>1 DEF OrderedIn
    <3>2. k - h \in 1 .. N - h /\ h + (k - h) = k /\ i < k - h /\ k - h < j
      BY <1>2, <1>4, <1>6, <2>1, <2>4, <3>1
    <3>3. k - h \in OrderedIn(t) BY <1>4, <3>1, <3>2 DEF OrderedIn
    <3> QED BY <1>11, <3>2, <3>3
  <2>5. a[p[h + j]] = p[h + i] BY <2>2, <2>3, <2>4 DEF Chains
  <2> QED BY <1>6, <2>1, <2>5
<1>12. Chains(t, a) BY <1>11 DEF Chains
<1> QED BY <1>3, <1>4, <1>7, <1>8, <1>9, <1>10, <1>12 DEF Divides

LEMMA PlacedNow ==
    ASSUME NEW q, NEW p, NEW o, NEW f, NEW a, Placed(q, p, o, f), Chains(q, a),
           queue' = q, pending' = p, opened' = o, fresh' = f, after' = a
    PROVE  Placed(queue, pending, opened, fresh)' /\ Chains(queue, after)'
<1>1. Chains(queue, after)' BY DEF Chains, OrderedIn
<1>2. Placed(queue, pending, opened, fresh)' BY DEF Placed, Once, Apart, Entries
<1> QED BY <1>1, <1>2

LEMMA FitNow ==
    ASSUME NEW w, NEW n, NEW s, Fit(w, n, s), wire' = w, lastMsgId' = n, sequence' = s
    PROVE  Fit(wire, lastMsgId, sequence)'
BY DEF Fit, NumbersUpTo, Grows, Numbered

\* Nothing is written by the step; lastMsgId and _sequence go on, or start anew.
Counted ==
    /\ lastMsgId' \in Nat /\ sequence' \in Int
    /\ \/ wire' = <<>>
       \/ wire' = wire /\ lastMsgId <= lastMsgId' /\ sequence <= sequence'

LEMMA CountedFits ==
    ASSUME PackerInv, Counted
    PROVE  Fit(wire, lastMsgId, sequence)'
<1>0. PICK w : w = wire' OBVIOUS
<1>1. PICK n \in Nat, s \in Int : w = wire' /\ n = lastMsgId' /\ s = sequence'
  BY <1>0 DEF Counted
<1>2. CASE w = <<>>
  <2>1. Fit(<<>>, n, s) BY DEF Fit, NumbersUpTo, Grows, Numbered
  <2> QED BY <1>1, <1>2, <2>1, FitNow
<1>3. CASE w = wire /\ lastMsgId <= n /\ sequence <= s
  <2>1. lastMsgId <= n /\ sequence <= s BY <1>3
  <2>2. lastMsgId \in Nat /\ sequence \in Int /\ Fit(w, lastMsgId, sequence)
    BY <1>3 DEF PackerInv, PackerTypeOK
  <2>3. Fit(w, n, s) BY <2>1, <2>2, FitLater
  <2> QED BY <1>1, <2>3, FitNow
<1> QED BY <1>1, <1>2, <1>3 DEF Counted

\* What waits, or waits for its answer, after a step that writes nothing.
LEMMA Moved ==
    ASSUME PackerInv, Counted, clock' \in Int, timeOffset' \in Int, forced' \in [States -> Nat],
           NEW q \in Seq(States), NEW r \in Seq(States), NEW o \in Seq(States),
           NEW f \in SUBSET States, NEW a \in [States -> Link],
           Placed(q, r, o, f), Chains(q, a),
           queue' = q, pending' = r, opened' = o, fresh' = f, after' = a
    PROVE  PackerInv'
<1>1. Fit(wire, lastMsgId, sequence)' BY CountedFits
<1>2. Placed(queue, pending, opened, fresh)' /\ Chains(queue, after)' BY PlacedNow
<1>3. PackerTypeOK' BY DEF PackerTypeOK, Counted
<1> QED BY <1>1, <1>2, <1>3 DEF PackerInv

LEMMA PackerBegins == PackerInit => PackerInv
<1> SUFFICES ASSUME PackerInit PROVE PackerInv OBVIOUS
<1>1. /\ queue = <<>> /\ pending = <<>> /\ opened = <<>> /\ wire = <<>> /\ fresh \subseteq States
      /\ after = [s \in States |-> 0] /\ forced = [s \in States |-> 0]
      /\ clock = 1 /\ timeOffset = 0 /\ lastMsgId = 0 /\ sequence = 0
  BY DEF PackerInit
<1>2. PackerTypeOK BY <1>1 DEF PackerTypeOK, Link
<1>3. Placed(queue, pending, opened, fresh) /\ Chains(queue, after)
  BY <1>1 DEF Placed, Once, Apart, Entries, Chains, OrderedIn
<1>4. Fit(wire, lastMsgId, sequence) BY <1>1 DEF Fit, NumbersUpTo, Grows, Numbered
<1> QED BY <1>2, <1>3, <1>4 DEF PackerInv

\* A state that was never queued goes to the end of the queue.
LEMMA AppendedPlaces ==
    ASSUME PackerInv, NEW s \in fresh, NEW q, NEW a, NEW o,
           q = Append(queue, s), a = Linked(after, queue, s), o = Opened(s)
    PROVE  /\ q \in Seq(States) /\ a \in [States -> Link] /\ fresh \ {s} \in SUBSET States
           /\ pending \in Seq(States) /\ o \in Seq(States)
           /\ Placed(q, pending, o, fresh \ {s}) /\ Chains(q, a)
<1>1. /\ queue \in Seq(States) /\ pending \in Seq(States) /\ fresh \subseteq States
      /\ opened \in Seq(States)
      /\ after \in [States -> Link] /\ Chains(queue, after) /\ s \in States
      /\ Placed(queue, pending, opened, fresh)
  BY DEF PackerInv, PackerTypeOK
<1>2. GoodPair(Chained) BY <1>1 DEF GoodPair, Pair, Chained, Placed
<1>3. s \notin Entries(queue) /\ s \notin Entries(pending) /\ s \notin Entries(opened)
  BY <1>1 DEF Placed
<1>4. Chained.q = queue /\ Chained.a = after BY DEF Chained
<1>5. Extends(Chained, AtEnd(Chained, s), {s}) BY <1>1, <1>2, <1>3, <1>4, AtEndKeeps
<1>6. AtEnd(Chained, s) = [q |-> q, a |-> a] BY <1>4 DEF AtEnd
<1>7. /\ q \in Seq(States) /\ a \in [States -> Link] /\ Once(q) /\ Chains(q, a)
      /\ Entries(q) = Entries(queue) \cup {s}
  BY <1>4, <1>5, <1>6 DEF Extends, GoodPair, Pair
<1>8. o \in Seq(States) /\ Once(o) /\ Entries(o) \subseteq Entries(opened) \cup {s}
  <2>1. CASE s \in Service BY <1>1, <2>1 DEF Opened, Placed
  <2>2. CASE s \notin Service
    <3>1. PICK N \in Nat : N = Len(opened) /\ DOMAIN opened = 1 .. N BY <1>1
    <3>2. o = Append(opened, s) BY <2>2 DEF Opened
    <3>3. /\ o \in Seq(States) /\ DOMAIN o = 1 .. N + 1 /\ o[N + 1] = s
          /\ \A i \in 1 .. N : o[i] = opened[i]
      <4>1. /\ opened \in Seq(States) /\ s \in States /\ N = Len(opened) BY <1>1, <3>1
      <4>2. /\ Append(opened, s) \in Seq(States) /\ Len(Append(opened, s)) = N + 1
            /\ Append(opened, s)[N + 1] = s
        BY <4>1, AppendProperties
      <4>3. \A i \in 1 .. N : Append(opened, s)[i] = opened[i] BY <4>1, AppendProperties
      <4>4. DOMAIN o = 1 .. N + 1
        <5>1. o \in Seq(States) /\ Len(o) = N + 1 BY <3>2, <4>2
        <5> QED BY <5>1
      <4> QED BY <3>2, <4>2, <4>3, <4>4
    <3>4. \A i \in DOMAIN o : i = N + 1 \/ (i \in DOMAIN opened /\ o[i] = opened[i])
      <4>1. \A i \in 1 .. N + 1 : i = N + 1 \/ i \in 1 .. N OBVIOUS
      <4>2. DOMAIN opened = 1 .. N /\ DOMAIN o = 1 .. N + 1 BY <3>1, <3>3
      <4>3. \A i \in 1 .. N : o[i] = opened[i] BY <3>3
      <4> QED BY <4>1, <4>2, <4>3
    <3>5. \A i \in DOMAIN opened : opened[i] # s BY <1>3 DEF Entries
    <3>6. Once(opened) BY <1>1 DEF Placed
    <3>7. Once(o) BY <3>3, <3>4, <3>5, <3>6 DEF Once
    <3>8. Entries(o) \subseteq Entries(opened) \cup {s} BY <3>3, <3>4 DEF Entries
    <3> QED BY <3>3, <3>7, <3>8
  <2> QED BY <2>1, <2>2
<1>9. Placed(q, pending, o, fresh \ {s}) BY <1>1, <1>3, <1>7, <1>8 DEF Placed, Apart
<1> QED BY <1>1, <1>7, <1>8, <1>9

LEMMA QueuedStep ==
    ASSUME PackerInv, NEW s \in States, Queued(s)
    PROVE  PackerInv'
<1>1. PICK q, a, o : q = Append(queue, s) /\ a = Linked(after, queue, s) /\ o = Opened(s)
  OBVIOUS
<1>2. /\ s \in fresh /\ fresh' = fresh \ {s} /\ queue' = q /\ after' = a /\ pending' = pending
      /\ opened' = o
      /\ UNCHANGED <<forced, clock, timeOffset, lastMsgId, sequence, wire>>
  BY <1>1 DEF Queued, stateVars
<1>3. Counted /\ clock' \in Int /\ timeOffset' \in Int /\ forced' \in [States -> Nat]
  BY <1>2 DEF Counted, PackerInv, PackerTypeOK
<1> QED BY <1>1, <1>2, <1>3, AppendedPlaces, Moved

LEMMA SendBindingStep ==
    ASSUME PackerInv, NEW s \in States, SendBinding(s)
    PROVE  PackerInv'
<1>1. PICK q, a, o : q = Append(queue, s) /\ a = Linked(after, queue, s) /\ o = Opened(s)
  OBVIOUS
<1>2. /\ s \in fresh /\ fresh' = fresh \ {s} /\ queue' = q /\ after' = a /\ pending' = pending
      /\ opened' = o
      /\ UNCHANGED <<clock, timeOffset, sequence, wire>>
      /\ forced' = [forced EXCEPT ![s] = NewId(lastMsgId, 1)] /\ lastMsgId' = forced'[s]
  BY <1>1 DEF SendBinding
<1>3. /\ lastMsgId \in Nat /\ clock \in Int /\ timeOffset \in Int /\ sequence \in Int
      /\ forced \in [States -> Nat]
  BY DEF PackerInv, PackerTypeOK
<1>4. NewId(lastMsgId, 1) \in Nat /\ lastMsgId < NewId(lastMsgId, 1) BY <1>3, NewIds
<1>5. forced' \in [States -> Nat] /\ lastMsgId' = NewId(lastMsgId, 1) BY <1>2, <1>3, <1>4
<1>6. Counted BY <1>2, <1>3, <1>4, <1>5 DEF Counted
<1>7. clock' \in Int /\ timeOffset' \in Int BY <1>2, <1>3
<1> QED BY <1>1, <1>2, <1>5, <1>6, <1>7, AppendedPlaces, Moved

LEMMA AnswerStep ==
    ASSUME PackerInv, NEW s \in States, Answer(s)
    PROVE  PackerInv'
<1>1. PICK i \in DOMAIN pending :
          pending' = SubSeq(pending, 1, i - 1) \o SubSeq(pending, i + 1, Len(pending))
  BY DEF Answer
<1>2. PICK mid, rest : mid = SubSeq(pending, i, i) /\ rest = pending' OBVIOUS
<1>3. UNCHANGED <<queue, after, forced, fresh, clock, timeOffset, lastMsgId, sequence, wire>>
  BY DEF Answer, stateVars
<1>4. /\ queue \in Seq(States) /\ pending \in Seq(States) /\ fresh \in SUBSET States
      /\ opened \in Seq(States) /\ after \in [States -> Link] /\ Chains(queue, after)
      /\ Placed(queue, pending, opened, fresh)
  BY DEF PackerInv, PackerTypeOK
<1>5. i \in 1 .. Len(pending) /\ i \in i .. Len(pending) /\ Once(pending) BY <1>4 DEF Placed
<1>6. rest \in Seq(States) /\ Once(rest) /\ Entries(rest) \subseteq Entries(pending)
  BY <1>1, <1>2, <1>4, <1>5, CutOut
<1>7. PICK o : o = opened' OBVIOUS
<1>8. o \in Seq(States) /\ Once(o) /\ Entries(o) \subseteq Entries(opened)
  <2>1. o = Those(opened, States \ {s}) BY <1>7 DEF Answer
  <2>2. Once(opened) BY <1>4 DEF Placed
  <2> QED BY <1>4, <2>1, <2>2, ThoseOnce
<1>9. Placed(queue, rest, o, fresh) BY <1>4, <1>6, <1>8 DEF Placed, Apart
<1>10. Counted /\ clock' \in Int /\ timeOffset' \in Int /\ forced' \in [States -> Nat]
  BY <1>3 DEF Counted, PackerInv, PackerTypeOK
<1> QED BY <1>2, <1>3, <1>4, <1>6, <1>7, <1>8, <1>9, <1>10, Moved

\* One state of p is cut out, or all from one on.
LEMMA CutHere ==
    ASSUME NEW p \in Seq(States), Once(p), NEW lo \in DOMAIN p, NEW hi \in {lo, Len(p)},
           NEW mid, mid = SubSeq(p, lo, hi),
           NEW rest, rest = SubSeq(p, 1, lo - 1) \o SubSeq(p, hi + 1, Len(p))
    PROVE  /\ mid \in Seq(States) /\ Once(mid) /\ Entries(mid) \subseteq Entries(p)
           /\ rest \in Seq(States) /\ Once(rest) /\ Entries(rest) \subseteq Entries(p)
           /\ Apart(mid, rest)
<1>1. Len(p) \in Nat /\ DOMAIN p = 1 .. Len(p) OBVIOUS
<1>2. PICK k \in lo .. Len(p) : k = hi BY <1>1
<1>3. /\ lo \in 1 .. Len(p) /\ mid = SubSeq(p, lo, k)
      /\ rest = SubSeq(p, 1, lo - 1) \o SubSeq(p, k + 1, Len(p))
  BY <1>1, <1>2
<1> QED BY <1>3, CutOut

LEMMA RefusedStep ==
    ASSUME PackerInv, Counted, timeOffset' \in Int, UNCHANGED <<forced, fresh, opened, clock>>,
           NEW lo \in DOMAIN pending, NEW hi \in {lo, Len(pending)},
           NEW x, x = ExtendedBy(Chained, SubSeq(pending, lo, hi)),
           queue' = x.q, after' = x.a,
           pending' = SubSeq(pending, 1, lo - 1) \o SubSeq(pending, hi + 1, Len(pending))
    PROVE  PackerInv'
<1>1. /\ queue \in Seq(States) /\ pending \in Seq(States) /\ fresh \in SUBSET States
      /\ opened \in Seq(States) /\ after \in [States -> Link] /\ Chains(queue, after)
      /\ Placed(queue, pending, opened, fresh)
  BY DEF PackerInv, PackerTypeOK
<1>2. PICK mid, rest :
          /\ mid = SubSeq(pending, lo, hi) /\ pending' = rest
          /\ rest = SubSeq(pending, 1, lo - 1) \o SubSeq(pending, hi + 1, Len(pending))
  OBVIOUS
<1>3. Once(pending) BY <1>1 DEF Placed
<1>4. /\ mid \in Seq(States) /\ Once(mid) /\ Entries(mid) \subseteq Entries(pending)
      /\ rest \in Seq(States) /\ Once(rest) /\ Entries(rest) \subseteq Entries(pending)
      /\ Apart(mid, rest)
  BY <1>1, <1>2, <1>3, CutHere
<1>5. Chained.q = queue /\ Chained.a = after BY DEF Chained
<1>6. GoodPair(Chained) BY <1>1 DEF GoodPair, Pair, Chained, Placed
<1>7. Apart(mid, Chained.q) BY <1>1, <1>4, <1>5 DEF Placed, Apart
<1>8. Extends(Chained, x, Entries(mid)) BY <1>2, <1>4, <1>6, <1>7, ExtendedKeeps
<1>9. PICK q, a : q = x.q /\ a = x.a OBVIOUS
<1>10. /\ q \in Seq(States) /\ a \in [States -> Link] /\ Once(q) /\ Chains(q, a)
       /\ Entries(q) = Entries(queue) \cup Entries(mid)
  BY <1>5, <1>8, <1>9 DEF Extends, GoodPair, Pair
<1>11. Placed(q, rest, opened, fresh) BY <1>1, <1>4, <1>10 DEF Placed, Apart
<1>12. clock' \in Int /\ forced' \in [States -> Nat] /\ fresh' = fresh /\ opened' = opened
  BY DEF PackerInv, PackerTypeOK
<1> QED BY <1>1, <1>2, <1>4, <1>9, <1>10, <1>11, <1>12, Moved

LEMMA BadSaltStep ==
    ASSUME PackerInv, BadSalt
    PROVE  PackerInv'
<1>1. PICK lo \in DOMAIN pending : \E hi \in {lo, Len(pending)} :
         LET x == ExtendedBy(Chained, SubSeq(pending, lo, hi)) IN
         /\ queue' = x.q /\ after' = x.a
         /\ pending' = SubSeq(pending, 1, lo - 1) \o SubSeq(pending, hi + 1, Len(pending))
         /\ UNCHANGED stateVars /\ UNCHANGED <<forced, fresh, opened, clock>>
  BY DEF BadSalt, RefusedWith
<1>2. Counted /\ timeOffset' \in Int BY <1>1 DEF stateVars, Counted, PackerInv, PackerTypeOK
<1> QED BY <1>1, <1>2, RefusedStep

LEMMA BadTimeStep ==
    ASSUME PackerInv, BadTime
    PROVE  PackerInv'
<1>1. PICK o \in -MaxOffset .. MaxOffset : \E lo \in DOMAIN pending : \E hi \in {lo, Len(pending)} :
         LET x == ExtendedBy(Chained, SubSeq(pending, lo, hi)) IN
         /\ queue' = x.q /\ after' = x.a
         /\ pending' = SubSeq(pending, 1, lo - 1) \o SubSeq(pending, hi + 1, Len(pending))
         /\ timeOffset' = o /\ lastMsgId' = IF o # timeOffset THEN 0 ELSE NewId(lastMsgId, 1)
         /\ wire' = IF o # timeOffset THEN <<>> ELSE wire
         /\ UNCHANGED sequence /\ UNCHANGED <<forced, fresh, opened, clock>>
  BY DEF BadTime, RefusedWith
<1>2. timeOffset' \in Int BY <1>1, PackerAssumption DEF PackerAssumption
<1>3. /\ lastMsgId \in Nat /\ clock \in Int /\ timeOffset \in Int /\ sequence \in Int
      /\ wire \in Seq(Sent)
  BY DEF PackerInv, PackerTypeOK, Fit
<1>4. NewId(lastMsgId, 1) \in Nat /\ lastMsgId < NewId(lastMsgId, 1) BY <1>3, NewIds
<1>5. Counted
  <2>1. CASE o # timeOffset
    <3>1. wire' = <<>> /\ lastMsgId' = 0 /\ sequence' = sequence BY <1>1, <2>1
    <3> QED BY <1>3, <3>1 DEF Counted
  <2>2. CASE o = timeOffset
    <3>1. wire' = wire /\ lastMsgId' = NewId(lastMsgId, 1) /\ sequence' = sequence
      BY <1>1, <2>2
    <3> QED BY <1>3, <1>4, <3>1 DEF Counted
  <2> QED BY <2>1, <2>2
<1> QED BY <1>1, <1>2, <1>5, RefusedStep

LEMMA BadSequenceStep ==
    ASSUME PackerInv, BadSequence
    PROVE  PackerInv'
<1>1. PICK d \in {64, -16} : \E lo \in DOMAIN pending : \E hi \in {lo, Len(pending)} :
         LET x == ExtendedBy(Chained, SubSeq(pending, lo, hi)) IN
         /\ queue' = x.q /\ after' = x.a
         /\ pending' = SubSeq(pending, 1, lo - 1) \o SubSeq(pending, hi + 1, Len(pending))
         /\ sequence' = sequence + d /\ wire' = IF d < 0 THEN <<>> ELSE wire
         /\ UNCHANGED <<timeOffset, lastMsgId>> /\ UNCHANGED <<forced, fresh, opened, clock>>
  BY DEF BadSequence, RefusedWith
<1>2. lastMsgId \in Nat /\ timeOffset \in Int /\ sequence \in Int
  BY DEF PackerInv, PackerTypeOK
<1>3. Counted /\ timeOffset' \in Int
  <2>1. CASE d = 64 BY <1>1, <1>2, <2>1 DEF Counted
  <2>2. CASE d = -16 BY <1>1, <1>2, <2>2 DEF Counted
  <2> QED BY <2>1, <2>2
<1> QED BY <1>1, <1>3, RefusedStep

LEMMA PackerResetStep ==
    ASSUME PackerInv, PackerReset
    PROVE  PackerInv'
<1>1. PICK again : again = Those(opened, numbered \ Entries(pending)) OBVIOUS
<1>2. PICK r : r = pending \o again OBVIOUS
<1>3. PICK y, x : y = [q |-> <<>>, a |-> after] /\ x = PrependedBy(y, r) OBVIOUS
<1>4. /\ sequence' = 0 /\ lastMsgId' = 0 /\ wire' = <<>>
      /\ queue' = x.q /\ after' = x.a /\ pending' = <<>>
      /\ UNCHANGED <<forced, fresh, opened, clock, timeOffset>>
  BY <1>1, <1>2, <1>3 DEF PackerReset, Entries
<1>5. /\ pending \in Seq(States) /\ fresh \in SUBSET States /\ after \in [States -> Link]
      /\ opened \in Seq(States) /\ Placed(queue, pending, opened, fresh)
      /\ clock \in Int /\ timeOffset \in Int /\ forced \in [States -> Nat]
      /\ Once(pending) /\ Once(opened)
  BY DEF PackerInv, PackerTypeOK, Placed
<1>6. /\ again \in Seq(States) /\ Once(again)
      /\ Entries(again) \subseteq Entries(opened) \cap (numbered \ Entries(pending))
  BY <1>1, <1>5, ThoseOnce
<1>7. /\ r \in Seq(States) /\ Once(r) /\ Entries(r) = Entries(pending) \cup Entries(again)
  <2>1. Apart(pending, again) BY <1>6 DEF Apart
  <2> QED BY <1>2, <1>5, <1>6, <2>1, Joined
<1>8. y.q = <<>> /\ y.a = after /\ y \in Pair BY <1>3, <1>5 DEF Pair
<1>9. GoodPair(y) /\ Apart(r, y.q) /\ Entries(y.q) = {}
  BY <1>8 DEF GoodPair, Once, Chains, OrderedIn, Apart, Entries
<1>10. Extends(y, x, Entries(r)) BY <1>3, <1>7, <1>9, PrependedKeeps
<1>11. PICK q, a : q = x.q /\ a = x.a OBVIOUS
<1>12. /\ q \in Seq(States) /\ a \in [States -> Link] /\ Once(q) /\ Chains(q, a)
       /\ Entries(q) = Entries(r)
  BY <1>9, <1>10, <1>11 DEF Extends, GoodPair, Pair
<1>13. PICK p : p = <<>> OBVIOUS
<1>14. p \in Seq(States) /\ Once(p) /\ Entries(p) = {} BY <1>13 DEF Once, Entries
<1>15. Placed(q, p, opened, fresh)
  BY <1>5, <1>6, <1>7, <1>12, <1>14 DEF Placed, Apart
<1>16. Counted BY <1>4 DEF Counted
<1>17. clock' \in Int /\ timeOffset' \in Int /\ forced' \in [States -> Nat]
  BY <1>4, <1>5
<1> QED BY <1>4, <1>5, <1>11, <1>12, <1>13, <1>14, <1>15, <1>16, <1>17, Moved

\* What is written is w, the messages m and a container c, if they have one.
LEMMA ContainerFits ==
    ASSUME PackerTypeOK, NEW w, Fit(w, lastMsgId, sequence), NEW nums \in Nat, NEW cs \in Nat,
           NEW m, Fit(m, LastId(nums), sequence + cs), NumbersFrom(m, lastMsgId, sequence),
           NEW c \in Sent, c.id = NewId(lastMsgId, nums + 1), ~c.content,
           c.seq = 2 * (sequence + cs)
    PROVE  /\ Fit(w \o (m \o <<c>>), LastId(nums + 1), sequence + cs)
           /\ Fit(w \o (m \o <<>>), LastId(nums), sequence + cs)
<1>1. /\ lastMsgId \in Nat /\ clock \in Int /\ timeOffset \in Int /\ sequence \in Int
  BY DEF PackerTypeOK
<1>2. PICK k \in Nat : k = nums + 1 /\ nums < k /\ k > 0 OBVIOUS
<1>3. PICK s \in Int : s = sequence + cs /\ sequence <= s BY <1>1
<1>4. PICK i \in Nat : i = LastId(nums) /\ lastMsgId <= i BY <1>1, NewIds
<1>5. PICK j \in Nat : j = LastId(k) BY <1>1, NewIds
<1>6. j = NewId(lastMsgId, k) BY <1>1, <1>2, <1>5, NewIds
<1>7. i < j /\ i <= j
  <2>1. LastId(nums) < NewId(lastMsgId, k) BY <1>1, <1>2, NewIds
  <2> QED BY <1>4, <1>6, <2>1
<1>8. Fit(m, i, s) BY <1>3, <1>4
<1>9. PICK u : u = w \o m OBVIOUS
<1>10. Fit(u, i, s) BY <1>1, <1>3, <1>4, <1>8, <1>9, FitJoined
<1>11. PICK x \in Nat, z \in Int : x = c.id /\ z = c.seq BY DEF Sent
<1>12. x = j /\ z = 2 * s BY <1>2, <1>3, <1>6, <1>11
<1>13. x <= j /\ z <= 2 * s /\ i < x /\ 2 * s <= z BY <1>7, <1>12
<1>14. c.id <= j /\ c.seq <= 2 * s BY <1>11, <1>13
<1>15. Fit(<<c>>, j, s)
  <2>1. ~c.forced => c.id <= j /\ c.seq <= 2 * s /\ (c.content => c.seq < 2 * s) BY <1>14
  <2> QED BY <2>1, FitOne
<1>16. NumbersFrom(<<c>>, i, s)
  <2>1. PICK v : v = <<c>> OBVIOUS
  <2>2. DOMAIN v = {1} /\ v[1] = c BY <2>1
  <2>3. i < c.id /\ 2 * s <= c.seq BY <1>11, <1>13
  <2> QED BY <2>1, <2>2, <2>3 DEF NumbersFrom, Numbered
<1>17. Fit(u \o <<c>>, j, s) BY <1>7, <1>10, <1>15, <1>16, FitJoined
<1>18. w \in Seq(Sent) /\ m \in Seq(Sent) /\ <<c>> \in Seq(Sent)
  BY <1>8 DEF Fit
<1>19. w \o (m \o <<c>>) = u \o <<c>> BY <1>9, <1>18, ConcatAssociative
<1>20. m \o <<>> = m BY <1>18, ConcatEmptySeq
<1> QED BY <1>2, <1>3, <1>4, <1>5, <1>9, <1>10, <1>17, <1>19, <1>20

LEMMA GetStep ==
    ASSUME PackerInv, Get
    PROVE  PackerInv'
<1>1. /\ queue \in Seq(States) /\ pending \in Seq(States) /\ fresh \in SUBSET States
      /\ opened \in Seq(States) /\ after \in [States -> Link] /\ Chains(queue, after)
      /\ Placed(queue, pending, opened, fresh) /\ Once(queue) /\ Once(pending) /\ Apart(queue, pending)
      /\ lastMsgId \in Nat /\ clock \in Int /\ timeOffset \in Int /\ sequence \in Int
      /\ forced \in [States -> Nat]
  BY DEF PackerInv, PackerTypeOK, Placed
<1>2. PICK h \in 1 .. Len(queue) : Batch = SubSeq(queue, 1, h)
  <2>0. PICK g : g = IF Len(queue) <= MaximumLength THEN Len(queue) ELSE MaximumLength + 1
    OBVIOUS
  <2>1. queue # <<>> BY DEF Get
  <2>2. PICK l \in Nat : l = Len(queue) /\ l > 0 BY <1>1, <2>1
  <2>3. MaximumLength \in Nat BY PackerAssumption DEF PackerAssumption
  <2>4. g \in 1 .. Len(queue) BY <2>0, <2>2, <2>3
  <2>5. Batch = SubSeq(queue, 1, g) BY <2>0 DEF Batch
  <2> QED BY <2>4, <2>5
<1>3. PICK b : b = Batch OBVIOUS
<1>4. PICK t : t = SubSeq(queue, h + 1, Len(queue)) OBVIOUS
<1>5. /\ b \in Seq(States) /\ Len(b) = h /\ Once(b) /\ Entries(b) \subseteq Entries(queue)
      /\ t \in Seq(States) /\ Once(t) /\ Entries(t) \subseteq Entries(queue)
      /\ Apart(b, t) /\ Chains(t, after)
  <2>1. queue \in Seq(States) /\ Once(queue) BY <1>1
  <2>2. Chains(queue, after) BY <1>1
  <2>3. b = SubSeq(queue, 1, h) BY <1>2, <1>3
  <2>4. Divides(queue, after, b, t) /\ Len(b) = h BY <1>4, <2>1, <2>2, <2>3, BatchOut
  <2> QED BY <2>4 DEF Divides
<1>6. PICK n \in Nat : n = h BY <1>1
<1>7. PICK nums : nums = Count(b, n, {s \in States : forced[s] = 0}) OBVIOUS
<1>8. PICK cs : cs = Count(b, n, States \ Service) OBVIOUS
<1>9. PICK m : m = [k \in 1 .. n |-> Message(b, k)] OBVIOUS
<1>10. PICK c : c = [id |-> NewId(lastMsgId, nums + 1), content |-> FALSE,
                     seq |-> SeqNo(sequence + cs, FALSE), forced |-> FALSE]
  OBVIOUS
<1>11. PICK taken : taken = nums + (IF n > 1 THEN 1 ELSE 0) OBVIOUS
<1>12. /\ queue' = t /\ pending' = pending \o Those(b, States \ Service)
       /\ lastMsgId' = IF taken > 0 THEN NewId(lastMsgId, taken) ELSE lastMsgId
       /\ sequence' = sequence + cs
       /\ wire' = LastNumbered(wire) \o (m \o (IF n > 1 THEN <<c>> ELSE <<>>))
       /\ UNCHANGED <<after, forced, fresh, opened, clock, timeOffset>>
  BY <1>3, <1>4, <1>5, <1>6, <1>7, <1>8, <1>9, <1>10, <1>11 DEF Get
<1>13. nums \in Nat /\ cs \in Nat
  <2>1. \A S : Count(b, n, S) \in Nat BY CountGrows
  <2> QED BY <1>7, <1>8, <2>1
<1>14. PackerTypeOK BY DEF PackerInv
<1>15. Fit(m, LastId(nums), sequence + cs) /\ NumbersFrom(m, lastMsgId, sequence)
  BY <1>5, <1>6, <1>7, <1>8, <1>9, <1>14, MessagesFit
<1>16. PICK w : w = LastNumbered(wire) OBVIOUS
<1>17. Fit(w, lastMsgId, sequence) BY <1>1, <1>16, LastFits DEF PackerInv
<1>18. /\ c \in Sent /\ c.id = NewId(lastMsgId, nums + 1) /\ ~c.content
       /\ c.seq = 2 * (sequence + cs)
  <2>1. PICK k \in Nat : k = nums + 1 /\ k > 0 BY <1>13
  <2>2. PICK i \in Nat : i = NewId(lastMsgId, k) BY <1>1, <2>1, NewIds
  <2>3. PICK z \in Int : z = 2 * (sequence + cs) BY <1>1, <1>13
  <2>4. c = [id |-> i, content |-> FALSE, seq |-> z, forced |-> FALSE]
    BY <1>10, <2>1, <2>2, <2>3 DEF SeqNo
  <2> QED BY <2>1, <2>2, <2>3, <2>4 DEF Sent
<1>19. /\ Fit(w \o (m \o <<c>>), LastId(nums + 1), sequence + cs)
       /\ Fit(w \o (m \o <<>>), LastId(nums), sequence + cs)
  BY <1>13, <1>14, <1>15, <1>17, <1>18, ContainerFits
<1>20. lastMsgId' = LastId(taken) BY <1>12 DEF LastId
<1>21. taken \in Nat BY <1>11, <1>13
<1>22. lastMsgId' \in Nat /\ sequence' \in Int
  <2>1. LastId(taken) \in Nat BY <1>1, <1>21, NewIds
  <2>2. sequence + cs \in Int BY <1>1, <1>13
  <2> QED BY <1>12, <1>20, <2>1, <2>2
<1>23. Fit(wire', lastMsgId', sequence')
  <2>1. CASE n > 1
    <3>1. taken = nums + 1 /\ wire' = w \o (m \o <<c>>) BY <1>11, <1>12, <1>16, <2>1
    <3> QED BY <1>12, <1>19, <1>20, <3>1
  <2>2. CASE ~(n > 1)
    <3>1. taken = nums /\ wire' = w \o (m \o <<>>) BY <1>11, <1>12, <1>13, <1>16, <2>2
    <3> QED BY <1>12, <1>19, <1>20, <3>1
  <2> QED BY <2>1, <2>2
<1>24. Fit(wire, lastMsgId, sequence)'
  <2>1. PICK v, i, s : v = wire' /\ i = lastMsgId' /\ s = sequence' OBVIOUS
  <2> QED BY <1>23, <2>1, FitNow
<1>25. PICK r : r = Those(b, States \ Service) OBVIOUS
<1>26. r \in Seq(States) /\ Once(r) /\ Entries(r) \subseteq Entries(b)
  BY <1>5, <1>25, ThoseOnce
<1>27. PICK p : p = pending \o r OBVIOUS
<1>28. /\ p \in Seq(States) /\ Once(p) /\ Entries(p) = Entries(pending) \cup Entries(r)
  <2>1. Apart(pending, r) BY <1>1, <1>5, <1>26 DEF Apart
  <2> QED BY <1>1, <1>26, <1>27, <2>1, Joined
<1>29. Placed(t, p, opened, fresh)
  BY <1>1, <1>5, <1>26, <1>28 DEF Placed, Apart
<1>30. pending' = p BY <1>12, <1>25, <1>27
<1>31. Placed(queue, pending, opened, fresh)' /\ Chains(queue, after)'
  BY <1>5, <1>12, <1>29, <1>30, PlacedNow
<1>32. PackerTypeOK' BY <1>1, <1>5, <1>12, <1>22, <1>28, <1>30 DEF PackerTypeOK
<1> QED BY <1>24, <1>31, <1>32 DEF PackerInv

LEMMA PackerStep == PackerInv /\ [PackerNext]_packerVars => PackerInv'
<1> SUFFICES ASSUME PackerInv, [PackerNext]_packerVars PROVE PackerInv' OBVIOUS
<1>1. ASSUME UNCHANGED <<queue, after, forced, fresh, opened, pending, stateVars>>, clock' \in Int
      PROVE  PackerInv'
  <2>1. Counted BY <1>1 DEF Counted, stateVars, PackerInv, PackerTypeOK
  <2>2. timeOffset' \in Int /\ forced' \in [States -> Nat]
    BY <1>1 DEF stateVars, PackerInv, PackerTypeOK
  <2>3. /\ queue \in Seq(States) /\ pending \in Seq(States) /\ fresh \in SUBSET States
        /\ opened \in Seq(States) /\ after \in [States -> Link]
        /\ Placed(queue, pending, opened, fresh) /\ Chains(queue, after)
    BY DEF PackerInv, PackerTypeOK
  <2> QED BY <1>1, <2>1, <2>2, <2>3, Moved
<1>2. CASE Get BY <1>2, GetStep
<1>3. CASE BadSalt BY <1>3, BadSaltStep
<1>4. CASE BadTime BY <1>4, BadTimeStep
<1>5. CASE BadSequence BY <1>5, BadSequenceStep
<1>6. CASE PackerReset BY <1>6, PackerResetStep
<1>7. CASE ClockMoves
  <2>1. clock' \in Int BY <1>7 DEF ClockMoves, PackerInv, PackerTypeOK
  <2> QED BY <1>1, <1>7, <2>1 DEF ClockMoves
<1>8. ASSUME NEW s \in States, Queued(s) PROVE PackerInv' BY <1>8, QueuedStep
<1>9. ASSUME NEW s \in States, SendBinding(s) PROVE PackerInv' BY <1>9, SendBindingStep
<1>10. ASSUME NEW s \in States, Answer(s) PROVE PackerInv' BY <1>10, AnswerStep
<1>11. CASE UNCHANGED packerVars
  <2>1. clock' \in Int BY <1>11 DEF packerVars, PackerInv, PackerTypeOK
  <2> QED BY <1>1, <1>11, <2>1 DEF packerVars
<1> QED BY <1>2, <1>3, <1>4, <1>5, <1>6, <1>7, <1>8, <1>9, <1>10, <1>11 DEF PackerNext

LEMMA PackerOrder == PackerInv => OrderIsKept
<1> SUFFICES ASSUME PackerInv PROVE OrderIsKept OBVIOUS
<1>1. ChainFollowsQueue BY DEF PackerInv, Chains, ChainFollowsQueue
<1>2. Grows(wire) /\ wire \in Seq(Sent) BY DEF PackerInv, Fit
<1>3. IdsIncrease BY <1>2 DEF Grows, Numbered, IdsIncrease
<1>4. SeqnosFollowIds
  <2>1. SUFFICES ASSUME NEW i \in Numbered(wire), NEW j \in Numbered(wire),
                        wire[i].id < wire[j].id
                 PROVE  \/ wire[i].seq < wire[j].seq
                        \/ wire[i].seq = wire[j].seq /\ ~wire[i].content
    BY DEF SeqnosFollowIds, Numbered
  <2>2. i \in Int /\ j \in Int /\ wire[i] \in Sent /\ wire[j] \in Sent BY <1>2 DEF Numbered
  <2>3. PICK k \in Nat, l \in Nat, x \in Int, y \in Int :
           k = wire[i].id /\ l = wire[j].id /\ x = wire[i].seq /\ y = wire[j].seq
    BY <2>2 DEF Sent
  <2>4. i < j
    <3>1. CASE i = j BY <2>1, <2>3, <3>1
    <3>2. CASE j < i
      <4>1. l < k BY <1>2, <2>3, <3>2 DEF Grows
      <4>2. k < l BY <2>1, <2>3
      <4> QED BY <4>1, <4>2
    <3> QED BY <2>2, <3>1, <3>2
  <2>5. x <= y /\ (wire[i].content => x < y) BY <1>2, <2>3, <2>4 DEF Grows
  <2>6. x < y \/ x = y BY <2>5
  <2> QED BY <2>3, <2>5, <2>6
<1> QED BY <1>1, <1>3, <1>4 DEF OrderIsKept

\* Ids and sequence numbers grow in the order messages are written to a session, and an ordered
\* request is chained to the one before it in the queue, whatever was refused, sent again from
\* either end of the queue, corrected, bound or reset before, and wherever the clock went; but
\* for the id of a binding, and for what was written before a correction of the time or of the
\* counter (MessagePacker.ts:37-200, MTProtoState.ts:230-330).
THEOREM KeepsOrder == PackerSpec => []OrderIsKept
<1> QED BY PackerBegins, PackerStep, PackerOrder, PTL DEF PackerSpec

-----------------------------------------------------------------------------
(* The entities *)

\* What a peer is, and what it is not.
LEMMA PeersAre ==
    ASSUME NEW p \in Peers
    PROVE  /\ p.kind \in {"user", "chat", "channel"} /\ p.id \in 1 .. 99
           /\ p = PeerOf(p.kind, p.id) /\ p # Nobody
<1>1. \A k, n : PeerOf(k, n).kind = k /\ PeerOf(k, n).id = n BY DEF PeerOf
<1>2. PICK k \in {"user", "chat", "channel"}, n \in UserNumbers \cup ChatNumbers \cup ChannelNumbers :
          p = PeerOf(k, n)
  BY DEF Peers
<1>3. p.kind = k /\ p.id = n BY <1>1, <1>2
<1>4. p.id \in 1 .. 99 BY <1>2, <1>3, EntitiesAssumption
<1>5. p # Nobody
  <2>1. Nobody.kind = "nobody" BY <1>1 DEF Nobody
  <2> QED BY <1>3, <2>1
<1> QED BY <1>2, <1>3, <1>4, <1>5

LEMMA MeIsPeer == Me \in Peers
BY EntitiesAssumption DEF Me, Peers

\* The marks of users, chats and channels do not meet.
LEMMA Marks ==
    ASSUME NEW p \in Peers
    PROVE  /\ PeerId(p) \in Int /\ ResolveId(PeerId(p)) = p
           /\ p.kind = "user" => PeerId(p) = p.id
           /\ p.kind = "chat" => PeerId(p) = -p.id
           /\ p.kind = "channel" => PeerId(p) = -100 - p.id
<1>1. PICK k, n : k = p.kind /\ n = p.id OBVIOUS
<1>2. k \in {"user", "chat", "channel"} /\ n \in 1 .. 99 /\ p = PeerOf(k, n) BY <1>1, PeersAre
<1>3. PICK m : m = PeerId(p) OBVIOUS
<1>4. m = Mark(k, n) BY <1>1, <1>3 DEF PeerId
<1>5. CASE k = "user"
  <2>1. m = n BY <1>4, <1>5 DEF Mark
  <2>2. ResolveId(m) = PeerOf("user", n) BY <1>2, <2>1 DEF ResolveId
  <2> QED BY <1>1, <1>2, <1>3, <1>5, <2>1, <2>2
<1>6. CASE k = "chat"
  <2>1. m = -n BY <1>4, <1>6 DEF Mark
  <2>2. m \in Int /\ ~(m >= 0) /\ ~(m < -100) /\ -m = n BY <1>2, <2>1
  <2>3. ResolveId(m) = PeerOf("chat", n) BY <2>2 DEF ResolveId
  <2> QED BY <1>1, <1>2, <1>3, <1>6, <2>1, <2>2, <2>3
<1>7. CASE k = "channel"
  <2>1. m = -(100 + n) BY <1>4, <1>7 DEF Mark
  <2>2. m \in Int /\ ~(m >= 0) /\ m < -100 /\ -m - 100 = n /\ m = -100 - n BY <1>2, <2>1
  <2>3. ResolveId(m) = PeerOf("channel", n) BY <2>2 DEF ResolveId
  <2> QED BY <1>1, <1>2, <1>3, <1>7, <2>1, <2>2, <2>3
<1> QED BY <1>2, <1>5, <1>6, <1>7

LEMMA MarksApart ==
    ASSUME NEW p \in Peers, NEW q \in Peers, PeerId(p) = PeerId(q)
    PROVE  p = q
<1>1. ResolveId(PeerId(p)) = p /\ ResolveId(PeerId(q)) = q BY Marks
<1> QED BY <1>1

\* Whatever a marked id is taken for has the bare id.
Guesses(n) == {n, AsKind("user", n), AsKind("chat", n), AsKind("channel", n)}

LEMMA Guessed ==
    ASSUME NEW p \in Peers, NEW q \in Peers, PeerId(q) \in Guesses(PeerId(p))
    PROVE  q.id = p.id
<1>1. PICK n, m : n = PeerId(p) /\ m = PeerId(q) OBVIOUS
<1>2. PICK i \in 1 .. 99, j \in 1 .. 99 : i = p.id /\ j = q.id BY PeersAre
<1>3. ResolveId(n).id = i BY <1>1, <1>2, Marks
<1>4. n \in Int /\ n \in {i, -i, -100 - i} BY <1>1, <1>2, Marks, PeersAre
<1>5. m \in {j, -j, -100 - j} BY <1>1, <1>2, Marks, PeersAre
<1>6. AsKind("user", n) = n BY DEF AsKind, Mark
<1>7. AsKind("chat", n) = -i BY <1>3 DEF AsKind, Mark
<1>8. AsKind("channel", n) = -(100 + i) BY <1>3 DEF AsKind, Mark
<1>9. m \in {n, -i, -100 - i}
  <2>1. -(100 + i) = -100 - i OBVIOUS
  <2>2. m \in {n, n, -i, -(100 + i)} BY <1>1, <1>6, <1>7, <1>8 DEF Guesses
  <2> QED BY <2>1, <2>2
<1>10. m \in {i, -i, -100 - i} BY <1>4, <1>9
<1>11. i = j BY <1>5, <1>10
<1> QED BY <1>2, <1>11

\* A read of the cache.
LEMMA CacheReads ==
    ASSUME cached \subseteq Peers, NEW mark, NEW next
    PROVE  /\ \A p \in cached : PeerId(p) = mark => CacheRead(mark, next) = p
           /\ \/ CacheRead(mark, next) = next
              \/ CacheRead(mark, next) \in cached /\ PeerId(CacheRead(mark, next)) = mark
<1>1. CASE Cached(mark) = {}
  <2>1. CacheRead(mark, next) = next BY <1>1 DEF CacheRead
  <2>2. \A p \in cached : PeerId(p) # mark BY <1>1 DEF Cached
  <2> QED BY <2>1, <2>2
<1>2. CASE Cached(mark) # {}
  <2>1. PICK x : x = CHOOSE p \in cached : PeerId(p) = mark OBVIOUS
  <2>2. \E p \in cached : PeerId(p) = mark BY <1>2 DEF Cached
  <2>3. x \in cached /\ PeerId(x) = mark BY <2>1, <2>2
  <2>4. CacheRead(mark, next) = x BY <1>2, <2>1 DEF CacheRead
  <2>5. \A p \in cached : PeerId(p) = mark => p = x BY <2>3, MarksApart
  <2> QED BY <2>3, <2>4, <2>5
<1> QED BY <1>1, <1>2

LEMMA CacheGets ==
    ASSUME cached \subseteq Peers, NEW p \in Peers, NEW g, g = CacheGet(PeerId(p))
    PROVE  /\ g = Nobody \/ (g \in cached /\ g.id = p.id)
           /\ p \in cached => g = p
<1>1. PICK n \in Int : n = PeerId(p) BY Marks
<1>2. PICK c : c = CacheRead(AsKind("channel", n), Nobody) OBVIOUS
<1>3. PICK b : b = CacheRead(AsKind("chat", n), c) OBVIOUS
<1>4. PICK a : a = CacheRead(AsKind("user", n), b) OBVIOUS
<1>5. PICK f : f = CacheRead(n, a) OBVIOUS
<1>6. g = IF n < 0 THEN f ELSE a BY <1>1, <1>2, <1>3, <1>4, <1>5 DEF CacheGet
<1> DEFINE Good(x) == x = Nobody \/ (x \in cached /\ PeerId(x) \in Guesses(n))
<1>7. Good(c) BY <1>2, CacheReads DEF Guesses
<1>8. Good(b) BY <1>3, <1>7, CacheReads DEF Guesses
<1>9. Good(a) BY <1>4, <1>8, CacheReads DEF Guesses
<1>10. Good(f) BY <1>5, <1>9, CacheReads DEF Guesses
<1>11. Good(g) BY <1>6, <1>9, <1>10
<1>12. p \in cached => a = p /\ f = p
  <2>1. AsKind("user", n) = n BY DEF AsKind, Mark
  <2> QED BY <1>1, <1>4, <1>5, <2>1, CacheReads
<1>13. p \in cached => g = p BY <1>6, <1>12
<1>14. g = Nobody \/ (g \in cached /\ g.id = p.id)
  <2>1. CASE g = Nobody BY <2>1
  <2>2. CASE g \in cached /\ PeerId(g) \in Guesses(n) BY <1>1, <2>2, Guessed
  <2> QED BY <1>11, <2>1, <2>2
<1> QED BY <1>13, <1>14

RowPeers(rs) == {rs[i].peer : i \in DOMAIN rs}
RowsOf == [peer : Peers, named : BOOLEAN]

\* A read of the rows.
LEMMA FirstRows ==
    ASSUME rows \in Seq(RowsOf), NEW is \in SUBSET (DOMAIN rows)
    PROVE  FirstRow(is) = Nobody \/ \E i \in is : FirstRow(is) = rows[i].peer
<1>1. CASE is = {} BY <1>1 DEF FirstRow
<1>2. CASE is # {}
  <2>1. is \in SUBSET Nat OBVIOUS
  <2>2. \E i \in is : \A k \in is : i <= k BY <1>2, <2>1, LeastNumber
  <2>3. PICK i : i = CHOOSE j \in is : \A k \in is : j <= k OBVIOUS
  <2>4. i \in is BY <2>2, <2>3
  <2>5. FirstRow(is) = rows[i].peer BY <1>2, <2>3 DEF FirstRow
  <2> QED BY <2>4, <2>5
<1> QED BY <1>1, <1>2

LEMMA RowsById ==
    ASSUME rows \in Seq(RowsOf), NEW p \in Peers, NEW g, g = RowOfId(PeerId(p))
    PROVE  g = Nobody \/ (g \in RowPeers(rows) /\ g.id = p.id)
<1>1. PICK n : n = PeerId(p) OBVIOUS
<1>2. PICK guesses : guesses = {AsKind("user", n), AsKind("chat", n), AsKind("channel", n)} OBVIOUS
<1>3. PICK is : is = {i \in DOMAIN rows : PeerId(rows[i].peer) \in guesses} OBVIOUS
<1>4. g = FirstRow(is) BY <1>1, <1>2, <1>3 DEF RowOfId
<1>5. g = Nobody \/ \E i \in is : g = rows[i].peer BY <1>3, <1>4, FirstRows
<1>6. ASSUME NEW i \in is, g = rows[i].peer PROVE g \in RowPeers(rows) /\ g.id = p.id
  <2>1. i \in DOMAIN rows /\ PeerId(rows[i].peer) \in guesses BY <1>3
  <2>2. rows[i].peer \in Peers
    <3>1. rows[i] \in RowsOf BY <2>1
    <3> QED BY <3>1 DEF RowsOf
  <2>3. PeerId(g) \in Guesses(n) BY <1>2, <1>6, <2>1 DEF Guesses
  <2>4. g.id = p.id BY <1>1, <1>6, <2>2, <2>3, Guessed
  <2> QED BY <1>6, <2>1, <2>4 DEF RowPeers
<1> QED BY <1>5, <1>6

\* What is asked for.
LEMMA KeysAre ==
    ASSUME NEW key \in EntityLikes
    PROVE  /\ key.by \in {"peer", "number", "username", "me"}
           /\ key.by = "peer" => key.peer \in Peers
           /\ key.by = "number" => \E p \in Peers : key.number = PeerId(p)
<1>1. \A b, p, n : Key(b, p, n).by = b /\ Key(b, p, n).peer = p /\ Key(b, p, n).number = n
  BY DEF Key
<1>2. CASE \E p \in Peers : key = Key("peer", p, 0) BY <1>1, <1>2
<1>3. CASE \E p \in Peers : key = Key("number", Nobody, PeerId(p)) BY <1>1, <1>3
<1>4. CASE key = Key("username", Nobody, 0) \/ key = Key("me", Nobody, 0) BY <1>1, <1>4
<1> QED BY <1>2, <1>3, <1>4 DEF EntityLikes

\* What a key is resolved to.
Suits(key, x, K) ==
    /\ key.by = "peer" => x.id = key.peer.id /\ (key.peer \in K => x = key.peer)
    /\ key.by = "number" => /\ x.id = ResolveId(key.number).id \/ TakenByName(x)
                            /\ ResolveId(key.number) \in K => x = ResolveId(key.number)
    /\ key.by = "me" => x = Me
InFull(x, rs) == x.kind = "chat" \/ x = Me \/ x \in RowPeers(rs)

Resolvable == /\ rows \in Seq(RowsOf) /\ cached \subseteq Peers /\ cached \subseteq RowPeers(rows)
              /\ known \subseteq cached

LEMMA RowsArePeers == ASSUME rows \in Seq(RowsOf) PROVE RowPeers(rows) \subseteq Peers
<1>1. ASSUME NEW i \in DOMAIN rows PROVE rows[i].peer \in Peers
  <2>1. rows[i] \in RowsOf OBVIOUS
  <2> QED BY <2>1 DEF RowsOf
<1> QED BY <1>1 DEF RowPeers

\* A read of the rows by display name.
LEMMA RowsByName ==
    ASSUME rows \in Seq(RowsOf), NEW g, g = RowOfDisplayName
    PROVE  g = Nobody \/ (g \in RowPeers(rows) /\ TakenByName(g))
<1>1. PICK is : is = {i \in DOMAIN rows : rows[i].peer \in call.namesakes} OBVIOUS
<1>2. g = FirstRow(is) BY <1>1 DEF RowOfDisplayName
<1>3. g = Nobody \/ \E i \in is : g = rows[i].peer BY <1>1, <1>2, FirstRows
<1> QED BY <1>1, <1>3 DEF RowPeers, TakenByName

LEMMA FoundSuits ==
    ASSUME Resolvable, NEW key \in EntityLikes, NEW x, x = Found(key)
    PROVE  /\ x = Nobody \/ (x \in Peers /\ Suits(key, x, known) /\ InFull(x, rows))
           /\ key.by = "me" => x # Nobody
<1>1. Me # Nobody BY MeIsPeer, PeersAre
<1>2. cached \subseteq Peers /\ cached \subseteq RowPeers(rows) /\ known \subseteq cached
      /\ RowPeers(rows) \subseteq Peers /\ rows \in Seq(RowsOf)
  BY RowsArePeers DEF Resolvable
<1>3. (x = Nobody /\ key.by = "username") \/ x = Locally(key) BY DEF Found
<1>4. CASE key.by = "peer"
  <2>1. PICK p \in Peers : p = key.peer BY <1>4, KeysAre
  <2>2. x = IF p.kind = "chat" THEN p ELSE CacheGet(PeerId(p)) BY <1>3, <1>4, <2>1 DEF Locally
  <2>3. CASE p.kind = "chat" BY <1>4, <2>1, <2>2, <2>3 DEF Suits, InFull
  <2>4. CASE p.kind # "chat"
    <3>1. x = CacheGet(PeerId(p)) BY <2>2, <2>4
    <3>2. /\ x = Nobody \/ (x \in cached /\ x.id = p.id)
          /\ p \in cached => x = p
      BY <1>2, <3>1, CacheGets
    <3> QED BY <1>2, <1>4, <2>1, <3>2 DEF Suits, InFull
  <2> QED BY <2>3, <2>4
<1>5. CASE key.by = "number"
  <2>1. PICK p \in Peers : key.number = PeerId(p) BY <1>5, KeysAre
  <2>2. PICK c, r, d : /\ c = CacheGet(PeerId(p)) /\ r = RowOfId(PeerId(p))
                       /\ d = RowOfDisplayName
    OBVIOUS
  <2>3. x = IF c # Nobody THEN c ELSE IF r # Nobody THEN r ELSE d
    BY <1>3, <1>5, <2>1, <2>2 DEF Locally, OrElse
  <2>4. /\ c = Nobody \/ (c \in cached /\ c.id = p.id)
        /\ p \in cached => c = p
    BY <1>2, <2>2, CacheGets
  <2>5. r = Nobody \/ (r \in RowPeers(rows) /\ r.id = p.id) BY <1>2, <2>2, RowsById
  <2>6. d = Nobody \/ (d \in RowPeers(rows) /\ TakenByName(d)) BY <1>2, <2>2, RowsByName
  <2>7. x = Nobody \/ (x \in RowPeers(rows) /\ (x.id = p.id \/ TakenByName(x)))
    BY <1>2, <2>3, <2>4, <2>5, <2>6
  <2>8. p \in known => x = p
    <3>1. p # Nobody BY PeersAre
    <3> QED BY <1>2, <2>3, <2>4, <3>1
  <2>9. ResolveId(key.number) = p BY <2>1, Marks
  <2> QED BY <1>2, <1>5, <2>7, <2>8, <2>9 DEF Suits, InFull
<1>6. CASE key.by = "me"
  <2>1. x = Me BY <1>3, <1>6 DEF Locally
  <2> QED BY <1>1, <1>6, <2>1, MeIsPeer DEF Suits, InFull
<1>7. CASE key.by = "username"
  <2>1. x = Nobody \/ x = RowOfName \/ x = RowOfDisplayName BY <1>3, <1>7 DEF Locally, OrElse
  <2>2. PICK is : is = {i \in DOMAIN rows : rows[i].named} OBVIOUS
  <2>3. RowOfName = Nobody \/ \E i \in is : RowOfName = rows[i].peer
    BY <1>2, <2>2, FirstRows DEF RowOfName
  <2>4. RowOfDisplayName = Nobody \/ RowOfDisplayName \in RowPeers(rows) BY <1>2, RowsByName
  <2>5. x = Nobody \/ x \in RowPeers(rows) BY <2>1, <2>2, <2>3, <2>4 DEF RowPeers
  <2> QED BY <1>2, <1>7, <2>5 DEF Suits, InFull
<1> QED BY <1>4, <1>5, <1>6, <1>7, KeysAre

\* What the network is asked about, and a chat that needs no hash.
LEMMA TargetSuits ==
    ASSUME NEW key \in EntityLikes, key.by # "me", NEW x, x = Target(key)
    PROVE  Suits(key, x, known)
<1>1. CASE key.by = "peer" BY <1>1 DEF Suits, Target
<1>2. CASE key.by = "number" BY <1>2 DEF Suits, Target
<1>3. CASE key.by = "username" BY <1>3 DEF Suits
<1> QED BY <1>1, <1>2, <1>3, KeysAre

LEMMA ChatSuits ==
    ASSUME NEW key \in EntityLikes, key.by = "number",
           NEW x, x = ResolveId(key.number), x.kind = "chat"
    PROVE  x \in Peers /\ Suits(key, x, known) /\ InFull(x, rows)
<1>1. PICK p \in Peers : key.number = PeerId(p) BY KeysAre
<1>2. x = p BY <1>1, Marks
<1> QED BY <1>2 DEF Suits, InFull

-----------------------------------------------------------------------------
\* A row that is written.
LEMMA RowWritten ==
    ASSUME rows \in Seq(RowsOf), \A i, j \in DOMAIN rows : rows[i].peer = rows[j].peer => i = j,
           NEW p \in Peers, NEW t, t = WithRow(rows, p)
    PROVE  /\ t \in Seq(RowsOf) /\ \A i, j \in DOMAIN t : t[i].peer = t[j].peer => i = j
           /\ RowPeers(t) = RowPeers(rows) \cup {p}
<1>1. PICK n \in Nat : n = Len(rows) /\ DOMAIN rows = 1 .. n OBVIOUS
<1>2. PICK row : row = [peer |-> p, named |-> owner = p] OBVIOUS
<1>3. row \in RowsOf /\ row.peer = p
  <2>1. (owner = p) \in BOOLEAN OBVIOUS
  <2>2. row.peer = p BY <1>2
  <2> QED BY <1>2, <2>1, <2>2 DEF RowsOf
<1>4. \A i \in 1 .. n : rows[i] \in RowsOf BY <1>1
<1>5. CASE \E i \in DOMAIN rows : rows[i].peer = p
  <2>1. t = [i \in 1 .. n |-> IF rows[i].peer = p THEN row ELSE rows[i]]
    BY <1>1, <1>2, <1>5 DEF WithRow
  <2>2. \A i \in 1 .. n : t[i] \in RowsOf BY <1>3, <1>4, <2>1
  <2>3. t \in [1 .. n -> RowsOf] BY <2>1, <2>2
  <2>4. t \in Seq(RowsOf) /\ DOMAIN t = 1 .. n BY <2>3
  <2>5. \A i \in 1 .. n : t[i].peer = rows[i].peer BY <1>3, <2>1
  <2>6. RowPeers(t) = RowPeers(rows) BY <1>1, <2>4, <2>5 DEF RowPeers
  <2>7. p \in RowPeers(rows) BY <1>5 DEF RowPeers
  <2> QED BY <1>1, <2>4, <2>5, <2>6, <2>7
<1>6. CASE ~\E i \in DOMAIN rows : rows[i].peer = p
  <2>1. t = Append(rows, row) BY <1>2, <1>6 DEF WithRow
  <2>2. /\ t \in Seq(RowsOf) /\ Len(t) = n + 1 /\ t[n + 1] = row
        /\ \A i \in 1 .. n : t[i] = rows[i]
    BY <1>1, <1>3, <2>1, AppendProperties
  <2>3. DOMAIN t = 1 .. n + 1 BY <2>2
  <2>4. ASSUME NEW i \in DOMAIN t
        PROVE  \/ i \in 1 .. n /\ t[i].peer = rows[i].peer /\ t[i].peer # p
               \/ i = n + 1 /\ t[i].peer = p
    <3>1. CASE i \in 1 .. n
      <4>1. t[i] = rows[i] BY <2>2, <3>1
      <4>2. rows[i].peer # p BY <1>1, <1>6, <3>1
      <4>3. t[i].peer = rows[i].peer /\ t[i].peer # p BY <4>1, <4>2
      <4> QED BY <3>1, <4>3
    <3>2. CASE i = n + 1 BY <1>3, <2>2, <3>2
    <3> QED BY <2>3, <3>1, <3>2
  <2>5. \A i, j \in DOMAIN t : t[i].peer = t[j].peer => i = j BY <1>1, <2>4
  <2>6. RowPeers(t) \subseteq RowPeers(rows) \cup {p} BY <1>1, <2>4 DEF RowPeers
  <2>7. p \in RowPeers(t)
    <3>1. n + 1 \in DOMAIN t BY <2>3
    <3> QED BY <1>3, <2>2, <3>1 DEF RowPeers
  <2>8. RowPeers(rows) \subseteq RowPeers(t)
    <3>1. ASSUME NEW i \in 1 .. n PROVE i \in DOMAIN t /\ t[i].peer = rows[i].peer BY <2>2, <2>3
    <3> QED BY <1>1, <3>1 DEF RowPeers
  <2> QED BY <2>2, <2>5, <2>6, <2>7, <2>8
<1> QED BY <1>5, <1>6

-----------------------------------------------------------------------------
\* How far a call is.
Progress ==
    /\ stage = "idle" => inputs = <<>>
    /\ stage \in {"resolve", "network"} => Len(inputs) < Len(call.keys)
    /\ stage \in {"fetch", "done"} => Len(inputs) = Len(call.keys)
    /\ stage = "network" => NextKey.by # "me"

InputsFit ==
    \A i \in DOMAIN inputs : Suits(call.keys[i], inputs[i], known) /\ InFull(inputs[i], rows)

EntitiesInv == EntitiesTypeOK /\ Resolvable /\ Progress /\ InputsFit /\ ResultFits

LEMMA EntitiesFit == ASSUME EntitiesInv PROVE EntitiesMatch
<1>1. InputsFit /\ ResultFits BY DEF EntitiesInv
<1>2. RightId
  <2>1. SUFFICES ASSUME NEW i \in DOMAIN inputs, NEW key, key = call.keys[i]
                 PROVE  /\ key.by = "peer" => /\ inputs[i].id = key.peer.id
                                              /\ key.peer \in known => inputs[i] = key.peer
                        /\ key.by = "number" =>
                              /\ inputs[i].id = ResolveId(key.number).id \/ TakenByName(inputs[i])
                              /\ ResolveId(key.number) \in known =>
                                    inputs[i] = ResolveId(key.number)
                        /\ key.by = "me" => inputs[i] = Me
    BY DEF RightId
  <2> QED BY <1>1, <2>1 DEF InputsFit, Suits
<1>3. HashIsFull BY <1>1 DEF HashIsFull, InputsFit, InFull, RowPeers
<1> QED BY <1>1, <1>2, <1>3 DEF EntitiesMatch

\* A peer that is learnt has a row, and no peer loses its own.
LEMMA Learnt ==
    ASSUME EntitiesTypeOK, Resolvable, NEW p \in Peers, NEW min \in BOOLEAN, Learn(p, min)
    PROVE  /\ rows' \in Seq(RowsOf)
           /\ \A i, j \in DOMAIN rows' : rows'[i].peer = rows'[j].peer => i = j
           /\ cached' \subseteq Peers /\ cached' \subseteq RowPeers(rows') /\ cached \subseteq cached'
           /\ RowPeers(rows) \subseteq RowPeers(rows')
           /\ ~min => p \in RowPeers(rows')
<1>1. /\ rows \in Seq(RowsOf) /\ \A i, j \in DOMAIN rows : rows[i].peer = rows[j].peer => i = j
      /\ cached \subseteq Peers /\ cached \subseteq RowPeers(rows)
  BY DEF EntitiesTypeOK, Resolvable, RowsOf
<1>2. CASE min /\ p.kind # "chat"
  <2>1. cached' = cached /\ rows' = rows BY <1>2 DEF Learn
  <2> QED BY <1>1, <1>2, <2>1
<1>3. CASE ~(min /\ p.kind # "chat")
  <2>1. cached' = cached \cup {p} /\ rows' = WithRow(rows, p) BY <1>3 DEF Learn
  <2>2. PICK t : t = WithRow(rows, p) OBVIOUS
  <2>3. /\ t \in Seq(RowsOf) /\ \A i, j \in DOMAIN t : t[i].peer = t[j].peer => i = j
        /\ RowPeers(t) = RowPeers(rows) \cup {p}
    BY <1>1, <2>2, RowWritten
  <2>4. rows' = t BY <2>1, <2>2
  <2> QED BY <1>1, <2>1, <2>3, <2>4
<1> QED BY <1>2, <1>3

\* What was resolved stays right when rows come and when less is known.
LEMMA FitKept ==
    ASSUME InputsFit, UNCHANGED <<call, inputs>>, known' \subseteq known,
           RowPeers(rows) \subseteq RowPeers(rows')
    PROVE  InputsFit'
<1>1. ASSUME NEW i \in DOMAIN inputs
      PROVE  Suits(call.keys[i], inputs[i], known)' /\ InFull(inputs[i], rows)'
  <2>1. Suits(call.keys[i], inputs[i], known) /\ InFull(inputs[i], rows) BY DEF InputsFit
  <2>2. Suits(call.keys[i], inputs[i], known)' BY <2>1 DEF Suits, TakenByName
  <2>3. InFull(inputs[i], rows)' BY <2>1 DEF InFull
  <2> QED BY <2>2, <2>3
<1> QED BY <1>1 DEF InputsFit

\* One more key is resolved.
LEMMA OneTook ==
    ASSUME EntitiesInv, stage \in {"resolve", "network"}, NEW p \in Peers, Took(p),
           UNCHANGED <<call, gathered, known>>, RowPeers(rows) \subseteq RowPeers(rows'),
           Suits(NextKey, p, known), InFull(p, rows')
    PROVE  /\ inputs' \in Seq(Peers) /\ Len(inputs') <= Len(call.keys')
           /\ stage' \in {"resolve", "fetch", "done"}
           /\ Progress' /\ InputsFit' /\ ResultFits'
<1>1. PICK n \in Nat, m \in Nat : n = Len(inputs) /\ m = Len(call.keys)
  BY DEF EntitiesInv, EntitiesTypeOK
<1>2. n < m BY <1>1 DEF EntitiesInv, Progress
<1>3. inputs \in Seq(Peers) BY DEF EntitiesInv, EntitiesTypeOK
<1>4. PICK s : s = inputs' OBVIOUS
<1>5. s = Append(inputs, p) BY <1>4 DEF Took
<1>6. s \in Seq(Peers) /\ Len(s) = n + 1 /\ s[n + 1] = p /\ \A i \in 1 .. n : s[i] = inputs[i]
  BY <1>1, <1>3, <1>5, AppendProperties
<1>7. stage' = IF n + 1 < m THEN "resolve" ELSE IF call.entities THEN "fetch" ELSE "done"
  BY <1>1 DEF Took
<1>8. Len(inputs') = n + 1 /\ Len(call.keys') = m BY <1>1, <1>4, <1>6
<1>9. Progress'
  <2>1. CASE n + 1 < m
    <3>1. stage' = "resolve" BY <1>7, <2>1
    <3> QED BY <1>8, <2>1, <3>1 DEF Progress
  <2>2. CASE ~(n + 1 < m)
    <3>1. stage' \in {"fetch", "done"} BY <1>7, <2>2
    <3>2. n + 1 = m BY <1>2, <2>2
    <3> QED BY <1>8, <3>1, <3>2 DEF Progress
  <2> QED BY <2>1, <2>2
<1>10. InputsFit'
  <2>1. SUFFICES ASSUME NEW i \in DOMAIN s
                 PROVE  Suits(call.keys[i], s[i], known) /\ InFull(s[i], rows')
    BY <1>4 DEF InputsFit, Suits, TakenByName
  <2>2. CASE i \in 1 .. n
    <3>1. s[i] = inputs[i] /\ i \in DOMAIN inputs BY <1>1, <1>3, <1>6, <2>2
    <3>2. Suits(call.keys[i], inputs[i], known) /\ InFull(inputs[i], rows)
      BY <3>1 DEF EntitiesInv, InputsFit
    <3> QED BY <3>1, <3>2 DEF InFull
  <2>3. CASE i = n + 1
    <3>1. NextKey = call.keys[i] BY <1>1, <2>3 DEF NextKey
    <3> QED BY <1>6, <2>3, <3>1
  <2> QED BY <1>6, <2>2, <2>3
<1>11. ResultFits' BY <1>7 DEF ResultFits
<1> QED BY <1>2, <1>4, <1>6, <1>7, <1>8, <1>9, <1>10, <1>11

LEMMA EntitiesBegin == EntitiesInit => EntitiesInv
<1> SUFFICES ASSUME EntitiesInit PROVE EntitiesInv OBVIOUS
<1>1. /\ owner \in Named \cup {Nobody} /\ cached = {} /\ rows = <<>> /\ known = {}
      /\ inputs = <<>> /\ gathered = <<>> /\ stage = "idle"
      /\ call.entities = FALSE /\ call.keys = <<>> /\ call.namesakes = {}
  BY DEF EntitiesInit, NoCall
<1>2. rows \in Seq(RowsOf) /\ DOMAIN rows = {} BY <1>1
<1>3. EntitiesTypeOK
  <2>1. call.keys \in Seq(EntityLikes) /\ inputs \in Seq(Peers) /\ Len(inputs) <= Len(call.keys)
    BY <1>1
  <2> QED BY <1>1, <1>2, <2>1 DEF EntitiesTypeOK, RowsOf
<1>4. Resolvable BY <1>1, <1>2 DEF Resolvable
<1>5. Progress /\ InputsFit /\ ResultFits BY <1>1 DEF Progress, InputsFit, ResultFits
<1> QED BY <1>3, <1>4, <1>5 DEF EntitiesInv

LEMMA EntitiesParts ==
    ASSUME EntitiesInv
    PROVE  /\ owner \in Named \cup {Nobody} /\ cached \subseteq Peers /\ known \subseteq Peers
           /\ rows \in Seq(RowsOf) /\ \A i, j \in DOMAIN rows : rows[i].peer = rows[j].peer => i = j
           /\ call.entities \in BOOLEAN /\ call.keys \in Seq(EntityLikes)
           /\ call.namesakes \subseteq Peers
           /\ inputs \in Seq(Peers) /\ Len(inputs) <= Len(call.keys)
           /\ stage \in {"idle", "resolve", "network", "fetch", "done", "failed"}
           /\ cached \subseteq RowPeers(rows) /\ known \subseteq cached
           /\ Progress /\ InputsFit /\ ResultFits /\ Resolvable /\ EntitiesTypeOK
BY DEF EntitiesInv, EntitiesTypeOK, Resolvable, RowsOf

\* The key that is next.
LEMMA NextIsKey ==
    ASSUME EntitiesInv, stage \in {"resolve", "network"}
    PROVE  NextKey \in EntityLikes
<1>1. PICK n \in Nat, m \in Nat : n = Len(inputs) /\ m = Len(call.keys) BY EntitiesParts
<1>2. n < m BY <1>1, EntitiesParts DEF Progress
<1>3. n + 1 \in 1 .. m BY <1>2
<1>4. PICK ks \in Seq(EntityLikes) : ks = call.keys BY EntitiesParts
<1>5. ks[n + 1] \in EntityLikes BY <1>1, <1>3, <1>4
<1> QED BY <1>1, <1>4, <1>5 DEF NextKey

\* Steps that leave a call where it is.
LEMMA CallRests ==
    ASSUME EntitiesInv, UNCHANGED <<call, inputs, gathered, stage>>,
           owner' \in Named \cup {Nobody}, rows' \in Seq(RowsOf),
           \A i, j \in DOMAIN rows' : rows'[i].peer = rows'[j].peer => i = j,
           cached' \subseteq Peers, cached' \subseteq RowPeers(rows'),
           RowPeers(rows) \subseteq RowPeers(rows'),
           known' \subseteq known, known' \subseteq cached'
    PROVE  EntitiesInv'
<1>1. EntitiesTypeOK' BY EntitiesParts DEF EntitiesTypeOK, RowsOf
<1>2. Resolvable' BY DEF Resolvable
<1>3. InputsFit' BY EntitiesParts, FitKept
<1>4. Progress' BY EntitiesParts DEF Progress, NextKey
<1>5. ResultFits' BY EntitiesParts DEF ResultFits
<1> QED BY <1>1, <1>2, <1>3, <1>4, <1>5 DEF EntitiesInv

LEMMA SeeKeeps ==
    ASSUME EntitiesInv, NEW p \in Peers, NEW min \in BOOLEAN, See(p, min) PROVE EntitiesInv'
<1>1. Learn(p, min) /\ UNCHANGED <<owner, call, inputs, gathered, known, stage>> BY DEF See
<1>2. /\ rows' \in Seq(RowsOf)
      /\ \A i, j \in DOMAIN rows' : rows'[i].peer = rows'[j].peer => i = j
      /\ cached' \subseteq Peers /\ cached' \subseteq RowPeers(rows') /\ cached \subseteq cached'
      /\ RowPeers(rows) \subseteq RowPeers(rows')
  BY <1>1, Learnt, EntitiesParts
<1> QED BY <1>1, <1>2, CallRests, EntitiesParts

LEMMA EvictKeeps == ASSUME EntitiesInv, NEW p \in Peers, Evict(p) PROVE EntitiesInv'
<1>1. /\ cached' = cached \ {p} /\ known' = known \ {p}
      /\ UNCHANGED <<owner, rows, call, inputs, gathered, stage>>
  BY DEF Evict
<1>2. RowPeers(rows') = RowPeers(rows) /\ cached' \subseteq cached /\ known' \subseteq known
      /\ known' \subseteq cached'
  BY <1>1, EntitiesParts
<1> QED BY <1>1, <1>2, CallRests, EntitiesParts

LEMMA RenameKeeps == ASSUME EntitiesInv, NEW p \in Named, Rename(p) PROVE EntitiesInv'
<1>1. owner' = p /\ UNCHANGED <<cached, rows, call, inputs, gathered, known, stage>> BY DEF Rename
<1>2. RowPeers(rows') = RowPeers(rows) BY <1>1
<1> QED BY <1>1, <1>2, CallRests, EntitiesParts

LEMMA AskKeeps ==
    ASSUME EntitiesInv, NEW e \in BOOLEAN, NEW ks \in Seq(EntityLikes), Len(ks) > 0,
           NEW called \in SUBSET Peers, Ask(e, ks, called)
    PROVE  EntitiesInv'
<1>1. /\ stage = "idle" /\ known' = cached
      /\ call' = [entities |-> e, keys |-> ks, namesakes |-> called]
      /\ stage' = "resolve" /\ UNCHANGED <<owner, cached, rows, inputs, gathered>>
  BY DEF Ask
<1>2. inputs' = <<>> BY <1>1, EntitiesParts DEF Progress
<1>3. call'.entities = e /\ call'.keys = ks /\ call'.namesakes = called BY <1>1
<1>4. Len(inputs') = 0 /\ DOMAIN inputs' = {} /\ inputs' \in Seq(Peers) BY <1>2
<1>5. EntitiesTypeOK'
  <2>1. Len(inputs') <= Len(call'.keys) BY <1>3, <1>4
  <2> QED BY <1>1, <1>3, <1>4, <2>1, EntitiesParts DEF EntitiesTypeOK, RowsOf
<1>6. Resolvable' BY <1>1, EntitiesParts DEF Resolvable
<1>7. Progress' BY <1>1, <1>3, <1>4 DEF Progress
<1>8. InputsFit' BY <1>4 DEF InputsFit
<1>9. ResultFits' BY <1>1 DEF ResultFits
<1> QED BY <1>5, <1>6, <1>7, <1>8, <1>9 DEF EntitiesInv

\* A key is resolved, with or without the network.
LEMMA TookKeeps ==
    ASSUME EntitiesInv, stage \in {"resolve", "network"}, NEW p \in Peers, Took(p),
           UNCHANGED <<owner, call, gathered, known>>, Suits(NextKey, p, known), InFull(p, rows'),
           rows' \in Seq(RowsOf),
           \A i, j \in DOMAIN rows' : rows'[i].peer = rows'[j].peer => i = j,
           cached' \subseteq Peers, cached' \subseteq RowPeers(rows'), cached \subseteq cached',
           RowPeers(rows) \subseteq RowPeers(rows')
    PROVE  EntitiesInv'
<1>1. /\ inputs' \in Seq(Peers) /\ Len(inputs') <= Len(call.keys')
      /\ stage' \in {"resolve", "fetch", "done"}
      /\ Progress' /\ InputsFit' /\ ResultFits'
  BY OneTook
<1>2. EntitiesTypeOK' BY <1>1, EntitiesParts DEF EntitiesTypeOK, RowsOf
<1>3. Resolvable' BY EntitiesParts DEF Resolvable
<1> QED BY <1>1, <1>2, <1>3 DEF EntitiesInv

\* The stages at which nothing is resolved.
LEMMA StageKeeps ==
    ASSUME EntitiesInv, UNCHANGED <<owner, cached, rows, call, inputs, known>>,
           stage' \in {"network", "done", "failed"},
           stage' = "network" => Len(inputs) < Len(call.keys) /\ NextKey.by # "me",
           stage' = "done" => Len(inputs) = Len(call.keys),
           ResultFits'
    PROVE  EntitiesInv'
<1>1. EntitiesTypeOK' BY EntitiesParts DEF EntitiesTypeOK, RowsOf
<1>2. Resolvable' BY EntitiesParts DEF Resolvable
<1>3. InputsFit' BY EntitiesParts, FitKept
<1>4. NextKey' = NextKey BY DEF NextKey
<1>5. Progress' BY <1>4 DEF Progress
<1> QED BY <1>1, <1>2, <1>3, <1>5 DEF EntitiesInv

LEMMA ResolveKeeps == ASSUME EntitiesInv, Resolve PROVE EntitiesInv'
<1>1. /\ stage = "resolve" /\ UNCHANGED <<owner, cached, rows, call, gathered, known>>
  BY DEF Resolve
<1>2. NextKey \in EntityLikes BY <1>1, NextIsKey
<1>3. PICK x, c : x = Found(NextKey) /\ c = ResolveId(NextKey.number) OBVIOUS
<1>4. /\ x = Nobody \/ (x \in Peers /\ Suits(NextKey, x, known) /\ InFull(x, rows))
      /\ NextKey.by = "me" => x # Nobody
  BY <1>2, <1>3, FoundSuits, EntitiesParts
<1>5. RowPeers(rows') = RowPeers(rows) BY <1>1
<1>6. ASSUME NEW p \in Peers, Took(p), Suits(NextKey, p, known), InFull(p, rows)
      PROVE  EntitiesInv'
  <2>1. InFull(p, rows') BY <1>1, <1>6
  <2> QED BY <1>1, <1>5, <1>6, <2>1, TookKeeps, EntitiesParts
<1>7. CASE x # Nobody
  <2>1. Took(x) BY <1>3, <1>7 DEF Resolve
  <2> QED BY <1>4, <1>6, <1>7, <2>1
<1>8. CASE x = Nobody /\ NextKey.by = "number" /\ c.kind = "chat"
  <2>1. Took(c) BY <1>3, <1>8 DEF Resolve
  <2>2. c \in Peers /\ Suits(NextKey, c, known) /\ InFull(c, rows) BY <1>2, <1>3, <1>8, ChatSuits
  <2> QED BY <1>6, <2>1, <2>2
<1>9. CASE x = Nobody /\ ~(NextKey.by = "number" /\ c.kind = "chat")
  <2>1. stage' = "network" /\ UNCHANGED inputs BY <1>3, <1>9 DEF Resolve
  <2>2. Len(inputs) < Len(call.keys) BY <1>1, EntitiesParts DEF Progress
  <2>3. NextKey.by # "me" BY <1>4, <1>9
  <2>4. ResultFits' BY <2>1 DEF ResultFits
  <2> QED BY <1>1, <2>1, <2>2, <2>3, <2>4, StageKeeps
<1> QED BY <1>7, <1>8, <1>9

LEMMA NetworkKeeps == ASSUME EntitiesInv, Network PROVE EntitiesInv'
<1>1. PICK p \in Peers : p = Target(NextKey) BY DEF Network
<1>2. /\ stage = "network" /\ Learn(p, FALSE) /\ Took(p) /\ UNCHANGED <<owner, call, gathered, known>>
  BY <1>1 DEF Network
<1>3. NextKey \in EntityLikes /\ NextKey.by # "me" BY <1>2, NextIsKey, EntitiesParts DEF Progress
<1>4. Suits(NextKey, p, known) BY <1>1, <1>3, TargetSuits
<1>5. /\ rows' \in Seq(RowsOf)
      /\ \A i, j \in DOMAIN rows' : rows'[i].peer = rows'[j].peer => i = j
      /\ cached' \subseteq Peers /\ cached' \subseteq RowPeers(rows') /\ cached \subseteq cached'
      /\ RowPeers(rows) \subseteq RowPeers(rows') /\ p \in RowPeers(rows')
  BY <1>2, Learnt, EntitiesParts
<1>6. InFull(p, rows') BY <1>5 DEF InFull
<1> QED BY <1>2, <1>4, <1>5, <1>6, TookKeeps

LEMMA FailureKeeps == ASSUME EntitiesInv, NetworkFails \/ FetchFails PROVE EntitiesInv'
<1>1. stage' = "failed" /\ UNCHANGED <<owner, cached, rows, call, inputs, known>>
  BY DEF NetworkFails, FetchFails
<1>2. ResultFits' BY <1>1 DEF ResultFits
<1> QED BY <1>1, <1>2, StageKeeps

\* Among what was given, a mark is that of one peer.
LEMMA OneEntity ==
    ASSUME NEW S \in SUBSET Peers, NEW p \in S
    PROVE  EntityOf(S, p) = p
<1>1. {e \in S : PeerId(e) = PeerId(p)} = {p}
  <2>1. ASSUME NEW e \in S, PeerId(e) = PeerId(p) PROVE e = p BY <2>1, MarksApart
  <2> QED BY <2>1
<1>2. PICK x : x = LastPut({p}) OBVIOUS
<1>3. PutAt(p.kind) \in Nat /\ PutAt(p.kind) > PutAt(Nobody.kind) /\ PutAt(Nobody.kind) = 0
  <2>1. Nobody.kind = "nobody" BY DEF Nobody, PeerOf
  <2>2. PutAt("nobody") = 0 /\ PutAt("user") = 1 /\ PutAt("channel") = 2 /\ PutAt("chat") = 3
    BY DEF PutAt
  <2>3. p.kind = "user" \/ p.kind = "chat" \/ p.kind = "channel" BY PeersAre
  <2> QED BY <2>1, <2>2, <2>3
<1>4. x = CHOOSE e \in {p, Nobody} : PutAt(p.kind) <= PutAt(e.kind)
  <2>1. {p} \cup {Nobody} = {p, Nobody} OBVIOUS
  <2> QED BY <1>2, <2>1 DEF LastPut
<1>5. PutAt(p.kind) <= PutAt(p.kind) BY <1>3
<1>6. x \in {p, Nobody} /\ PutAt(p.kind) <= PutAt(x.kind) BY <1>4, <1>5
<1>7. x = p
  <2>1. CASE x = Nobody
    <3>1. PutAt(p.kind) <= PutAt(Nobody.kind) BY <1>6, <2>1
    <3> QED BY <1>3, <3>1
  <2> QED BY <1>6, <2>1
<1> QED BY <1>1, <1>2, <1>7 DEF EntityOf, ByMarkedId

LEMMA FetchKeeps == ASSUME EntitiesInv, Fetch PROVE EntitiesInv'
<1>1. PICK S : S = {inputs[k] : k \in DOMAIN inputs} OBVIOUS
<1>2. /\ stage = "fetch" /\ stage' = "done" /\ UNCHANGED <<owner, cached, rows, call, inputs, known>>
      /\ gathered' = [i \in DOMAIN inputs |-> EntityOf(S, inputs[i])]
  BY <1>1 DEF Fetch
<1>3. inputs \in Seq(Peers) BY EntitiesParts
<1>4. S \in SUBSET Peers BY <1>1, <1>3
<1>5. ASSUME NEW i \in DOMAIN inputs PROVE gathered'[i] = inputs[i]
  <2>1. inputs[i] \in S BY <1>1
  <2>2. EntityOf(S, inputs[i]) = inputs[i] BY <1>4, <2>1, OneEntity
  <2> QED BY <1>2, <2>2
<1>6. Len(inputs) = Len(call.keys) BY <1>2, EntitiesParts DEF Progress
<1>7. DOMAIN gathered' = DOMAIN inputs /\ gathered' = inputs
  <2>1. DOMAIN gathered' = DOMAIN inputs BY <1>2
  <2>2. inputs = [i \in DOMAIN inputs |-> inputs[i]] BY <1>3
  <2>3. gathered' = [i \in DOMAIN inputs |-> gathered'[i]] BY <1>2
  <2> QED BY <1>5, <2>1, <2>2, <2>3
<1>8. ResultFits' BY <1>2, <1>6, <1>7 DEF ResultFits
<1> QED BY <1>2, <1>6, <1>8, StageKeeps

LEMMA EntitiesStep == EntitiesInv /\ [EntitiesNext]_entitiesVars => EntitiesInv'
<1> SUFFICES ASSUME EntitiesInv, [EntitiesNext]_entitiesVars PROVE EntitiesInv' OBVIOUS
<1>1. CASE \E p \in Peers : \E min \in BOOLEAN : See(p, min) BY <1>1, SeeKeeps
<1>2. CASE \E p \in Peers : Evict(p) BY <1>2, EvictKeeps
<1>3. CASE \E p \in Named : Rename(p) BY <1>3, RenameKeeps
<1>4. CASE \E k \in EntityLikes : \E called \in Namesakes(k) : Ask(FALSE, <<k>>, called)
  <2>1. PICK k \in EntityLikes, called \in SUBSET Peers : Ask(FALSE, <<k>>, called)
    BY <1>4 DEF Namesakes
  <2>2. <<k>> \in Seq(EntityLikes) /\ Len(<<k>>) > 0 OBVIOUS
  <2> QED BY <2>1, <2>2, AskKeeps
<1>5. CASE \E j, k \in {x \in EntityLikes : x.by # "number"} : j # k /\ Ask(TRUE, <<j, k>>, {})
  <2>1. PICK j \in EntityLikes, k \in EntityLikes : Ask(TRUE, <<j, k>>, {}) BY <1>5
  <2>2. <<j, k>> \in Seq(EntityLikes) /\ Len(<<j, k>>) > 0 OBVIOUS
  <2>3. {} \in SUBSET Peers /\ TRUE \in BOOLEAN OBVIOUS
  <2>4. PICK ks : ks = <<j, k>> OBVIOUS
  <2>5. ks \in Seq(EntityLikes) /\ Len(ks) > 0 /\ Ask(TRUE, ks, {}) BY <2>1, <2>2, <2>4
  <2> QED BY <2>3, <2>5, AskKeeps
<1>6. CASE Resolve BY <1>6, ResolveKeeps
<1>7. CASE Network BY <1>7, NetworkKeeps
<1>8. CASE NetworkFails \/ FetchFails BY <1>8, FailureKeeps
<1>9. CASE Fetch BY <1>9, FetchKeeps
<1>10. CASE UNCHANGED entitiesVars
  <2>1. UNCHANGED <<owner, cached, rows, call, inputs, gathered, known, stage>>
    BY <1>10 DEF entitiesVars
  <2>2. RowPeers(rows') = RowPeers(rows) BY <2>1
  <2> QED BY <2>1, <2>2, CallRests, EntitiesParts
<1> QED BY <1>1, <1>2, <1>3, <1>4, <1>5, <1>6, <1>7, <1>8, <1>9, <1>10 DEF EntitiesNext

\* A peer and a number are resolved to what they mark if the cache knows it, a number to a peer
\* with its id or one whose display name it is, and "me" to the account, with a hash that was told
\* in full; and getEntity gives for each of its keys what it was resolved to, for any number of peers and
\* whatever came, went and changed its name before and meanwhile (users.ts:247-542, entityCache.ts:216-244, Memory.ts:129-333).
THEOREM EntitiesResolved == EntitiesSpec => []EntitiesMatch
<1> QED BY EntitiesBegin, EntitiesStep, EntitiesFit, PTL DEF EntitiesSpec

=============================================================================
