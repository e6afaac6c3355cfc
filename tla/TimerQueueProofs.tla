-------------------------- MODULE TimerQueueProofs --------------------------
(***************************************************************************)
(* The list of timer.c is right for every number of timers, every delay,   *)
(* every fixed-point format and every clock rate.  The operations on the   *)
(* list are proved once, as lemmas on sequences; every action of           *)
(* TimerQueue is then one of them plus some flags.                         *)
(***************************************************************************)
EXTENDS TimerQueue, SequenceTheorems, WellFoundedInduction, TLAPS

-----------------------------------------------------------------------------
\* A nonempty set of natural numbers has a least element.
LEMMA LeastNat ==
  ASSUME NEW T, T \subseteq Nat, T # {}
  PROVE  \E x \in T : \A y \in T : x <= y
  <1> DEFINE R == OpToRel(<, Nat)
  <1>1. PICK x \in T : \A y \in T : ~(<<y, x>> \in R)
    <2>1. IsWellFoundedOn(R, Nat)
      BY NatLessThanWellFounded
    <2> HIDE DEF R
    <2> QED BY <2>1, WFMin
  <1>2. ASSUME NEW y \in T PROVE x <= y
    <2>1. <<y, x>> \in Nat \X Nat /\ <<y, x>>[1] = y /\ <<y, x>>[2] = x
      OBVIOUS
    <2>2. ~(y < x)
      BY <1>1, <2>1 DEF OpToRel
    <2> QED BY <2>2
  <1> QED BY <1>2

-----------------------------------------------------------------------------
(* Sequences.                                                              *)

\* What inserting an element into a sequence yields, element by element.
LEMMA InsertAtElements ==
  ASSUME NEW S, NEW q \in Seq(S), NEW e \in S, NEW k \in 1..(Len(q) + 1)
  PROVE  /\ InsertAt(q, k, e) \in Seq(S)
         /\ Len(InsertAt(q, k, e)) = Len(q) + 1
         /\ \A i \in 1..(Len(q) + 1) :
              InsertAt(q, k, e)[i] = IF i < k THEN q[i]
                                     ELSE IF i = k THEN e ELSE q[i - 1]
  <1> DEFINE a == SubSeq(q, 1, k - 1)
             b == SubSeq(q, k, Len(q))
             one == <<e>>
             ae == a \o one
  <1>0. Len(q) \in Nat /\ \A i \in 1..Len(q) : q[i] \in S
    BY LenProperties, ElementOfSeq
  <1>1. /\ a \in Seq(S) /\ Len(a) = k - 1
        /\ \A i \in 1..(k - 1) : a[i] = q[i]
    <2>1. \A i \in 1..(k - 1) : q[i] \in S
      BY <1>0
    <2>2. /\ a \in Seq(S)
          /\ Len(a) = IF 1 <= k - 1 THEN (k - 1) - 1 + 1 ELSE 0
          /\ \A i \in 1..((k - 1) - 1 + 1) : a[i] = q[1 + i - 1]
      BY <1>0, <2>1, SubSeqProperties
    <2> QED BY <2>2, <1>0
  <1>2. /\ b \in Seq(S) /\ Len(b) = Len(q) - k + 1
        /\ \A i \in 1..(Len(q) - k + 1) : b[i] = q[k + i - 1]
    <2>1. \A i \in k..Len(q) : q[i] \in S
      BY <1>0
    <2>2. /\ b \in Seq(S)
          /\ Len(b) = IF k <= Len(q) THEN Len(q) - k + 1 ELSE 0
          /\ \A i \in 1..(Len(q) - k + 1) : b[i] = q[k + i - 1]
      BY <1>0, <2>1, SubSeqProperties
    <2> QED BY <2>2, <1>0
  <1>3. one \in Seq(S) /\ Len(one) = 1 /\ one[1] = e
    OBVIOUS
  <1> HIDE DEF a, b, one
  <1>4. /\ ae \in Seq(S) /\ Len(ae) = k
        /\ \A i \in 1..k : ae[i] = IF i < k THEN q[i] ELSE e
    <2>1. /\ ae \in Seq(S)
          /\ Len(ae) = Len(a) + Len(one)
          /\ \A i \in 1..(Len(a) + Len(one)) :
               ae[i] = IF i <= Len(a) THEN a[i] ELSE one[i - Len(a)]
      BY <1>1, <1>3, ConcatProperties
    <2> HIDE DEF ae
    <2>2. \A i \in 1..k : ae[i] = IF i <= k - 1 THEN a[i] ELSE one[i - (k - 1)]
      BY <2>1, <1>1, <1>3, <1>0
    <2>3. \A i \in 1..k : i <= k - 1 \/ (i = k /\ i - (k - 1) = 1)
      BY <1>0
    <2> QED BY <2>1, <2>2, <2>3, <1>1, <1>3, <1>0
  <1> HIDE DEF ae
  <1>5. /\ ae \o b \in Seq(S)
        /\ Len(ae \o b) = Len(ae) + Len(b)
        /\ \A i \in 1..(Len(ae) + Len(b)) :
             (ae \o b)[i] = IF i <= Len(ae) THEN ae[i] ELSE b[i - Len(ae)]
    BY <1>4, <1>2, ConcatProperties
  <1>6. InsertAt(q, k, e) = ae \o b
    BY DEF InsertAt, ae, a, b, one
  <1> DEFINE r == InsertAt(q, k, e)
  <1>7. /\ r \in Seq(S) /\ Len(r) = k + (Len(q) - k + 1)
        /\ \A i \in 1..(k + (Len(q) - k + 1)) :
             r[i] = IF i <= k THEN ae[i] ELSE b[i - k]
    BY <1>2, <1>4, <1>5, <1>6
  <1> HIDE DEF r
  <1>8. \A i \in 1..(Len(q) + 1) :
          r[i] = IF i < k THEN q[i] ELSE IF i = k THEN e ELSE q[i - 1]
    <2> TAKE i \in 1..(Len(q) + 1)
    <2>1. CASE i <= k
      BY <2>1, <1>0, <1>4, <1>7
    <2>2. CASE i > k
      <3>1. r[i] = b[i - k] /\ i - k \in 1..(Len(q) - k + 1)
        BY <2>2, <1>0, <1>7
      <3>2. b[i - k] = q[k + (i - k) - 1]
        BY <3>1, <1>2
      <3> QED BY <3>1, <3>2, <2>2, <1>0
    <2> QED BY <2>1, <2>2, <1>0
  <1>9. Len(r) = Len(q) + 1
    BY <1>7, <1>0
  <1> QED BY <1>7, <1>8, <1>9 DEF r

\* What removing an element from a sequence yields.
LEMMA RemoveAtElements ==
  ASSUME NEW S, NEW q \in Seq(S), NEW k \in 1..Len(q)
  PROVE  /\ RemoveAt(q, k) \in Seq(S)
         /\ Len(RemoveAt(q, k)) = Len(q) - 1
         /\ \A i \in 1..(Len(q) - 1) :
              RemoveAt(q, k)[i] = IF i < k THEN q[i] ELSE q[i + 1]
  <1> DEFINE a == SubSeq(q, 1, k - 1)
             b == SubSeq(q, k + 1, Len(q))
  <1>0. Len(q) \in Nat /\ \A i \in 1..Len(q) : q[i] \in S
    BY LenProperties, ElementOfSeq
  <1>1. /\ a \in Seq(S) /\ Len(a) = k - 1
        /\ \A i \in 1..(k - 1) : a[i] = q[i]
    <2>1. \A i \in 1..(k - 1) : q[i] \in S
      BY <1>0
    <2>2. /\ a \in Seq(S)
          /\ Len(a) = IF 1 <= k - 1 THEN (k - 1) - 1 + 1 ELSE 0
          /\ \A i \in 1..((k - 1) - 1 + 1) : a[i] = q[1 + i - 1]
      BY <1>0, <2>1, SubSeqProperties
    <2> QED BY <2>2, <1>0
  <1>2. /\ b \in Seq(S) /\ Len(b) = Len(q) - k
        /\ \A i \in 1..(Len(q) - k) : b[i] = q[k + i]
    <2>1. \A i \in (k + 1)..Len(q) : q[i] \in S
      BY <1>0
    <2>2. /\ b \in Seq(S)
          /\ Len(b) = IF k + 1 <= Len(q) THEN Len(q) - (k + 1) + 1 ELSE 0
          /\ \A i \in 1..(Len(q) - (k + 1) + 1) : b[i] = q[(k + 1) + i - 1]
      BY <1>0, <2>1, SubSeqProperties
    <2> QED BY <2>2, <1>0
  <1> HIDE DEF a, b
  <1>3. /\ a \o b \in Seq(S)
        /\ Len(a \o b) = Len(a) + Len(b)
        /\ \A i \in 1..(Len(a) + Len(b)) :
             (a \o b)[i] = IF i <= Len(a) THEN a[i] ELSE b[i - Len(a)]
    BY <1>1, <1>2, ConcatProperties
  <1>4. RemoveAt(q, k) = a \o b
    BY DEF RemoveAt, a, b
  <1> DEFINE r == RemoveAt(q, k)
  <1>5. /\ r \in Seq(S) /\ Len(r) = (k - 1) + (Len(q) - k)
        /\ \A i \in 1..((k - 1) + (Len(q) - k)) :
             r[i] = IF i <= k - 1 THEN a[i] ELSE b[i - (k - 1)]
    BY <1>1, <1>2, <1>3, <1>4
  <1> HIDE DEF r
  <1>6. \A i \in 1..(Len(q) - 1) : r[i] = IF i < k THEN q[i] ELSE q[i + 1]
    <2> TAKE i \in 1..(Len(q) - 1)
    <2>1. CASE i < k
      <3>1. i \in 1..(k - 1) /\ i <= k - 1 /\ i \in 1..((k - 1) + (Len(q) - k))
        BY <2>1, <1>0
      <3>2. r[i] = a[i]
        BY <3>1, <1>5
      <3>3. a[i] = q[i]
        BY <3>1, <1>1
      <3> QED BY <2>1, <3>2, <3>3
    <2>2. CASE i >= k
      <3>1. r[i] = b[i - (k - 1)] /\ i - (k - 1) \in 1..(Len(q) - k)
        BY <2>2, <1>0, <1>5
      <3>2. b[i - (k - 1)] = q[k + (i - (k - 1))]
        BY <3>1, <1>2
      <3> QED BY <3>1, <3>2, <2>2, <1>0
    <2> QED BY <2>1, <2>2, <1>0
  <1>7. Len(r) = Len(q) - 1
    BY <1>5, <1>0
  <1> QED BY <1>5, <1>6, <1>7 DEF r

\* The range of a sequence that grew by one element.
LEMMA InsertAtRange ==
  ASSUME NEW S, NEW q \in Seq(S), NEW e \in S, NEW k \in 1..(Len(q) + 1)
  PROVE  Range(InsertAt(q, k, e)) = Range(q) \union {e}
  <1> DEFINE r == InsertAt(q, k, e)
  <1>0. Len(q) \in Nat /\ DOMAIN q = 1..Len(q)
    BY LenProperties
  <1>1. /\ r \in Seq(S) /\ Len(r) = Len(q) + 1
        /\ \A i \in 1..(Len(q) + 1) :
             r[i] = IF i < k THEN q[i] ELSE IF i = k THEN e ELSE q[i - 1]
    BY InsertAtElements
  <1>2. DOMAIN r = 1..(Len(q) + 1)
    BY <1>1, LenProperties
  <1> HIDE DEF r
  <1>3. ASSUME NEW x \in Range(r) PROVE x \in Range(q) \union {e}
    <2>1. PICK i \in 1..(Len(q) + 1) : x = r[i]
      BY <1>2 DEF Range
    <2>2. i < k => i \in DOMAIN q /\ x = q[i]
      BY <2>1, <1>0, <1>1
    <2>3. i = k => x = e
      BY <2>1, <1>1
    <2>4. i > k => i - 1 \in DOMAIN q /\ x = q[i - 1]
      BY <2>1, <1>0, <1>1
    <2>5. i < k \/ i = k \/ i > k
      BY <2>1, <1>0
    <2> QED BY <2>2, <2>3, <2>4, <2>5 DEF Range
  <1>4. ASSUME NEW x \in Range(q) PROVE x \in Range(r)
    <2>1. PICK i \in 1..Len(q) : x = q[i]
      BY <1>0 DEF Range
    <2>2. i < k => i \in DOMAIN r /\ x = r[i]
      BY <2>1, <1>0, <1>1, <1>2
    <2>3. i >= k => i + 1 \in DOMAIN r /\ x = r[i + 1]
      BY <2>1, <1>0, <1>1, <1>2
    <2>4. i < k \/ i >= k
      BY <2>1, <1>0
    <2> QED BY <2>2, <2>3, <2>4 DEF Range
  <1>5. e \in Range(r)
    <2>1. k \in DOMAIN r /\ r[k] = e
      BY <1>0, <1>1, <1>2
    <2> QED BY <2>1 DEF Range
  <1> QED BY <1>3, <1>4, <1>5 DEF r

\* The range of a sequence without repetitions that lost one element.
LEMMA RemoveAtRange ==
  ASSUME NEW S, NEW q \in Seq(S), NEW k \in 1..Len(q),
         \A i, j \in 1..Len(q) : q[i] = q[j] => i = j
  PROVE  Range(RemoveAt(q, k)) = Range(q) \ {q[k]}
  <1> DEFINE r == RemoveAt(q, k)
  <1>0. Len(q) \in Nat /\ DOMAIN q = 1..Len(q)
    BY LenProperties
  <1>1. /\ r \in Seq(S) /\ Len(r) = Len(q) - 1
        /\ \A i \in 1..(Len(q) - 1) : r[i] = IF i < k THEN q[i] ELSE q[i + 1]
    BY RemoveAtElements
  <1>2. DOMAIN r = 1..(Len(q) - 1)
    BY <1>1, LenProperties
  <1> HIDE DEF r
  <1>3. ASSUME NEW x \in Range(r) PROVE x \in Range(q) \ {q[k]}
    <2>1. PICK i \in 1..(Len(q) - 1) : x = r[i]
      BY <1>2 DEF Range
    <2>2. PICK j \in 1..Len(q) : x = q[j] /\ j # k
      <3>1. i < k => x = q[i] /\ i \in 1..Len(q) /\ i # k
        BY <2>1, <1>0, <1>1
      <3>2. i >= k => x = q[i + 1] /\ i + 1 \in 1..Len(q) /\ i + 1 # k
        BY <2>1, <1>0, <1>1
      <3>3. i < k \/ i >= k
        BY <2>1, <1>0
      <3> QED BY <3>1, <3>2, <3>3
    <2> QED BY <2>2, <1>0 DEF Range
  <1>4. ASSUME NEW x \in Range(q), x # q[k] PROVE x \in Range(r)
    <2>1. PICK i \in 1..Len(q) : x = q[i]
      BY <1>0 DEF Range
    <2>2. i < k => i \in DOMAIN r /\ x = r[i]
      BY <2>1, <1>0, <1>1, <1>2
    <2>3. i > k => i - 1 \in DOMAIN r /\ x = r[i - 1]
      BY <2>1, <1>0, <1>1, <1>2
    <2>4. i < k \/ i > k
      BY <2>1, <1>0, <1>4
    <2> QED BY <2>2, <2>3, <2>4 DEF Range
  <1> QED BY <1>3, <1>4 DEF r

-----------------------------------------------------------------------------
(* The list.                                                               *)

\* What timer.c relies on: no timer twice, timestamps in order, timer_target not
\* after any of them.
Ordered(q, s, target) ==
  /\ \A i, j \in 1..Len(q) : q[i] = q[j] => i = j
  /\ \A i, j \in 1..Len(q) : i <= j => s[q[i]] <= s[q[j]]
  /\ \A i \in 1..Len(q) : target <= s[q[i]]

\* The walk of timer_enable ends: there is a place for the timer.
LEMMA SlotExists ==
  ASSUME NEW q \in Seq(Timers), ts \in [Timers -> Int], NEW i \in Int
  PROVE  /\ Slot(q, i) \in 1..(Len(q) + 1)
         /\ \A j \in 1..(Slot(q, i) - 1) : ts[q[j]] < i
         /\ Slot(q, i) <= Len(q) => i <= ts[q[Slot(q, i)]]
  <1> DEFINE P(k) == /\ \A j \in 1..(k - 1) : ts[q[j]] < i
                     /\ k <= Len(q) => i <= ts[q[k]]
             T == {k \in 1..(Len(q) + 1) : k <= Len(q) => i <= ts[q[k]]}
  <1>0. Len(q) \in Nat /\ \A j \in 1..Len(q) : ts[q[j]] \in Int
    BY LenProperties, ElementOfSeq
  <1>1. Len(q) + 1 \in T
    BY <1>0
  <1>2. PICK k \in T : \A y \in T : k <= y
    <2>1. T \subseteq Nat /\ T # {}
      BY <1>0, <1>1
    <2> HIDE DEF T
    <2> QED BY <2>1, LeastNat
  <1>3. k \in 1..(Len(q) + 1) /\ P(k)
    <2>1. ASSUME NEW j \in 1..(k - 1) PROVE ts[q[j]] < i
      <3>1. j \in 1..Len(q) /\ j < k
        BY <1>0, <1>2
      <3>2. j \notin T
        BY <3>1, <1>0, <1>2
      <3> QED BY <3>1, <3>2, <1>0
    <2> QED BY <1>2, <2>1
  <1>4. Slot(q, i) = CHOOSE x \in 1..(Len(q) + 1) : P(x)
    BY DEF Slot
  <1>5. Slot(q, i) \in 1..(Len(q) + 1) /\ P(Slot(q, i))
    BY <1>3, <1>4, Zenon
  <1> QED BY <1>5

\* Inserting a timer where timer_enable does keeps the list in order, and
\* timer_target with it.
LEMMA InsertKeepsOrder ==
  ASSUME NEW q \in Seq(Timers), NEW t \in Timers, NEW i \in Int,
         NEW s \in [Timers -> Int], NEW target \in Int,
         NEW k \in 1..(Len(q) + 1),
         Ordered(q, s, target), t \notin Range(q),
         \A j \in 1..(k - 1) : s[q[j]] < i,
         k <= Len(q) => i <= s[q[k]]
  PROVE  Ordered(InsertAt(q, k, t), [s EXCEPT ![t] = i],
                 IF k = 1 THEN i ELSE target)
  <1> DEFINE n == Len(q)
             r == InsertAt(q, k, t)
             u == [s EXCEPT ![t] = i]
             tgt == IF k = 1 THEN i ELSE target
  <1>0. n \in Nat /\ DOMAIN q = 1..n /\ \A j \in 1..n : q[j] \in Timers
    BY LenProperties, ElementOfSeq
  <1>1. /\ Len(r) = n + 1
        /\ \A j \in 1..(n + 1) :
             r[j] = IF j < k THEN q[j] ELSE IF j = k THEN t ELSE q[j - 1]
    BY InsertAtElements
  <1>2. \A j \in 1..n : q[j] # t /\ u[q[j]] = s[q[j]] /\ s[q[j]] \in Int
    BY <1>0 DEF Range
  <1>3. u[t] = i
    OBVIOUS
  <1>4. /\ \A x, y \in 1..n : q[x] = q[y] => x = y
        /\ \A x, y \in 1..n : x <= y => s[q[x]] <= s[q[y]]
        /\ \A x \in 1..n : target <= s[q[x]]
    BY DEF Ordered
  <1> HIDE DEF n, r, u
  <1>5. /\ k \in 1..(n + 1)
        /\ \A j \in 1..(k - 1) : j \in 1..n /\ s[q[j]] < i
        /\ k <= n => k \in 1..n /\ i <= s[q[k]]
    BY <1>0 DEF n
  \* The three kinds of places in the new list.
  <1>6. ASSUME NEW j \in 1..(n + 1)
        PROVE  \/ j < k /\ j \in 1..n /\ r[j] = q[j]
               \/ j = k /\ r[j] = t
               \/ j > k /\ j - 1 \in 1..n /\ r[j] = q[j - 1]
    <2>1. CASE j < k
      BY <2>1, <1>0, <1>1, <1>5
    <2>2. CASE j = k
      BY <2>2, <1>0, <1>1, <1>5
    <2>3. CASE j > k
      BY <2>3, <1>0, <1>1, <1>5
    <2> QED BY <2>1, <2>2, <2>3, <1>0, <1>5
  <1>7. ASSUME NEW j \in 1..(n + 1)
        PROVE  \/ j < k /\ j \in 1..n /\ u[r[j]] = s[q[j]]
               \/ j = k /\ u[r[j]] = i
               \/ j > k /\ j - 1 \in 1..n /\ u[r[j]] = s[q[j - 1]]
    BY <1>6, <1>2, <1>3
  <1>8. ASSUME NEW a \in 1..(n + 1), NEW b \in 1..(n + 1), r[a] = r[b]
        PROVE  a = b
    <2>1. a \in Int /\ b \in Int /\ k \in Int
      BY <1>0, <1>5
    <2>2. CASE a < k
      BY <2>1, <2>2, <1>6, <1>8, <1>2, <1>4
    <2>3. CASE a = k
      BY <2>1, <2>3, <1>6, <1>8, <1>2, SMTT(30)
    <2>4. CASE a > k
      <3>1. a - 1 \in 1..n /\ r[a] = q[a - 1]
        BY <2>1, <2>4, <1>6
      <3>2. b > k /\ b - 1 \in 1..n /\ r[b] = q[b - 1]
        <4>1. CASE b < k
          <5>1. b \in 1..n /\ q[b] = q[a - 1]
            BY <4>1, <2>1, <3>1, <1>6, <1>8
          <5>2. b = a - 1
            BY <5>1, <3>1, <1>4
          <5> QED BY <5>2, <4>1, <2>1, <2>4
        <4>2. CASE b = k
          <5>1. r[b] = t
            BY <4>2, <2>1, <1>6
          <5> QED BY <5>1, <3>1, <1>2, <1>8
        <4>3. CASE b > k
          BY <4>3, <2>1, <1>6
        <4> QED BY <4>1, <4>2, <4>3, <2>1
      <3>3. a - 1 = b - 1
        BY <3>1, <3>2, <1>8, <1>4
      <3> QED BY <3>3, <2>1
    <2> QED BY <2>1, <2>2, <2>3, <2>4
  <1>9. ASSUME NEW a \in 1..(n + 1), NEW b \in 1..(n + 1), a <= b
        PROVE  u[r[a]] <= u[r[b]]
    <2>0. a \in Int /\ b \in Int /\ k \in Int
      BY <1>0, <1>5
    <2>1. CASE b < k
      <3>1. a \in 1..n /\ b \in 1..n /\ u[r[a]] = s[q[a]] /\ u[r[b]] = s[q[b]]
        BY <2>0, <2>1, <1>7, <1>9
      <3> QED BY <3>1, <1>4, <1>9
    <2>2. CASE b = k
      <3>1. u[r[b]] = i
        BY <2>0, <2>2, <1>7
      <3>2. CASE a = k
        BY <2>2, <3>1, <3>2
      <3>3. CASE a < k
        <4>1. a \in 1..(k - 1) /\ u[r[a]] = s[q[a]] /\ a \in 1..n
          BY <2>0, <3>3, <1>7
        <4> QED BY <4>1, <3>1, <1>5, <1>2
      <3> QED BY <3>2, <3>3, <2>0, <2>2, <1>9
    <2>3. CASE b > k
      <3>1. b - 1 \in 1..n /\ u[r[b]] = s[q[b - 1]]
        BY <2>0, <2>3, <1>7
      <3>2. CASE a < k
        <4>1. a \in 1..n /\ u[r[a]] = s[q[a]] /\ a <= b - 1
          BY <2>0, <2>3, <3>2, <1>7
        <4> QED BY <4>1, <3>1, <1>4
      <3>3. CASE a = k
        <4>1. u[r[a]] = i /\ k <= b - 1 /\ k <= n
          BY <2>0, <2>3, <3>1, <3>3, <1>7, <1>0
        <4>2. k \in 1..n /\ i <= s[q[k]] /\ s[q[k]] <= s[q[b - 1]]
          BY <4>1, <3>1, <1>4, <1>5
        <4>3. s[q[k]] \in Int /\ s[q[b - 1]] \in Int
          BY <4>2, <3>1, <1>2
        <4> QED BY <4>1, <4>2, <4>3, <3>1
      <3>4. CASE a > k
        <4>1. a - 1 \in 1..n /\ u[r[a]] = s[q[a - 1]]
          BY <2>0, <3>4, <1>7
        <4>2. a - 1 <= b - 1
          BY <2>0, <1>9
        <4> QED BY <4>1, <4>2, <3>1, <1>4
      <3> QED BY <3>2, <3>3, <3>4, <2>0
    <2> QED BY <2>0, <2>1, <2>2, <2>3
  <1>10. ASSUME NEW a \in 1..(n + 1) PROVE tgt <= u[r[a]]
    <2>1. CASE k = 1
      <3>1. 1 \in 1..(n + 1) /\ 1 <= a
        BY <1>0
      <3>2. u[r[1]] <= u[r[a]]
        BY <3>1, <1>9
      <3>3. u[r[1]] = i
        BY <3>1, <2>1, <1>7
      <3> QED BY <3>2, <3>3, <2>1
    <2>2. CASE k # 1
      <3>1. 1 \in 1..(k - 1) /\ 1 \in 1..n
        BY <2>2, <1>0, <1>5
      <3>2. target <= s[q[1]] /\ s[q[1]] < i /\ s[q[1]] \in Int
        BY <3>1, <1>2, <1>4, <1>5
      <3>3. target <= i
        BY <3>2
      <3>4. target <= u[r[a]]
        BY <3>3, <1>4, <1>7
      <3> QED BY <3>4, <2>2
    <2> QED BY <2>1, <2>2
  <1> HIDE DEF tgt
  <1>11. Ordered(r, u, tgt)
    BY <1>1, <1>8, <1>9, <1>10 DEF Ordered
  <1> QED BY <1>11 DEF r, u, tgt

\* timer_enable.
LEMMA LinkKeepsOrder ==
  ASSUME NEW q \in Seq(Timers), NEW t \in Timers, NEW i \in Int, NEW f,
         ts \in [Timers -> Int], timer_target \in Int,
         Ordered(q, ts, timer_target), t \notin Range(q), Link(q, t, i, f)
  PROVE  /\ queue' \in Seq(Timers)
         /\ Range(queue') = Range(q) \union {t}
         /\ timer_target' \in Int
         /\ ts' \in [Timers -> Int]
         /\ Ordered(queue', ts', timer_target')
  <1> DEFINE k == Slot(q, i)
  <1>1. /\ k \in 1..(Len(q) + 1)
        /\ \A j \in 1..(k - 1) : ts[q[j]] < i
        /\ k <= Len(q) => i <= ts[q[k]]
    BY SlotExists
  <1>2. /\ queue' = InsertAt(q, k, t)
        /\ ts' = [ts EXCEPT ![t] = i]
        /\ timer_target' = IF k = 1 THEN i ELSE timer_target
    BY DEF Link
  <1> HIDE DEF k
  <1>3. InsertAt(q, k, t) \in Seq(Timers)
    BY <1>1, InsertAtElements
  <1>4. Range(InsertAt(q, k, t)) = Range(q) \union {t}
    BY <1>1, InsertAtRange
  <1>5. Ordered(InsertAt(q, k, t), [ts EXCEPT ![t] = i],
                IF k = 1 THEN i ELSE timer_target)
    BY <1>1, InsertKeepsOrder
  <1>6. ts' \in [Timers -> Int] /\ timer_target' \in Int
    BY <1>2
  <1> QED BY <1>2, <1>3, <1>4, <1>5, <1>6

\* timer_disable.
LEMMA UnlinkKeepsOrder ==
  ASSUME NEW q \in Seq(Timers), NEW t \in Range(q),
         NEW s \in [Timers -> Int], NEW target \in Int, Ordered(q, s, target)
  PROVE  /\ Unlink(q, t) \in Seq(Timers)
         /\ Range(Unlink(q, t)) = Range(q) \ {t}
         /\ Ordered(Unlink(q, t), s, target)
  <1> DEFINE k == Pos(q, t)
             r == RemoveAt(q, k)
  <1>0. Len(q) \in Nat /\ DOMAIN q = 1..Len(q)
    BY LenProperties
  <1>1. k \in 1..Len(q) /\ q[k] = t
    <2>1. \E i \in 1..Len(q) : q[i] = t
      BY <1>0 DEF Range
    <2> QED BY <2>1 DEF Pos
  <1> HIDE DEF k
  <1>2. Unlink(q, t) = r
    BY DEF Unlink, k
  <1>3. /\ r \in Seq(Timers) /\ Len(r) = Len(q) - 1
        /\ \A i \in 1..(Len(q) - 1) : r[i] = IF i < k THEN q[i] ELSE q[i + 1]
    BY <1>1, RemoveAtElements
  <1>4. Range(r) = Range(q) \ {t}
    BY <1>1, RemoveAtRange DEF Ordered
  <1> HIDE DEF r
  <1> DEFINE from(i) == IF i < k THEN i ELSE i + 1
  <1>5. ASSUME NEW i \in 1..Len(r)
        PROVE  from(i) \in 1..Len(q) /\ r[i] = q[from(i)]
    <2>1. i \in 1..(Len(q) - 1) /\ i \in Int /\ k \in Int
      BY <1>0, <1>1, <1>3
    <2>2. CASE i < k
      BY <2>1, <2>2, <1>0, <1>3
    <2>3. CASE ~(i < k)
      BY <2>1, <2>3, <1>0, <1>3
    <2> QED BY <2>2, <2>3
  <1>6. ASSUME NEW i \in 1..Len(r), NEW j \in 1..Len(r)
        PROVE  (from(i) = from(j) => i = j) /\ (i <= j => from(i) <= from(j))
    BY <1>0, <1>1, <1>3, SMTT(30)
  <1> HIDE DEF from
  <1>7. Ordered(r, s, target)
    <2>1. \A i, j \in 1..Len(r) : r[i] = r[j] => i = j
      BY <1>5, <1>6 DEF Ordered
    <2>2. ASSUME NEW i \in 1..Len(r), NEW j \in 1..Len(r), i <= j
          PROVE  s[r[i]] <= s[r[j]]
      <3>1. from(i) \in 1..Len(q) /\ from(j) \in 1..Len(q) /\ from(i) <= from(j)
        BY <2>2, <1>5, <1>6
      <3>2. s[q[from(i)]] <= s[q[from(j)]]
        BY <3>1 DEF Ordered
      <3> QED BY <3>2, <1>5
    <2>3. \A i \in 1..Len(r) : target <= s[r[i]]
      BY <1>5 DEF Ordered
    <2> QED BY <2>1, <2>2, <2>3 DEF Ordered
  <1> QED BY <1>2, <1>3, <1>4, <1>7

\* timer_remove_head.
LEMMA TailKeepsOrder ==
  ASSUME NEW q \in Seq(Timers), q # <<>>,
         NEW s \in [Timers -> Int], NEW target \in Int, Ordered(q, s, target)
  PROVE  /\ Tail(q) \in Seq(Timers)
         /\ Head(q) \in Range(q)
         /\ Range(Tail(q)) = Range(q) \ {Head(q)}
         /\ Ordered(Tail(q), s, target)
  <1> DEFINE r == Tail(q)
  <1>0. Len(q) \in Nat /\ DOMAIN q = 1..Len(q) /\ Len(q) >= 1 /\ Head(q) = q[1]
    BY LenProperties, EmptySeq
  <1>1. /\ r \in Seq(Timers) /\ Len(r) = Len(q) - 1
        /\ \A i \in 1..Len(r) : r[i] = q[i + 1]
    BY HeadTailProperties
  <1>2. DOMAIN r = 1..(Len(q) - 1)
    BY <1>1, LenProperties
  <1> HIDE DEF r
  <1>3. Ordered(r, s, target)
    <2>0. \A i \in 1..Len(r) : i + 1 \in 1..Len(q) /\ r[i] = q[i + 1]
      BY <1>0, <1>1
    <2>1. ASSUME NEW i \in 1..Len(r), NEW j \in 1..Len(r), r[i] = r[j]
          PROVE  i = j
      <3>1. i + 1 = j + 1
        BY <2>0, <2>1 DEF Ordered
      <3> QED BY <3>1, <1>0, <1>1
    <2>2. ASSUME NEW i \in 1..Len(r), NEW j \in 1..Len(r), i <= j
          PROVE  s[r[i]] <= s[r[j]]
      <3>1. i + 1 \in 1..Len(q) /\ j + 1 \in 1..Len(q) /\ i + 1 <= j + 1
        BY <2>0, <2>2, <1>0, <1>1
      <3>2. s[q[i + 1]] <= s[q[j + 1]]
        BY <3>1 DEF Ordered
      <3> QED BY <3>2, <2>0
    <2>3. \A i \in 1..Len(r) : target <= s[r[i]]
      BY <2>0 DEF Ordered
    <2> QED BY <2>1, <2>2, <2>3 DEF Ordered
  <1>4. ASSUME NEW x \in Range(r) PROVE x \in Range(q) \ {q[1]}
    <2>1. PICK i \in 1..(Len(q) - 1) : x = r[i]
      BY <1>2 DEF Range
    <2>2. x = q[i + 1] /\ i + 1 \in 1..Len(q) /\ i + 1 # 1 /\ 1 \in 1..Len(q)
      BY <2>1, <1>0, <1>1
    <2> QED BY <2>2, <1>0 DEF Range, Ordered
  <1>5. ASSUME NEW x \in Range(q), x # q[1] PROVE x \in Range(r)
    <2>1. PICK i \in 1..Len(q) : x = q[i]
      BY <1>0 DEF Range
    <2>2. i - 1 \in DOMAIN r /\ x = r[i - 1]
      BY <2>1, <1>0, <1>1, <1>2, <1>5
    <2> QED BY <2>2 DEF Range
  <1>6. q[1] \in Range(q)
    BY <1>0 DEF Range
  <1> QED BY <1>0, <1>1, <1>3, <1>4, <1>5, <1>6 DEF r

-----------------------------------------------------------------------------
(* Delays.                                                                 *)

\* A remainder is a fraction, a quotient a whole number.
LEMMA DivMod ==
  ASSUME NEW d \in Nat
  PROVE  d \div FracMod \in Int /\ d % FracMod \in 0..(FracMod - 1)
  BY TimerConstants

\* Whole and fractional parts of delays and of advanced timestamps.
LEMMA DelayTypes ==
  ASSUME TypeOK, NEW t \in Timers, NEW d \in Nat
  PROVE  /\ IntDelay(d) \in Int
         /\ FracDelay(d) \in 0..(FracMod - 1)
         /\ AdvancedInt(t, d) \in Int
         /\ AdvancedFrac(t, d) \in 0..(FracMod - 1)
  <1>1. SignBit \in Nat /\ FracMod \in Nat \ {0} /\ ts[t] \in Int /\ frac[t] \in Nat
    BY TimerConstants DEF TypeOK
  <1>2. d \div FracMod \in Int /\ FracDelay(d) \in 0..(FracMod - 1)
    BY DivMod DEF FracDelay
  <1>3. IntDelay(d) \in Int
    BY <1>1, <1>2 DEF IntDelay
  <1>4. frac[t] + FracDelay(d) \in Nat
    BY <1>1, <1>2
  <1>5. /\ (frac[t] + FracDelay(d)) \div FracMod \in Int
        /\ (frac[t] + FracDelay(d)) % FracMod \in 0..(FracMod - 1)
    BY <1>4, DivMod
  <1> QED BY <1>1, <1>2, <1>3, <1>5 DEF AdvancedInt, AdvancedFrac

\* The piece of a period that goes on the list, and the rest.
LEMMA PeriodTypes ==
  ASSUME NEW p \in Nat
  PROVE  Piece(p) \in Nat /\ Rest(p) \in Nat
  <1>1. MAX_USEC \in Nat /\ TIMER_USEC \in Nat
    BY TimerConstants
  <1>2. \A a, b \in Nat : a * b \in Nat
    OBVIOUS
  <1>3. Piece(p) \in Nat
    BY <1>1, <1>2 DEF Piece
  <1> QED BY <1>1, <1>3 DEF Rest

-----------------------------------------------------------------------------
(* The inductive invariant.                                                *)

\* A permanent timer is on the list unless its callback is running, and
\* timer_process runs only once every permanent timer has been added.
Residents ==
  /\ ~timer_inited => added = {}
  /\ pc # "cpu" => Booted
  /\ pc = "callback" => cb \in Timers
  /\ \A p \in Permanent \intersect added : p \in enabled \/ (pc = "callback" /\ cb = p)

ListInv == /\ Range(queue) = enabled \intersect added
           /\ Ordered(queue, ts, timer_target)

IInv == TypeOK /\ ListInv /\ Residents /\ SplitHasPeriod /\ NoCrash

\* Two permanent timers on the list, one of them first: the list does not become
\* empty when its head is removed.
LEMMA TailNotEmpty ==
  ASSUME IInv, pc = "process"
  PROVE  queue # <<>> /\ Tail(queue) # <<>>
  <1>1. PICK p, q \in Permanent : p # q
    BY TimerConstants
  <1>2. p \in Range(queue) /\ q \in Range(queue)
    BY <1>1 DEF IInv, ListInv, Residents, Booted
  <1>3. \A f : f = <<>> => Range(f) = {}
    BY DEF Range
  <1>4. queue # <<>>
    BY <1>2, <1>3
  <1>5. Range(Tail(queue)) = Range(queue) \ {Head(queue)}
    BY <1>4, TailKeepsOrder DEF IInv, TypeOK, ListInv
  <1>6. Range(Tail(queue)) # {}
    BY <1>1, <1>2, <1>5
  <1>7. Tail(queue) # <<>>
    BY <1>3, <1>6, Zenon
  <1> QED BY <1>4, <1>7

\* The list that timer_enable walks: the timer is off it, the others are on it.
LEMMA Relinked ==
  ASSUME IInv, NEW t \in added
  PROVE  LET q == IF t \in enabled THEN Unlink(queue, t) ELSE queue
         IN  /\ q \in Seq(Timers)
             /\ t \notin Range(q)
             /\ Range(q) \union {t} = Range(queue) \union {t}
             /\ Ordered(q, ts, timer_target)
  <1>0. t \in Timers /\ TypeOK /\ ListInv
    BY DEF IInv, TypeOK
  <1>1. CASE t \in enabled
    <2>1. t \in Range(queue)
      BY <1>1, <1>0 DEF ListInv
    <2> QED BY <1>1, <2>1, <1>0, UnlinkKeepsOrder DEF TypeOK, ListInv
  <1>2. CASE t \notin enabled
    BY <1>2, <1>0 DEF TypeOK, ListInv
  <1> QED BY <1>1, <1>2

\* timer_enable as device code calls it.
LEMMA EnableKeeps ==
  ASSUME IInv, NEW t \in added, NEW i \in Int, NEW f \in 0..(FracMod - 1),
         Enable(t, i, f)
  PROVE  /\ queue' \in Seq(Timers)
         /\ timer_target' \in Int
         /\ ts' \in [Timers -> Int]
         /\ frac' \in [Timers -> 0..(FracMod - 1)]
         /\ enabled' = enabled \union {t}
         /\ in_callback' \subseteq Timers
         /\ Range(queue') = Range(queue) \union {t}
         /\ Ordered(queue', ts', timer_target')
  <1> DEFINE q == IF t \in enabled THEN Unlink(queue, t) ELSE queue
  <1>0. t \in Timers /\ TypeOK /\ ListInv
    BY DEF IInv, TypeOK
  <1>1. /\ q \in Seq(Timers)
        /\ t \notin Range(q)
        /\ Range(q) \union {t} = Range(queue) \union {t}
        /\ Ordered(q, ts, timer_target)
    BY Relinked
  <1>2. Link(q, t, i, f)
    BY DEF Enable
  <1> HIDE DEF q
  <1>3. /\ queue' \in Seq(Timers)
        /\ Range(queue') = Range(q) \union {t}
        /\ timer_target' \in Int
        /\ ts' \in [Timers -> Int]
        /\ Ordered(queue', ts', timer_target')
    BY <1>0, <1>1, <1>2, LinkKeepsOrder DEF TypeOK
  <1>4. frac' \in [Timers -> 0..(FracMod - 1)] /\ enabled' = enabled \union {t}
    BY <1>0, <1>2 DEF Link, TypeOK
  <1>5. in_callback' \subseteq Timers
    BY <1>0 DEF Enable, TypeOK
  <1> QED BY <1>1, <1>3, <1>4, <1>5

\* timer_disable and timer_stop on a timer added since timer_init: no crash.
LEMMA DetachKeeps ==
  ASSUME IInv, NEW t \in added, Detach(t)
  PROVE  /\ queue' \in Seq(Timers)
         /\ Range(queue') = Range(queue) \ {t}
         /\ enabled' = enabled \ {t}
         /\ ~crashed' /\ crashed' \in BOOLEAN
         /\ Ordered(queue', ts, timer_target)
  <1>0. t \in Timers /\ TypeOK /\ ListInv
    BY DEF IInv, TypeOK
  <1>1. CASE t \in Range(queue)
    <2>1. queue' = Unlink(queue, t) /\ crashed' = FALSE /\ enabled' = enabled \ {t}
      BY <1>1 DEF Detach
    <2> QED BY <1>0, <1>1, <2>1, UnlinkKeepsOrder DEF TypeOK, ListInv
  <1>2. CASE t \notin Range(queue)
    <2>1. queue' = queue /\ enabled' = enabled \ {t} /\ t \notin enabled
      BY <1>0, <1>2 DEF Detach, ListInv
    <2>2. crashed' = FALSE
      BY <2>1 DEF Detach
    <2> QED BY <1>0, <1>2, <2>1, <2>2 DEF TypeOK, ListInv
  <1> QED BY <1>1, <1>2

-----------------------------------------------------------------------------
(* Every step preserves the invariant.                                     *)

\* A call that arms a timer.
LEMMA EnableStep ==
  ASSUME IInv, NEW t \in added, NEW i \in Int, NEW f \in 0..(FracMod - 1),
         Enable(t, i, f), split' \subseteq Timers, period' \in [Timers -> Nat],
         SplitHasPeriod',
         UNCHANGED <<tsc, life, control, crashed>>
  PROVE  IInv'
  <1>1. /\ queue' \in Seq(Timers)
        /\ timer_target' \in Int
        /\ ts' \in [Timers -> Int]
        /\ frac' \in [Timers -> 0..(FracMod - 1)]
        /\ enabled' = enabled \union {t}
        /\ in_callback' \subseteq Timers
        /\ Range(queue') = Range(queue) \union {t}
        /\ Ordered(queue', ts', timer_target')
    BY EnableKeeps
  <1>2. TypeOK'
    BY <1>1 DEF IInv, TypeOK, life, control
  <1>3. ListInv'
    <2>1. Range(queue') = enabled' \intersect added'
      BY <1>1 DEF IInv, ListInv, life
    <2> QED BY <1>1, <2>1 DEF ListInv
  <1>4. Residents'
    BY <1>1 DEF IInv, Residents, Booted, life, control
  <1> QED BY <1>2, <1>3, <1>4 DEF IInv, NoCrash

\* A call that takes a timer off the list.
LEMMA DetachStep ==
  ASSUME IInv, NEW t \in added \ Permanent, Detach(t),
         in_callback' \subseteq Timers, split' \subseteq Timers,
         period' \in [Timers -> Nat], SplitHasPeriod',
         UNCHANGED <<timer_target, tsc, stamps, life, control>>
  PROVE  IInv'
  <1>1. /\ queue' \in Seq(Timers)
        /\ Range(queue') = Range(queue) \ {t}
        /\ enabled' = enabled \ {t}
        /\ ~crashed' /\ crashed' \in BOOLEAN
        /\ Ordered(queue', ts, timer_target)
    BY DetachKeeps
  <1>2. TypeOK'
    BY <1>1 DEF IInv, TypeOK, life, control, stamps
  <1>3. ListInv'
    <2>1. Range(queue') = enabled' \intersect added'
      BY <1>1 DEF IInv, ListInv, life
    <2> QED BY <1>1, <2>1 DEF ListInv, stamps
  <1>4. Residents'
    BY <1>1 DEF IInv, Residents, Booted, life, control
  <1> QED BY <1>1, <1>2, <1>3, <1>4 DEF IInv, NoCrash

\* Nothing that the list or the control depends on changes.
LEMMA FlagStep ==
  ASSUME IInv, UNCHANGED <<queue, timer_target, tsc, stamps, enabled, life, control, crashed>>,
         in_callback' \subseteq Timers, split' \subseteq Timers,
         period' \in [Timers -> Nat], SplitHasPeriod'
  PROVE  IInv'
  <1>1. TypeOK'
    BY DEF IInv, TypeOK, life, control, stamps
  <1>2. ListInv'
    BY DEF IInv, ListInv, life, stamps
  <1>3. Residents'
    BY DEF IInv, Residents, Booted, life, control
  <1> QED BY <1>1, <1>2, <1>3 DEF IInv, NoCrash

\* The period bookkeeping keeps its types.
LEMMA SetPeriodTypes ==
  ASSUME TypeOK, SplitHasPeriod, NEW t \in Timers, NEW p \in Nat, SetPeriod(t, p)
  PROVE  split' \subseteq Timers /\ period' \in [Timers -> Nat] /\ SplitHasPeriod'
  <1>1. split' \subseteq Timers /\ period' \in [Timers -> Nat]
    BY PeriodTypes DEF SetPeriod, TypeOK
  <1>2. p > MAX_USEC <=> Rest(p) > 0
    BY TimerConstants DEF Rest
  <1>3. \A u \in Timers : u \in split' <=> period'[u] > 0
    BY <1>2 DEF SetPeriod, SplitHasPeriod, TypeOK
  <1> QED BY <1>1, <1>3 DEF SplitHasPeriod

\* timer_stop.
LEMMA StopStep ==
  ASSUME IInv, NEW t \in Timers \ Permanent, timer_inited => t \in added, Stop(t),
         UNCHANGED <<timer_target, tsc, stamps, life, control>>
  PROVE  IInv'
  <1>0. TypeOK /\ SplitHasPeriod
    BY DEF IInv
  <1>1. CASE timer_inited
    <2>1. Detach(t) /\ t \in added \ Permanent
      BY <1>1 DEF Stop
    <2>2. /\ in_callback' \subseteq Timers /\ split' \subseteq Timers
          /\ period' \in [Timers -> Nat] /\ SplitHasPeriod'
      <3>1. /\ in_callback' = in_callback \ {t} /\ split' = split \ {t}
            /\ period' = [period EXCEPT ![t] = 0]
        BY <1>1 DEF Stop
      <3> QED BY <1>0, <3>1 DEF TypeOK, SplitHasPeriod
    <2> QED BY <2>1, <2>2, DetachStep
  <1>2. CASE ~timer_inited
    <2>1. UNCHANGED <<queue, flags, crashed>>
      BY <1>2 DEF Stop
    <2> QED BY <1>0, <2>1, FlagStep DEF flags, TypeOK, SplitHasPeriod
  <1> QED BY <1>1, <1>2

\* Every call of the timer API by device code preserves the invariant.
LEMMA DeviceStep ==
  ASSUME IInv, NEW t \in Timers, Device(t)
  PROVE  IInv'
  <1>0. /\ TypeOK /\ SplitHasPeriod /\ Delays \subseteq Nat /\ Periods \subseteq Nat
        /\ Permanent \subseteq Timers
    BY TimerConstants DEF IInv
  <1>1. ASSUME NEW d \in Delays, timer_set_delay_u64(t, d) PROVE IInv'
    <2>1. t \in added /\ Enable(t, tsc + IntDelay(d), FracDelay(d))
      BY <1>1 DEF timer_set_delay_u64, Calling, SetDelay
    <2>2. tsc + IntDelay(d) \in Int /\ FracDelay(d) \in 0..(FracMod - 1)
      <3>1. IntDelay(d) \in Int /\ FracDelay(d) \in 0..(FracMod - 1)
        BY <1>0, DelayTypes
      <3> QED BY <1>0, <3>1 DEF TypeOK
    <2> QED BY <1>0, <1>1, <2>1, <2>2, EnableStep DEF timer_set_delay_u64, TypeOK, SplitHasPeriod
  <1>2. ASSUME NEW d \in Delays, timer_advance_u64(t, d) PROVE IInv'
    <2>1. t \in added /\ Enable(t, AdvancedInt(t, d), AdvancedFrac(t, d))
      BY <1>2 DEF timer_advance_u64, Advancing, Calling, Advance, IInv, Residents, Booted
    <2>2. AdvancedInt(t, d) \in Int /\ AdvancedFrac(t, d) \in 0..(FracMod - 1)
      BY <1>0, DelayTypes
    <2> QED BY <1>0, <1>2, <2>1, <2>2, EnableStep DEF timer_advance_u64, TypeOK, SplitHasPeriod
  <1>3. ASSUME NEW p \in Periods, timer_on_auto(t, p) PROVE IInv'
    <2>0. t \in added \ Permanent /\ p \in Nat
      BY <1>0, <1>3 DEF timer_on_auto, Calling
    <2>1. CASE p = 0 /\ Stop(t) /\ UNCHANGED <<timer_target, stamps>>
      BY <1>3, <2>0, <2>1, StopStep DEF timer_on_auto
    <2>2. CASE /\ IF FromNow(t) THEN SetDelay(t, Piece(p)) ELSE Advance(t, Piece(p))
               /\ SetPeriod(t, p)
               /\ UNCHANGED crashed
      <3>1. Piece(p) \in Nat
        BY <2>0, PeriodTypes
      <3>2. PICK i \in Int, f \in 0..(FracMod - 1) : Enable(t, i, f)
        <4>1. /\ IntDelay(Piece(p)) \in Int
              /\ FracDelay(Piece(p)) \in 0..(FracMod - 1)
              /\ AdvancedInt(t, Piece(p)) \in Int
              /\ AdvancedFrac(t, Piece(p)) \in 0..(FracMod - 1)
          BY <1>0, <3>1, DelayTypes
        <4>2. tsc + IntDelay(Piece(p)) \in Int
          BY <1>0, <4>1 DEF TypeOK
        <4> QED BY <2>2, <4>1, <4>2 DEF SetDelay, Advance
      <3>3. split' \subseteq Timers /\ period' \in [Timers -> Nat] /\ SplitHasPeriod'
        BY <1>0, <2>0, <2>2, SetPeriodTypes
      <3>4. UNCHANGED <<tsc, life, control, crashed>>
        BY <1>3, <2>2 DEF timer_on_auto
      <3> QED BY <2>0, <3>2, <3>3, <3>4, EnableStep
    <2> QED BY <1>3, <2>1, <2>2 DEF timer_on_auto
  <1>4. CASE timer_enable(t)
    <2>1. t \in added /\ Enable(t, ts[t], frac[t])
      BY <1>4 DEF timer_enable, Calling
    <2>2. ts[t] \in Int /\ frac[t] \in 0..(FracMod - 1)
      BY <1>0 DEF TypeOK
    <2> QED BY <1>0, <1>4, <2>1, <2>2, EnableStep DEF timer_enable, TypeOK, SplitHasPeriod
  <1>5. CASE timer_disable(t)
    <2>1. CASE timer_inited /\ t \in enabled
      <3>1. t \in added \ Permanent /\ Detach(t) /\ in_callback' = in_callback \ {t}
        BY <1>5, <2>1 DEF timer_disable, Cancelling
      <3> QED BY <1>0, <1>5, <3>1, DetachStep DEF timer_disable, TypeOK, SplitHasPeriod
    <2>2. CASE ~(timer_inited /\ t \in enabled)
      BY <1>0, <1>5, <2>2, FlagStep DEF timer_disable, TypeOK, SplitHasPeriod
    <2> QED BY <2>1, <2>2
  <1>6. CASE timer_stop(t)
    BY <1>6, StopStep DEF timer_stop, Cancelling
  <1>7. ASSUME NEW start \in BOOLEAN, timer_add(t, start) PROVE IInv'
    <2>0. /\ t \notin Range(queue) /\ added' = added \union {t}
          /\ in_callback' \subseteq Timers /\ split' \subseteq Timers
          /\ period' \in [Timers -> Nat]
          /\ UNCHANGED <<tsc, timer_inited, pc, cb, crashed>>
          /\ pc = "cpu" /\ timer_inited
          /\ t \in Permanent => start
          /\ SplitHasPeriod'
      BY <1>0, <1>7 DEF timer_add, TypeOK, control, SplitHasPeriod
    <2>1. CASE start
      <3>1. Link(queue, t, tsc, 0)
        BY <1>7, <2>1 DEF timer_add
      <3>2. /\ queue' \in Seq(Timers)
            /\ Range(queue') = Range(queue) \union {t}
            /\ timer_target' \in Int
            /\ ts' \in [Timers -> Int]
            /\ Ordered(queue', ts', timer_target')
        <4>1. tsc \in Int
          BY <1>0 DEF TypeOK
        <4> QED BY <1>0, <2>0, <3>1, <4>1, LinkKeepsOrder DEF TypeOK, IInv, ListInv
      <3>3. enabled' = enabled \union {t} /\ frac' \in [Timers -> 0..(FracMod - 1)]
        BY <1>0, <3>1, TimerConstants DEF Link, TypeOK
      <3>4. TypeOK'
        BY <1>0, <2>0, <3>2, <3>3 DEF TypeOK
      <3>5. Range(queue') = enabled' \intersect added'
        BY <2>0, <3>2, <3>3 DEF IInv, ListInv
      <3>6. Residents'
        BY <2>0, <3>3 DEF IInv, Residents, Booted
      <3> QED BY <2>0, <3>2, <3>4, <3>5, <3>6 DEF IInv, ListInv, NoCrash
    <2>2. CASE ~start
      <3>1. /\ ts' = [ts EXCEPT ![t] = 0] /\ frac' = [frac EXCEPT ![t] = 0]
            /\ enabled' = enabled \ {t}
            /\ queue' = queue /\ timer_target' = timer_target
        BY <1>7, <2>2 DEF timer_add
      <3>2. TypeOK'
        <4>1. 0 \in 0..(FracMod - 1) /\ 0 \in Int
          BY TimerConstants
        <4>2. ts' \in [Timers -> Int] /\ frac' \in [Timers -> 0..(FracMod - 1)]
          BY <1>0, <3>1, <4>1 DEF TypeOK
        <4> QED BY <1>0, <2>0, <3>1, <4>2 DEF TypeOK
      <3>3. Range(queue') = enabled' \intersect added'
        BY <2>0, <3>1 DEF IInv, ListInv
      <3>4. Ordered(queue', ts', timer_target')
        <4>1. \A j \in 1..Len(queue) : ts'[queue[j]] = ts[queue[j]]
          <5>1. \A j \in 1..Len(queue) : queue[j] \in Range(queue) /\ queue[j] \in Timers
            BY <1>0, LenProperties, ElementOfSeq DEF TypeOK, Range
          <5> QED BY <5>1, <1>0, <2>0, <3>1 DEF TypeOK
        <4> QED BY <3>1, <4>1 DEF IInv, ListInv, Ordered
      <3>5. Residents'
        BY <2>0, <2>2, <3>1 DEF IInv, Residents, Booted
      <3> QED BY <2>0, <3>2, <3>3, <3>4, <3>5 DEF IInv, ListInv, NoCrash
    <2> QED BY <2>1, <2>2
  <1> QED BY <1>1, <1>2, <1>3, <1>4, <1>5, <1>6, <1>7 DEF Device

\* The CPU, the hard reset and the loop of timer_process preserve the invariant.
LEMMA OtherSteps ==
  ASSUME IInv, Cpu \/ Process \/ timer_close \/ timer_init
  PROVE  IInv'
  <1>0. TypeOK /\ ListInv /\ Residents /\ SplitHasPeriod /\ NoCrash
    BY DEF IInv
  <1>1. ASSUME NEW n \in 1..MaxBlock, Execute(n) PROVE IInv'
    <2>1. tsc' \in Nat /\ pc' \in {"cpu", "process"} /\ Booted /\ pc = "cpu"
      BY <1>0, <1>1, TimerConstants DEF Execute, TypeOK
    <2>2. UNCHANGED <<queue, timer_target, stamps, flags, life, cb, crashed>>
      BY <1>1 DEF Execute
    <2>3. TypeOK'
      BY <1>0, <2>1, <2>2 DEF TypeOK, stamps, flags, life
    <2>4. ListInv'
      BY <1>0, <2>2 DEF ListInv, stamps, flags, life
    <2>5. Residents'
      BY <1>0, <2>1, <2>2 DEF Residents, Booted, flags, life
    <2> QED BY <1>0, <2>2, <2>3, <2>4, <2>5 DEF IInv, NoCrash, SplitHasPeriod, flags
  <1>2. CASE Poll
    <2>1. /\ pc = "cpu" /\ pc' = "process" /\ Booted
          /\ UNCHANGED <<queue, timer_target, tsc, stamps, flags, life, cb, crashed>>
      BY <1>2 DEF Poll
    <2>2. TypeOK'
      BY <1>0, <2>1 DEF TypeOK, stamps, flags, life
    <2>3. ListInv'
      BY <1>0, <2>1 DEF ListInv, stamps, flags, life
    <2>4. Residents'
      BY <1>0, <2>1 DEF Residents, Booted, flags, life
    <2> QED BY <1>0, <2>1, <2>2, <2>3, <2>4 DEF IInv, NoCrash, SplitHasPeriod, flags
  <1>3. ASSUME NEW new \in NewTsc, timer_set_new_tsc(new) PROVE IInv'
    <2>1. /\ tsc' = new
          /\ ts' = [t \in Timers |->
                      IF t \in Range(queue) THEN new + (ts[t] - tsc) ELSE ts[t]]
          /\ timer_target' = IF queue = <<>> THEN timer_target
                             ELSE new + (ts[Head(queue)] - tsc)
          /\ UNCHANGED <<queue, frac, flags, life, control, crashed>>
      BY <1>3 DEF timer_set_new_tsc
    <2>2. new \in Nat
      BY TimerConstants
    <2>3. /\ Len(queue) \in Nat
          /\ \A j \in 1..Len(queue) :
               /\ queue[j] \in Timers /\ queue[j] \in Range(queue)
               /\ ts[queue[j]] \in Int
               /\ ts'[queue[j]] = new + (ts[queue[j]] - tsc)
      <3>1. /\ Len(queue) \in Nat
            /\ \A j \in 1..Len(queue) : queue[j] \in Timers /\ queue[j] \in Range(queue)
        BY <1>0, LenProperties, ElementOfSeq DEF TypeOK, Range
      <3> QED BY <1>0, <2>1, <3>1 DEF TypeOK
    <2>4. queue # <<>> => 1 \in 1..Len(queue) /\ Head(queue) = queue[1]
      BY <1>0 DEF TypeOK
    <2>5. TypeOK'
      <3>1. ts' \in [Timers -> Int]
        BY <1>0, <2>1, <2>2 DEF TypeOK
      <3>2. timer_target' \in Int
        BY <1>0, <2>1, <2>2, <2>3, <2>4 DEF TypeOK
      <3> QED BY <1>0, <2>1, <2>2, <3>1, <3>2 DEF TypeOK, flags, life, control
    <2>6. ListInv'
      <3>1. Range(queue') = enabled' \intersect added'
        BY <1>0, <2>1 DEF ListInv, flags, life
      <3>2. ASSUME NEW i \in 1..Len(queue), NEW j \in 1..Len(queue), i <= j
            PROVE  ts'[queue[i]] <= ts'[queue[j]]
        <4>1. ts[queue[i]] <= ts[queue[j]]
          BY <1>0, <3>2 DEF ListInv, Ordered
        <4>2. /\ ts'[queue[i]] = new + (ts[queue[i]] - tsc)
              /\ ts'[queue[j]] = new + (ts[queue[j]] - tsc)
              /\ ts[queue[i]] \in Int /\ ts[queue[j]] \in Int
          BY <2>3
        <4>3. tsc \in Int /\ new \in Int
          BY <1>0, <2>2 DEF TypeOK
        <4> QED BY <4>1, <4>2, <4>3
      <3>3. ASSUME NEW i \in 1..Len(queue) PROVE timer_target' <= ts'[queue[i]]
        <4>1. 1 \in 1..Len(queue) /\ 1 <= i /\ timer_target' = ts'[queue[1]]
          <5>1. queue # <<>>
            BY <3>3, EmptySeq, <1>0 DEF TypeOK
          <5> QED BY <5>1, <2>1, <2>3, <2>4
        <4> QED BY <4>1, <3>2
      <3>4. \A i, j \in 1..Len(queue) : queue[i] = queue[j] => i = j
        BY <1>0 DEF ListInv, Ordered
      <3>5. Ordered(queue, ts', timer_target')
        BY <3>2, <3>3, <3>4 DEF Ordered
      <3> QED BY <2>1, <3>1, <3>5 DEF ListInv
    <2>7. Residents'
      BY <1>0, <2>1 DEF Residents, Booted, flags, life, control
    <2> QED BY <1>0, <2>1, <2>5, <2>6, <2>7 DEF IInv, NoCrash, SplitHasPeriod, flags
  <1>4. CASE timer_close
    <2>1. /\ queue' = <<>> /\ timer_inited' = FALSE /\ added' = {} /\ pc = "cpu"
          /\ UNCHANGED <<timer_target, tsc, stamps, flags, control, crashed>>
      BY <1>4 DEF timer_close
    <2>2. TypeOK'
      <3>1. queue' \in Seq(Timers)
        BY <2>1
      <3> QED BY <1>0, <2>1, <3>1 DEF TypeOK, stamps, flags, control
    <2>3. ListInv'
      <3>1. Range(<<>>) = {} /\ Len(<<>>) = 0
        BY DEF Range
      <3> QED BY <2>1, <3>1 DEF ListInv, Ordered
    <2>4. Residents'
      BY <1>0, <2>1 DEF Residents, control
    <2> QED BY <1>0, <2>1, <2>2, <2>3, <2>4 DEF IInv, NoCrash, SplitHasPeriod, flags
  <1>5. CASE timer_init
    <2>1. /\ ~timer_inited /\ timer_inited' = TRUE /\ timer_target' = 0 /\ tsc' = 0
          /\ pc = "cpu"
          /\ UNCHANGED <<queue, stamps, flags, added, control, crashed>>
      BY <1>5 DEF timer_init
    <2>2. TypeOK'
      BY <1>0, <2>1 DEF TypeOK, stamps, flags, control
    <2>3. ListInv'
      <3>1. Range(queue) = {} /\ added = {}
        BY <1>0, <2>1 DEF ListInv, Residents
      <3>2. Len(queue) = 0
        <4>1. Len(queue) \in Nat /\ DOMAIN queue = 1..Len(queue)
          BY <1>0, LenProperties DEF TypeOK
        <4>2. 1 \notin DOMAIN queue
          BY <3>1 DEF Range
        <4> QED BY <4>1, <4>2
      <3> QED BY <2>1, <3>1, <3>2 DEF ListInv, Ordered
    <2>4. Residents'
      BY <1>0, <2>1 DEF Residents, Booted, flags, control
    <2> QED BY <1>0, <2>1, <2>2, <2>3, <2>4 DEF IInv, NoCrash, SplitHasPeriod, flags
  <1>6. CASE ProcessSplit
    <2> DEFINE t == Head(queue)
               p == period[t]
    <2>1. pc = "process" /\ t \in split /\ crashed' = (Tail(queue) = <<>>)
          /\ SetPeriod(t, p) /\ UNCHANGED <<tsc, in_callback, life, control>>
      BY <1>6 DEF ProcessSplit, Expired
    <2>2. queue # <<>> /\ crashed' = FALSE
      BY <2>1, TailNotEmpty
    <2>3. /\ Tail(queue) \in Seq(Timers) /\ t \in Range(queue)
          /\ Range(Tail(queue)) = Range(queue) \ {t}
          /\ Ordered(Tail(queue), ts, timer_target)
      BY <1>0, <2>2, TailKeepsOrder DEF TypeOK, ListInv
    <2>4. t \in Timers /\ t \in enabled /\ t \in added /\ p \in Nat
      BY <1>0, <2>1, <2>3 DEF TypeOK, ListInv
    <2>5. split' \subseteq Timers /\ period' \in [Timers -> Nat] /\ SplitHasPeriod'
      BY <1>0, <2>1, <2>4, SetPeriodTypes
    <2>6. p > 0
      BY <1>0, <2>1, <2>4 DEF SplitHasPeriod
    <2> DEFINE i == AdvancedInt(t, Piece(p))
               f == AdvancedFrac(t, Piece(p))
    <2>7. Link(Tail(queue), t, i, f)
      BY <1>6, <2>6 DEF ProcessSplit
    <2>8. i \in Int /\ f \in 0..(FracMod - 1)
      BY <1>0, <2>4, PeriodTypes, DelayTypes
    <2> HIDE DEF t, p, i, f
    <2>9. /\ queue' \in Seq(Timers)
          /\ Range(queue') = Range(Tail(queue)) \union {t}
          /\ timer_target' \in Int
          /\ ts' \in [Timers -> Int]
          /\ Ordered(queue', ts', timer_target')
      BY <1>0, <2>3, <2>4, <2>7, <2>8, LinkKeepsOrder DEF TypeOK
    <2>10. enabled' = enabled \union {t} /\ frac' \in [Timers -> 0..(FracMod - 1)]
      BY <1>0, <2>4, <2>7, <2>8 DEF Link, TypeOK
    <2>11. TypeOK'
      BY <1>0, <2>1, <2>2, <2>4, <2>5, <2>9, <2>10 DEF TypeOK, life, control
    <2>12. Range(queue') = enabled' \intersect added'
      BY <1>0, <2>1, <2>3, <2>4, <2>9, <2>10 DEF ListInv, life
    <2>13. Residents'
      BY <1>0, <2>1, <2>10 DEF Residents, Booted, life, control
    <2> QED BY <2>2, <2>5, <2>9, <2>11, <2>12, <2>13 DEF IInv, ListInv, NoCrash
  <1>7. CASE ProcessExpired
    <2> DEFINE t == Head(queue)
    <2>1. /\ pc = "process" /\ crashed' = (Tail(queue) = <<>>)
          /\ queue' = Tail(queue) /\ enabled' = enabled \ {t}
          /\ UNCHANGED <<timer_target, tsc, stamps, split, period, life>>
      BY <1>7 DEF ProcessExpired, Expired
    <2>2. queue # <<>> /\ crashed' = FALSE
      BY <2>1, TailNotEmpty
    <2>3. /\ Tail(queue) \in Seq(Timers) /\ t \in Range(queue)
          /\ Range(Tail(queue)) = Range(queue) \ {t}
          /\ Ordered(Tail(queue), ts, timer_target)
      BY <1>0, <2>2, TailKeepsOrder DEF TypeOK, ListInv
    <2>4. t \in Timers /\ t \in added
      BY <1>0, <2>3 DEF TypeOK, ListInv
    <2>5. \/ t \in NullCallback /\ UNCHANGED <<in_callback, pc, cb>>
          \/ in_callback' = in_callback \union {t} /\ pc' = "callback" /\ cb' = t
      BY <1>7 DEF ProcessExpired, control
    <2> HIDE DEF t
    <2>6. TypeOK'
      BY <1>0, <2>1, <2>2, <2>3, <2>4, <2>5 DEF TypeOK, stamps, life
    <2>7. ListInv'
      <3>1. Range(queue') = enabled' \intersect added'
        BY <1>0, <2>1, <2>3 DEF ListInv, life
      <3> QED BY <2>1, <2>3, <3>1 DEF ListInv, stamps
    <2>8. Residents'
      <3>1. NullCallback \intersect Permanent = {}
        BY TimerConstants
      <3> QED BY <1>0, <2>1, <2>4, <2>5, <3>1 DEF Residents, Booted, life
    <2>9. SplitHasPeriod'
      BY <1>0, <2>1 DEF SplitHasPeriod
    <2> QED BY <2>2, <2>6, <2>7, <2>8, <2>9 DEF IInv, NoCrash
  <1>8. CASE CallbackReturn
    <2>1. /\ pc = "callback" /\ pc' = "process" /\ cb' = None
          /\ cb \in Permanent => cb \in enabled
          /\ in_callback' = in_callback \ {cb}
          /\ crashed' = (queue = <<>>)
          /\ UNCHANGED <<queue, timer_target, tsc, stamps, enabled, split, period, life>>
      BY <1>8 DEF CallbackReturn
    <2>2. crashed' = FALSE
      <3>1. PICK x \in Permanent : TRUE
        BY TimerConstants
      <3>2. x \in enabled /\ x \in added
        BY <1>0, <2>1, <3>1 DEF Residents, Booted
      <3>3. x \in Range(queue)
        BY <1>0, <3>2 DEF ListInv
      <3>4. Range(<<>>) = {}
        BY DEF Range
      <3> QED BY <2>1, <3>3, <3>4
    <2>3. TypeOK'
      BY <1>0, <2>1, <2>2 DEF TypeOK, stamps, life
    <2>4. ListInv'
      BY <1>0, <2>1 DEF ListInv, stamps, life
    <2>5. Residents'
      BY <1>0, <2>1 DEF Residents, Booted, life
    <2>6. SplitHasPeriod'
      BY <1>0, <2>1 DEF SplitHasPeriod
    <2> QED BY <2>2, <2>3, <2>4, <2>5, <2>6 DEF IInv, NoCrash
  <1>9. CASE ProcessEnd
    <2>1. /\ pc = "process" /\ pc' = "cpu" /\ timer_target' = ts[Head(queue)]
          /\ UNCHANGED <<queue, tsc, stamps, flags, life, cb, crashed>>
      BY <1>9 DEF ProcessEnd
    <2>2. queue # <<>>
      BY <2>1, TailNotEmpty
    <2>3. Head(queue) = queue[1] /\ 1 \in 1..Len(queue) /\ queue[1] \in Timers
      BY <1>0, <2>2, ElementOfSeq, EmptySeq DEF TypeOK
    <2>4. TypeOK'
      BY <1>0, <2>1, <2>3 DEF TypeOK, stamps, flags, life
    <2>5. ListInv'
      <3>1. \A i \in 1..Len(queue) : 1 <= i => ts[queue[1]] <= ts[queue[i]]
        BY <1>0, <2>3 DEF ListInv, Ordered
      <3>2. \A i \in 1..Len(queue) : timer_target' <= ts[queue[i]]
        BY <2>1, <2>3, <3>1
      <3>3. Ordered(queue, ts, timer_target')
        BY <1>0, <3>2 DEF ListInv, Ordered
      <3> QED BY <1>0, <2>1, <3>3 DEF ListInv, stamps, flags, life
    <2>6. Residents'
      BY <1>0, <2>1 DEF Residents, flags, life
    <2> QED BY <1>0, <2>1, <2>4, <2>5, <2>6 DEF IInv, NoCrash, SplitHasPeriod, flags
  <1> QED BY <1>1, <1>2, <1>3, <1>4, <1>5, <1>6, <1>7, <1>8, <1>9 DEF Cpu, Process

-----------------------------------------------------------------------------
(* The theorems.                                                           *)

\* The invariant holds of every behaviour of timer.c.
LEMMA Invariance == Spec => []IInv
  <1>1. Init => IInv
    <2> SUFFICES ASSUME Init PROVE IInv
      OBVIOUS
    <2>1. TypeOK
      <3>1. 0 \in 0..(FracMod - 1) /\ <<>> \in Seq(Timers)
        BY TimerConstants
      <3>2. /\ ts \in [Timers -> Int] /\ frac \in [Timers -> 0..(FracMod - 1)]
            /\ period \in [Timers -> Nat]
        BY <3>1 DEF Init
      <3>3. /\ queue \in Seq(Timers) /\ timer_target \in Int /\ tsc \in Nat
            /\ timer_inited \in BOOLEAN /\ crashed \in BOOLEAN
            /\ pc \in {"cpu", "process", "callback"} /\ cb \in Timers \union {None}
        <4>1. queue \in Seq(Timers)
          BY <3>1, Zenon DEF Init
        <4>2. timer_target \in Int /\ tsc \in Nat
          BY DEF Init
        <4>3. timer_inited \in BOOLEAN /\ crashed \in BOOLEAN
          BY Zenon DEF Init
        <4>4. pc \in {"cpu", "process", "callback"} /\ cb \in Timers \union {None}
          BY Zenon DEF Init
        <4> QED BY <4>1, <4>2, <4>3, <4>4
      <3>4. /\ enabled \subseteq Timers /\ split \subseteq Timers
            /\ in_callback \subseteq Timers /\ added \subseteq Timers
        BY DEF Init
      <3> QED BY <3>2, <3>3, <3>4 DEF TypeOK
    <2>2. Range(<<>>) = {} /\ Len(<<>>) = 0
      BY DEF Range
    <2>3. ListInv
      BY <2>2 DEF Init, ListInv, Ordered
    <2>4. Residents /\ SplitHasPeriod /\ NoCrash
      BY DEF Init, Residents, SplitHasPeriod, NoCrash
    <2> QED BY <2>1, <2>3, <2>4 DEF IInv
  <1>2. IInv /\ [Next]_vars => IInv'
    <2> SUFFICES ASSUME IInv, [Next]_vars PROVE IInv'
      OBVIOUS
    <2>1. ASSUME NEW t \in Timers, Device(t) PROVE IInv'
      BY <2>1, DeviceStep
    <2>2. CASE Cpu \/ Process \/ timer_close \/ timer_init
      BY <2>2, OtherSteps
    <2>3. CASE UNCHANGED vars
      BY <2>3, FlagStep DEF vars, flags, IInv, TypeOK, SplitHasPeriod
    <2> QED BY <2>1, <2>2, <2>3 DEF Next
  <1> QED BY <1>1, <1>2, PTL DEF Spec

\* Type correctness of timer.c's state, for every machine.
THEOREM TypeCorrect == Spec => []TypeOK
  <1>1. IInv => TypeOK
    BY DEF IInv
  <1> QED BY <1>1, Invariance, PTL

\* The list and the TIMER_ENABLED flags agree, and the list is sorted, between
\* any two steps: also inside callbacks, across hard resets and TSC writes.
THEOREM ListCorrect == Spec => [](ListMatchesFlags /\ ListSorted)
  <1>1. IInv => ListMatchesFlags /\ ListSorted
    BY DEF IInv, ListInv, Ordered, ListMatchesFlags, ListSorted
  <1> QED BY <1>1, Invariance, PTL

\* The CPU core, which looks at timer_target only, never runs past the first
\* timer of the list unnoticed.
THEOREM TargetCorrect == Spec => []TargetNotLate
  <1>1. IInv => TargetNotLate
    BY DEF IInv, ListInv, Ordered, TargetNotLate
  <1> QED BY <1>1, Invariance, PTL

\* With two permanent timers timer_process never follows a NULL pointer, and
\* timer_disable never takes its deliberate crash.
THEOREM NeverCrashes == Spec => []NoCrash
  <1>1. IInv => NoCrash
    BY DEF IInv
  <1> QED BY <1>1, Invariance, PTL

\* A split period always has a rest to come: timer_advance_ex never drops a
\* timer in mid-period.
THEOREM SplitCorrect == Spec => []SplitHasPeriod
  <1>1. IInv => SplitHasPeriod
    BY DEF IInv
  <1> QED BY <1>1, Invariance, PTL

-----------------------------------------------------------------------------
(* The list implements TimerService.                                       *)

\* Division by the parts of a cycle.
LEMMA Quotient ==
  ASSUME NEW F \in Nat \ {0}, NEW x \in Int
  PROVE  x \div F \in Int /\ x % F \in 0..(F - 1) /\ x = (x \div F) * F + (x % F)
  OBVIOUS

LEMMA WholePart ==
  ASSUME NEW F \in Nat \ {0}, NEW a \in Int, NEW r \in Nat
  PROVE  /\ a * F + r \in Int
         /\ a <= (a * F + r) \div F
         /\ r < F => (a * F + r) \div F = a
  <1>1. (a * F + r) \div F = a + r \div F
    OBVIOUS
  <1>2. r \div F \in Nat /\ (r < F => r \div F = 0)
    OBVIOUS
  <1>3. a * F + r \in Int
    OBVIOUS
  <1> QED BY <1>1, <1>2, <1>3

LEMMA Reorder ==
  ASSUME NEW a \in Int, NEW b \in Int, NEW c \in Int, NEW e \in Int, NEW f \in Int,
         NEW g \in Int, c + e = f + g
  PROVE  a + b + c + e = a + f + (b + g)
  OBVIOUS

\* Advancing a timer by d, shorter than half the range of a delay, moves its
\* timestamp by d exactly: no fraction is lost.
LEMMA AdvancesBy ==
  ASSUME TypeOK, NEW t \in Timers, NEW d \in Nat, d < SignBit * FracMod
  PROVE  AdvancedInt(t, d) * FracMod + AdvancedFrac(t, d) = ts[t] * FracMod + frac[t] + d
  <1> DEFINE F == FracMod
             D == d \div F
             r == d % F
             x == frac[t] + r
             X == x \div F
             y == x % F
  <1>1. F \in Nat \ {0} /\ SignBit \in Nat \ {0} /\ ts[t] \in Int /\ frac[t] \in Nat
    BY TimerConstants DEF TypeOK
  <1>2. D \in Int /\ r \in Nat /\ d = D * F + r
    <2>1. D \in Int /\ r \in 0..(F - 1) /\ d = D * F + r
      <3>1. d \in Int
        OBVIOUS
      <3> QED BY <1>1, <3>1, Quotient, Zenon
    <2> HIDE DEF D, r
    <2> QED BY <1>1, <2>1
  <1>3. D < SignBit
    BY <1>1
  <1> HIDE DEF D, r
  <1>4. X \in Int /\ y \in Nat /\ x = X * F + y
    <2>1. x \in Int
      BY <1>1, <1>2
    <2>2. X \in Int /\ y \in 0..(F - 1) /\ x = X * F + y
      BY <1>1, <2>1, Quotient, Zenon
    <2> HIDE DEF X, y
    <2> QED BY <1>1, <2>2
  <1>5. IntDelay(d) = D /\ FracDelay(d) = r
    BY <1>1, <1>2, <1>3 DEF IntDelay, FracDelay, D, r
  <1>6. AdvancedInt(t, d) = ts[t] + D + X /\ AdvancedFrac(t, d) = y
    BY <1>5 DEF AdvancedInt, AdvancedFrac
  <1>7. x = frac[t] + r
    OBVIOUS
  <1> HIDE DEF x, X, y, F
  <1>8. (ts[t] + D + X) * F + y = ts[t] * F + D * F + X * F + y
    BY <1>1, <1>2, <1>4
  <1>9. D * F \in Int /\ X * F \in Int /\ ts[t] * F \in Int
    BY <1>1, <1>2, <1>4
  <1>10. ts[t] * F + D * F + X * F + y = ts[t] * F + frac[t] + d
    <2> DEFINE u == ts[t] * F
               v == D * F
               w == X * F
    <2>1. u \in Int /\ v \in Int /\ w \in Int /\ d = v + r /\ x = w + y
      BY <1>2, <1>4, <1>9
    <2> HIDE DEF u, v, w
    <2>2. w + y = frac[t] + r
      BY <1>7, <2>1, Zenon
    <2>3. frac[t] \in Int /\ r \in Int /\ y \in Int
      BY <1>1, <1>2, <1>4
    <2>4. u + v + w + y = u + frac[t] + (v + r)
      BY <2>1, <2>2, <2>3, Reorder
    <2> QED BY <2>1, <2>4, Zenon DEF u, v, w
  <1> QED BY <1>6, <1>8, <1>10 DEF F

\* The pieces of a period add up to the period, and each is short.
LEMMA PiecesAddUp ==
  ASSUME NEW p \in Nat
  PROVE  /\ Piece(p) + Rest(p) * TIMER_USEC = p * TIMER_USEC
         /\ Piece(p) < SignBit * FracMod
  <1>1. /\ MAX_USEC \in Nat /\ TIMER_USEC \in Nat /\ SignBit \in Nat /\ FracMod \in Nat
        /\ MAX_USEC * TIMER_USEC < SignBit * FracMod
    BY TimerConstants
  <1>2. CASE p > MAX_USEC
    <2>1. Piece(p) = MAX_USEC * TIMER_USEC /\ Rest(p) = p - MAX_USEC
      BY <1>2 DEF Piece, Rest
    <2>2. MAX_USEC * TIMER_USEC + (p - MAX_USEC) * TIMER_USEC = p * TIMER_USEC
      BY <1>1
    <2> QED BY <1>1, <2>1, <2>2
  <1>3. CASE ~(p > MAX_USEC)
    <2>1. Piece(p) = p * TIMER_USEC /\ Rest(p) = 0
      BY <1>3 DEF Piece, Rest
    <2>2. p * TIMER_USEC <= MAX_USEC * TIMER_USEC /\ p * TIMER_USEC \in Nat
      BY <1>1, <1>3
    <2>3. SignBit * FracMod \in Nat /\ MAX_USEC * TIMER_USEC \in Nat
      BY <1>1
    <2> QED BY <1>1, <2>1, <2>2, <2>3
  <1> QED BY <1>2, <1>3

\* The step leaves alone every timer but t, the clock and the control.
Touches(t) ==
  /\ pc # "process" /\ UNCHANGED <<tsc, control>>
  /\ \A u \in Timers \ {t} : /\ u \in Range(queue') <=> u \in Range(queue)
                             /\ ts'[u] = ts[u] /\ frac'[u] = frac[u] /\ period'[u] = period[u]

LEMMA EnableTouches ==
  ASSUME IInv, NEW t \in added, NEW i, NEW f, Enable(t, i, f),
         pc # "process", UNCHANGED <<tsc, control>>,
         \A u \in Timers \ {t} : period'[u] = period[u]
  PROVE  Touches(t)
  <1> DEFINE q == IF t \in enabled THEN Unlink(queue, t) ELSE queue
  <1>0. t \in Timers /\ TypeOK /\ i \in Int
    BY TimerConstants, SMTT(30) DEF IInv, TypeOK, Enable
  <1>1. /\ q \in Seq(Timers) /\ t \notin Range(q)
        /\ Range(q) \union {t} = Range(queue) \union {t}
        /\ Ordered(q, ts, timer_target)
    BY Relinked
  <1>2. Link(q, t, i, f)
    BY DEF Enable
  <1> HIDE DEF q
  <1>3. Range(queue') = Range(q) \union {t}
    BY <1>0, <1>1, <1>2, LinkKeepsOrder DEF TypeOK
  <1>4. \A u \in Timers \ {t} : ts'[u] = ts[u] /\ frac'[u] = frac[u]
    BY <1>0, <1>2 DEF Link, TypeOK
  <1> QED BY <1>1, <1>3, <1>4 DEF Touches

LEMMA DetachTouches ==
  ASSUME IInv, NEW t \in added, Detach(t), pc # "process", UNCHANGED <<tsc, stamps, control>>,
         \A u \in Timers \ {t} : period'[u] = period[u]
  PROVE  Touches(t)
  BY DetachKeeps DEF Touches, stamps

LEMMA StopTouches ==
  ASSUME IInv, NEW t \in Timers, timer_inited => t \in added, Stop(t), pc # "process",
         UNCHANGED <<tsc, stamps, control>>
  PROVE  Touches(t)
  <1>1. CASE timer_inited
    <2>1. Detach(t) /\ t \in added /\ \A u \in Timers \ {t} : period'[u] = period[u]
      BY <1>1 DEF Stop, IInv, TypeOK
    <2> QED BY <2>1, DetachTouches
  <1>2. CASE ~timer_inited
    BY <1>2 DEF Stop, Touches, flags, stamps
  <1> QED BY <1>1, <1>2

\* Every call of the API touches the timer it is called with.
LEMMA DeviceTouches ==
  ASSUME IInv, NEW t \in Timers, Device(t)
  PROVE  Touches(t)
  <1>0. TypeOK
    BY DEF IInv
  <1>1. ASSUME NEW d \in Delays, timer_set_delay_u64(t, d) PROVE Touches(t)
    <2>1. t \in added /\ Enable(t, tsc + IntDelay(d), FracDelay(d))
      BY <1>1 DEF timer_set_delay_u64, Calling, SetDelay
    <2> QED BY <1>1, <2>1, EnableTouches DEF timer_set_delay_u64, Calling
  <1>2. ASSUME NEW d \in Delays, timer_advance_u64(t, d) PROVE Touches(t)
    <2>1. /\ t \in added /\ Enable(t, AdvancedInt(t, d), AdvancedFrac(t, d))
          /\ pc # "process"
      BY <1>2 DEF timer_advance_u64, Advancing, Calling, Advance, IInv, Residents, Booted
    <2> QED BY <1>2, <2>1, EnableTouches DEF timer_advance_u64
  <1>3. ASSUME NEW p \in Periods, timer_on_auto(t, p) PROVE Touches(t)
    <2>1. t \in added /\ pc # "process" /\ UNCHANGED <<tsc, control>>
      BY <1>3 DEF timer_on_auto, Calling
    <2>2. CASE p = 0
      <3>1. Stop(t) /\ UNCHANGED stamps
        BY <1>3, <2>2 DEF timer_on_auto
      <3> QED BY <2>1, <3>1, StopTouches
    <2>3. CASE p # 0
      <3>1. /\ \/ Enable(t, tsc + IntDelay(Piece(p)), FracDelay(Piece(p)))
               \/ Enable(t, AdvancedInt(t, Piece(p)), AdvancedFrac(t, Piece(p)))
            /\ SetPeriod(t, p)
        BY <1>3, <2>3 DEF timer_on_auto, SetDelay, Advance
      <3>2. \A u \in Timers \ {t} : period'[u] = period[u]
        BY <1>0, <3>1 DEF SetPeriod, TypeOK
      <3> QED BY <2>1, <3>1, <3>2, EnableTouches
    <2> QED BY <2>2, <2>3
  <1>4. CASE timer_enable(t)
    <2>1. t \in added /\ Enable(t, ts[t], frac[t])
      BY <1>4 DEF timer_enable, Calling
    <2> QED BY <1>4, <2>1, EnableTouches DEF timer_enable, Calling
  <1>5. CASE timer_disable(t)
    <2>1. CASE timer_inited /\ t \in enabled
      BY <1>5, <2>1, DetachTouches DEF timer_disable, Cancelling
    <2>2. CASE ~(timer_inited /\ t \in enabled)
      BY <1>5, <2>2 DEF timer_disable, Cancelling, Touches, stamps
    <2> QED BY <2>1, <2>2
  <1>6. CASE timer_stop(t)
    BY <1>6, StopTouches DEF timer_stop, Cancelling
  <1>7. ASSUME NEW start \in BOOLEAN, timer_add(t, start) PROVE Touches(t)
    <2>1. /\ pc = "cpu" /\ t \notin Range(queue) /\ UNCHANGED <<tsc, control>>
          /\ period' = [period EXCEPT ![t] = 0]
      BY <1>7 DEF timer_add
    <2>2. \A u \in Timers \ {t} : period'[u] = period[u]
      BY <1>0, <2>1 DEF TypeOK
    <2>3. CASE start = TRUE
      <3>1. Link(queue, t, tsc, 0)
        BY <1>7, <2>3 DEF timer_add
      <3>2. Range(queue') = Range(queue) \union {t}
        <4>1. /\ queue \in Seq(Timers) /\ tsc \in Int /\ ts \in [Timers -> Int]
              /\ timer_target \in Int /\ Ordered(queue, ts, timer_target)
          BY <1>0 DEF TypeOK, IInv, ListInv
        <4> QED BY <2>1, <3>1, <4>1, LinkKeepsOrder
      <3>3. \A u \in Timers \ {t} : ts'[u] = ts[u] /\ frac'[u] = frac[u]
        BY <1>0, <3>1 DEF Link, TypeOK
      <3> QED BY <2>1, <2>2, <3>2, <3>3 DEF Touches
    <2>4. CASE start = FALSE
      <3>1. /\ queue' = queue /\ ts' = [ts EXCEPT ![t] = 0] /\ frac' = [frac EXCEPT ![t] = 0]
        BY <1>7, <2>4 DEF timer_add
      <3>2. \A u \in Timers \ {t} : ts'[u] = ts[u] /\ frac'[u] = frac[u]
        BY <1>0, <3>1 DEF TypeOK
      <3> QED BY <2>1, <2>2, <3>1, <3>2 DEF Touches
    <2> QED BY <2>3, <2>4
  <1> QED BY <1>1, <1>2, <1>3, <1>4, <1>5, <1>6, <1>7 DEF Device

\* What TimerService is told of each timer.
Amount(t) == (ts[t] - tsc) * FracMod + frac[t] + period[t] * TIMER_USEC
Lefts == [t \in Timers |-> TimeLeft(t)]

LEMMA AmountParts ==
  ASSUME NEW a \in Int, NEW b \in Int, NEW f \in 0..(FracMod - 1), NEW p \in Nat
  PROVE  LET x == (a - b) * FracMod + f + p * TIMER_USEC
         IN  /\ x \in Int
             /\ a - b <= x \div FracMod
             /\ p = 0 => x \div FracMod = a - b
  <1> DEFINE r == f + p * TIMER_USEC
             x == (a - b) * FracMod + f + p * TIMER_USEC
  <1>1. FracMod \in Nat \ {0} /\ TIMER_USEC \in Nat /\ f \in Nat /\ f < FracMod /\ a - b \in Int
    BY TimerConstants
  <1>2. p * TIMER_USEC \in Nat /\ (p = 0 => p * TIMER_USEC = 0)
    BY <1>1
  <1>3. r \in Nat /\ (p = 0 => r < FracMod)
    BY <1>1, <1>2
  <1>4. x = (a - b) * FracMod + r
    <2>1. (a - b) * FracMod \in Int
      BY <1>1
    <2> QED BY <1>1, <1>2, <2>1
  <1> HIDE DEF r, x
  <1>5. /\ (a - b) * FracMod + r \in Int
        /\ a - b <= ((a - b) * FracMod + r) \div FracMod
        /\ r < FracMod => ((a - b) * FracMod + r) \div FracMod = a - b
    BY <1>1, <1>3, WholePart
  <1>6. /\ x \in Int /\ a - b <= x \div FracMod /\ (p = 0 => x \div FracMod = a - b)
    BY <1>3, <1>4, <1>5
  <1> QED BY <1>6 DEF x

\* The running timers are the timers on the list, and a timer on the list has
\* no fewer whole cycles left than its timestamp says.
RunningFacts ==
  /\ Service!Running = {t \in Timers : t \in Range(queue)}
  /\ \A t \in Timers : t \in Range(queue) =>
       /\ Service!Cycles(t) \in Int
       /\ ts[t] - tsc <= Service!Cycles(t)
       /\ period[t] = 0 => Service!Cycles(t) = ts[t] - tsc

LEMMA RunningNow == TypeOK => RunningFacts
  <1> SUFFICES ASSUME TypeOK PROVE RunningFacts
    OBVIOUS
  <1>1. ASSUME NEW t \in Timers
        PROVE  /\ Amount(t) \in Int /\ Amount(t) # None
               /\ ts[t] - tsc <= Amount(t) \div FracMod
               /\ period[t] = 0 => Amount(t) \div FracMod = ts[t] - tsc
    <2>1. /\ ts[t] \in Int /\ tsc \in Int /\ frac[t] \in 0..(FracMod - 1) /\ period[t] \in Nat
          /\ None \notin Int
      BY TimerConstants DEF TypeOK
    <2>2. /\ Amount(t) \in Int
          /\ ts[t] - tsc <= Amount(t) \div FracMod
          /\ period[t] = 0 => Amount(t) \div FracMod = ts[t] - tsc
      BY <2>1, AmountParts, Zenon DEF Amount
    <2> QED BY <2>1, <2>2
  <1>2. \A t \in Timers : TimeLeft(t) = IF t \in Range(queue) THEN Amount(t) ELSE None
    BY Zenon DEF TimeLeft, Amount
  <1>3. \A t \in Timers : Lefts[t] = TimeLeft(t)
    BY Zenon DEF Lefts
  <1>4. Service!Running = {t \in Timers : Lefts[t] # None}
    BY Zenon DEF Service!Running, Lefts
  <1>5. \A t : Service!Cycles(t) = Lefts[t] \div FracMod
    BY Zenon DEF Service!Cycles, Lefts
  <1>6. Service!Running = {t \in Timers : t \in Range(queue)}
    BY <1>1, <1>2, <1>3, <1>4
  <1>7. ASSUME NEW t \in Timers, t \in Range(queue)
        PROVE  /\ Service!Cycles(t) \in Int
               /\ ts[t] - tsc <= Service!Cycles(t)
               /\ period[t] = 0 => Service!Cycles(t) = ts[t] - tsc
    <2>1. Service!Cycles(t) = Amount(t) \div FracMod
      BY <1>2, <1>3, <1>5, <1>7, Zenon
    <2>2. Amount(t) \div FracMod \in Int
      BY <1>1, Quotient, TimerConstants
    <2> QED BY <1>1, <2>1, <2>2, Zenon
  <1> QED BY <1>6, <1>7, Zenon DEF RunningFacts

LEMMA RunningNext == TypeOK' => RunningFacts'
  BY RunningNow, PTL

\* What the control says of the callback, and the whole invariant.
Idle == pc # "callback" => cb = None
RInv == IInv /\ Idle

LEMMA NextIdle == IInv /\ Idle /\ [Next]_vars => Idle'
  <1> SUFFICES ASSUME IInv, Idle, [Next]_vars PROVE Idle'
    OBVIOUS
  <1>1. ASSUME NEW t \in Timers, Device(t) PROVE Idle'
    BY <1>1, DeviceTouches DEF Touches, Idle, control
  <1>2. CASE Cpu
    BY <1>2 DEF Cpu, Execute, timer_set_new_tsc, Poll, Idle, control
  <1>3. CASE Process
    BY <1>3 DEF Process, ProcessSplit, ProcessExpired, CallbackReturn, ProcessEnd, Expired, Idle, control
  <1>4. CASE timer_close \/ timer_init
    BY <1>4 DEF timer_close, timer_init, Idle, control
  <1>5. CASE UNCHANGED vars
    BY <1>5 DEF vars, control, Idle
  <1> QED BY <1>1, <1>2, <1>3, <1>4, <1>5 DEF Next

\* A step that touches one timer is Program.
LEMMA SimProgram ==
  ASSUME RInv, NEW t \in Timers, Touches(t)
  PROVE  Service!Next
  <1>1. \A u \in Timers \ {t} : TimeLeft(u)' = TimeLeft(u)
    BY DEF Touches, TimeLeft
  <1>2. Lefts' = [Lefts EXCEPT ![t] = Lefts'[t]]
    <2>1. \A u \in Timers : Lefts'[u] = TimeLeft(u)' /\ Lefts[u] = TimeLeft(u)
      BY Zenon DEF Lefts
    <2>2. DOMAIN Lefts' = Timers /\ DOMAIN Lefts = Timers
      BY Zenon DEF Lefts
    <2>3. Lefts' = [u \in Timers |-> Lefts'[u]] /\ Lefts = [u \in Timers |-> Lefts[u]]
      BY Zenon DEF Lefts
    <2> QED BY <1>1, <2>1, <2>2, <2>3
  <1>3. ~(pc # "cpu") \/ cb # None
    BY TimerConstants DEF Touches, RInv, IInv, Residents, TypeOK
  <1>4. (pc # "cpu")' = (pc # "cpu") /\ cb' = cb
    BY DEF Touches, control
  <1>5. Service!Program(t)
    BY <1>2, <1>3, <1>4, Zenon DEF Service!Program, Lefts
  <1> QED BY <1>5, Zenon DEF Service!Next

\* Nothing a timer has left changes: TimerService does not see the step.
LEMMA SimStutter ==
  ASSUME \A t \in Timers : TimeLeft(t)' = TimeLeft(t), UNCHANGED control
  PROVE  UNCHANGED Service!vars
  <1>1. Lefts' = Lefts
    BY Zenon DEF Lefts
  <1>2. (pc # "cpu")' = (pc # "cpu") /\ cb' = cb
    BY DEF control
  <1> QED BY <1>1, <1>2, Zenon DEF Service!vars, Lefts

\* No timer is on an empty list.
LEMMA EmptyList == Range(<<>>) = {}
  BY DEF Range

\* The first timer of the list, and every other not before it.
LEMMA FirstOfList ==
  ASSUME IInv, queue # <<>>
  PROVE  /\ Head(queue) \in Timers /\ Head(queue) \in Range(queue)
         /\ \A t \in Range(queue) : ts[Head(queue)] <= ts[t] /\ timer_target <= ts[t]
  <1>1. TypeOK /\ Ordered(queue, ts, timer_target)
    BY DEF IInv, ListInv
  <1>2. /\ Head(queue) = queue[1] /\ Len(queue) \in Nat /\ 1 \in 1..Len(queue)
        /\ DOMAIN queue = 1..Len(queue)
    BY <1>1, EmptySeq, LenProperties DEF TypeOK
  <1>3. Head(queue) \in Timers /\ Head(queue) \in Range(queue)
    BY <1>1, <1>2, ElementOfSeq DEF TypeOK, Range
  <1>4. ASSUME NEW t \in Range(queue)
        PROVE  ts[Head(queue)] <= ts[t] /\ timer_target <= ts[t]
    <2>1. PICK i \in 1..Len(queue) : queue[i] = t
      BY <1>2 DEF Range
    <2>2. 1 <= i
      OBVIOUS
    <2> QED BY <1>1, <1>2, <2>1, <2>2 DEF Ordered
  <1> QED BY <1>3, <1>4

\* One instruction or block is Elapse: if it makes a timer due, timer_target
\* has been reached and timer_process runs before anything else.
LEMMA SimExecute ==
  ASSUME RInv, RInv', NEW n \in 1..MaxBlock, Execute(n)
  PROVE  Service!Next
  <1>0. TypeOK /\ TypeOK' /\ IInv /\ RunningFacts /\ RunningFacts'
    BY RunningNow, RunningNext DEF RInv, IInv
  <1>1. /\ pc = "cpu" /\ tsc' = tsc + n /\ n \in Int
        /\ pc' = IF timer_target <= tsc + n /\ queue # <<>> THEN "process" ELSE "cpu"
        /\ UNCHANGED <<queue, timer_target, ts, frac, period, cb>>
    BY TimerConstants DEF Execute, stamps, flags
  <1>2. ASSUME NEW t \in Timers
        PROVE  TimeLeft(t)' = IF t \in Range(queue) THEN TimeLeft(t) - n * FracMod ELSE None
    <2>1. CASE t \notin Range(queue)
      BY <1>1, <2>1 DEF TimeLeft
    <2>2. CASE t \in Range(queue)
      <3> DEFINE c == frac[t]
                 e == period[t] * TIMER_USEC
                 a == ts[t]
      <3>1. /\ a \in Int /\ tsc \in Int /\ c \in Int /\ e \in Int /\ FracMod \in Int
        BY <1>0, TimerConstants DEF TypeOK
      <3>2. TimeLeft(t) = (a - tsc) * FracMod + c + e
        BY <2>2, Zenon DEF TimeLeft
      <3>3. TimeLeft(t)' = (a - (tsc + n)) * FracMod + c + e
        BY <1>1, <2>2 DEF TimeLeft
      <3> HIDE DEF a, c, e
      <3>4. (a - (tsc + n)) * FracMod + c + e = ((a - tsc) * FracMod + c + e) - n * FracMod
        BY <1>1, <3>1
      <3> QED BY <2>2, <3>2, <3>3, <3>4
    <2> QED BY <2>1, <2>2
  <1>3. Lefts' = [t \in Timers |-> IF t \in Service!Running THEN Lefts[t] - n * FracMod ELSE None]
    <2>1. \A t \in Timers : t \in Service!Running <=> t \in Range(queue)
      BY <1>0 DEF RunningFacts
    <2>2. \A t \in Timers : Lefts[t] = TimeLeft(t)
      BY Zenon DEF Lefts
    <2>3. \A t \in Timers : TimeLeft(t)' = IF t \in Service!Running THEN Lefts[t] - n * FracMod ELSE None
      BY <1>2, <2>1, <2>2, Zenon
    <2> QED BY <2>3, Zenon DEF Lefts
  <1>4. ASSUME NEW t \in Service!Due' PROVE pc' = "process"
    <2>1. t \in Timers /\ t \in Range(queue) /\ Service!Cycles(t)' <= 0
      <3>1. t \in Service!Running' /\ Service!Cycles(t)' <= 0
        BY <1>4, Zenon DEF Service!Due
      <3> QED BY <1>0, <1>1, <3>1 DEF RunningFacts
    <2>2. ts[t] - (tsc + n) <= Service!Cycles(t)' /\ Service!Cycles(t)' \in Int
      BY <1>0, <1>1, <2>1 DEF RunningFacts
    <2>3. ts[t] \in Int /\ tsc \in Int /\ timer_target \in Int
      BY <1>0, <2>1 DEF TypeOK
    <2>4. ts[t] <= tsc + n
      BY <1>1, <2>1, <2>2, <2>3
    <2>5. queue # <<>>
      BY <2>1, EmptyList
    <2>6. timer_target <= ts[t]
      BY <1>0, <2>1, <2>5, FirstOfList
    <2> QED BY <1>1, <2>3, <2>4, <2>5, <2>6
  <1>5. (pc # "cpu")' \in BOOLEAN /\ ~(pc # "cpu") /\ (Service!Due' # {} => (pc # "cpu")')
    BY <1>1, <1>4
  <1>6. Service!Elapse(n)
    BY <1>1, <1>3, <1>5, Zenon DEF Service!Elapse, Lefts
  <1> QED BY <1>6, Zenon DEF Service!Next

\* WRMSR to the TSC moves the clock and the timers together.
LEMMA SimNewTsc ==
  ASSUME RInv, NEW new \in NewTsc, timer_set_new_tsc(new)
  PROVE  UNCHANGED Service!vars
  <1>0. TypeOK /\ new \in Int
    BY TimerConstants DEF RInv, IInv
  <1>1. /\ tsc' = new /\ UNCHANGED <<queue, frac, period, control>>
        /\ ts' = [t \in Timers |-> IF t \in Range(queue) THEN new + (ts[t] - tsc) ELSE ts[t]]
    BY DEF timer_set_new_tsc, flags
  <1>2. ASSUME NEW t \in Timers PROVE TimeLeft(t)' = TimeLeft(t)
    <2>1. CASE t \notin Range(queue)
      BY <1>1, <2>1 DEF TimeLeft
    <2>2. CASE t \in Range(queue)
      <3>1. ts'[t] = new + (ts[t] - tsc) /\ ts[t] \in Int /\ tsc \in Int
        BY <1>0, <1>1, <2>2 DEF TypeOK
      <3>2. ts'[t] - tsc' = ts[t] - tsc
        BY <1>0, <1>1, <3>1
      <3> QED BY <1>1, <2>2, <3>2, Zenon DEF TimeLeft
    <2> QED BY <2>1, <2>2
  <1> QED BY <1>1, <1>2, SimStutter

\* The next piece of a split period is put on the list: all together the timer
\* has as much time left as before.
LEMMA SimSplit ==
  ASSUME RInv, ProcessSplit
  PROVE  UNCHANGED Service!vars
  <1>0. TypeOK /\ IInv /\ SplitHasPeriod /\ pc = "process"
    BY DEF RInv, IInv, ProcessSplit, Expired
  <1>2. queue # <<>>
    BY <1>0, TailNotEmpty
  <1> PICK t \in Timers : t = Head(queue)
    BY <1>0, <1>2, FirstOfList
  <1> DEFINE p == period[t]
             i == AdvancedInt(t, Piece(p))
             f == AdvancedFrac(t, Piece(p))
  <1>1. t \in split /\ SetPeriod(t, p) /\ UNCHANGED <<tsc, control>>
    BY DEF ProcessSplit
  <1>3. /\ Tail(queue) \in Seq(Timers) /\ t \in Range(queue)
        /\ Range(Tail(queue)) = Range(queue) \ {t}
        /\ Ordered(Tail(queue), ts, timer_target)
    BY <1>0, <1>2, TailKeepsOrder DEF TypeOK, IInv, ListInv
  <1>4. t \in Timers /\ p \in Nat
    BY <1>0 DEF TypeOK
  <1>5. p > 0
    BY <1>0, <1>1, <1>4 DEF SplitHasPeriod
  <1>6. Link(Tail(queue), t, i, f)
    BY <1>5 DEF ProcessSplit
  <1>7. i \in Int /\ f \in 0..(FracMod - 1) /\ Piece(p) \in Nat /\ Rest(p) \in Nat
    BY <1>0, <1>4, PeriodTypes, DelayTypes
  <1>8. i * FracMod + f = ts[t] * FracMod + frac[t] + Piece(p)
    BY <1>0, <1>4, <1>7, AdvancesBy, PiecesAddUp
  <1>9. Piece(p) + Rest(p) * TIMER_USEC = p * TIMER_USEC
    BY <1>4, PiecesAddUp
  <1>10. p = period[t]
    OBVIOUS
  <1> HIDE DEF p, i, f
  <1>11. Range(queue') = Range(queue)
    <2>1. Range(queue') = Range(Tail(queue)) \union {t}
      BY <1>0, <1>3, <1>4, <1>6, <1>7, LinkKeepsOrder DEF TypeOK
    <2> QED BY <1>3, <2>1
  <1>12. /\ ts'[t] = i /\ frac'[t] = f /\ period'[t] = Rest(p)
         /\ \A u \in Timers \ {t} : ts'[u] = ts[u] /\ frac'[u] = frac[u] /\ period'[u] = period[u]
    BY <1>0, <1>1, <1>4, <1>6 DEF Link, SetPeriod, TypeOK
  <1>13. TimeLeft(t)' = TimeLeft(t)
    <2> DEFINE F == FracMod
               R == Rest(p) * TIMER_USEC
               P == p * TIMER_USEC
               s == Piece(p)
               a == ts[t]
               g == frac[t]
    <2>1. /\ F \in Int /\ R \in Int /\ P \in Int /\ s \in Int /\ a \in Int /\ g \in Int
          /\ tsc \in Int /\ i \in Int /\ f \in Int
      BY <1>0, <1>4, <1>7, TimerConstants, SMTT(30) DEF TypeOK
    <2>2. TimeLeft(t)' = (i - tsc) * F + f + R
      BY <1>1, <1>3, <1>11, <1>12 DEF TimeLeft
    <2>3. TimeLeft(t) = (a - tsc) * F + g + P
      BY <1>3, <1>10, Zenon DEF TimeLeft
    <2>4. i * F + f = a * F + g + s /\ s + R = P
      BY <1>8, <1>9
    <2> HIDE DEF F, R, P, s, a, g
    <2>5. (i - tsc) * F = i * F - tsc * F /\ (a - tsc) * F = a * F - tsc * F
      BY <2>1
    <2>6. i * F \in Int /\ a * F \in Int /\ tsc * F \in Int
      BY <2>1
    <2>7. (i - tsc) * F + f + R = (a - tsc) * F + g + P
      BY <2>1, <2>4, <2>5, <2>6
    <2> QED BY <2>2, <2>3, <2>7
  <1>14. ASSUME NEW u \in Timers, u # t PROVE TimeLeft(u)' = TimeLeft(u)
    BY <1>1, <1>11, <1>12, <1>14 DEF TimeLeft
  <1> QED BY <1>1, <1>13, <1>14, SimStutter

\* timer_remove_head on the way to the callback is Fire.
LEMMA SimExpired ==
  ASSUME RInv, ProcessExpired
  PROVE  Service!Next
  <1> DEFINE t == Head(queue)
  <1>0. TypeOK /\ IInv /\ SplitHasPeriod /\ Idle /\ RunningFacts
    BY RunningNow DEF RInv, IInv
  <1>1. /\ pc = "process" /\ t \notin split /\ queue' = Tail(queue) /\ ts[t] <= tsc
        /\ UNCHANGED <<tsc, ts, frac, period>>
    BY DEF ProcessExpired, Expired, stamps
  <1>2. pc' # "cpu" /\ cb = None /\ cb' \in {t, None}
    BY <1>0, <1>1 DEF ProcessExpired, Idle, control
  <1>3. queue # <<>>
    BY <1>0, <1>1, TailNotEmpty
  <1>4. /\ t \in Timers /\ t \in Range(queue)
        /\ \A u \in Range(queue) : ts[t] <= ts[u]
    BY <1>0, <1>3, FirstOfList
  <1>5. Range(Tail(queue)) = Range(queue) \ {t}
    BY <1>0, <1>3, TailKeepsOrder DEF TypeOK, IInv, ListInv
  <1>6. period[t] = 0
    BY <1>0, <1>1, <1>4 DEF SplitHasPeriod, TypeOK
  <1> HIDE DEF t
  <1>7. Service!Cycles(t) = ts[t] - tsc /\ ts[t] \in Int /\ tsc \in Int
    BY <1>0, <1>4, <1>6 DEF RunningFacts, TypeOK
  <1>8. t \in Service!Due
    <2>1. t \in Service!Running
      BY <1>0, <1>4 DEF RunningFacts
    <2>2. Service!Cycles(t) <= 0
      BY <1>1, <1>7
    <2> QED BY <2>1, <2>2, Zenon DEF Service!Due
  <1>9. ASSUME NEW u \in Service!Running PROVE Service!Cycles(t) <= Service!Cycles(u)
    <2>1. u \in Timers /\ u \in Range(queue)
      BY <1>0, <1>9 DEF RunningFacts
    <2>2. ts[u] - tsc <= Service!Cycles(u) /\ Service!Cycles(u) \in Int /\ ts[u] \in Int
      BY <1>0, <2>1 DEF RunningFacts, TypeOK
    <2> QED BY <1>4, <1>7, <2>1, <2>2
  <1>10. Lefts' = [Lefts EXCEPT ![t] = None]
    <2>1. \A u \in Timers : TimeLeft(u)' = IF u = t THEN None ELSE TimeLeft(u)
      BY <1>1, <1>5 DEF TimeLeft
    <2> QED BY <2>1, Zenon DEF Lefts
  <1>11. Service!Fire(t)
    <2>1. (pc # "cpu") = TRUE /\ (pc # "cpu")' = TRUE
      BY <1>1, <1>2
    <2> QED BY <1>2, <1>8, <1>9, <1>10, <2>1, Zenon DEF Service!Fire, Lefts
  <1> QED BY <1>4, <1>11, Zenon DEF Service!Next

\* The loop of timer_process ends when no timer is due.
LEMMA SimEnd ==
  ASSUME RInv, ProcessEnd
  PROVE  Service!Next
  <1>0. TypeOK /\ IInv /\ Idle /\ RunningFacts
    BY RunningNow DEF RInv, IInv
  <1>1. /\ pc = "process" /\ pc' = "cpu" /\ ts[Head(queue)] > tsc /\ cb = None
        /\ UNCHANGED <<tsc, ts, frac, period, queue, cb>>
    BY <1>0 DEF ProcessEnd, stamps, flags, Idle
  <1>2. queue # <<>>
    BY <1>0, <1>1, TailNotEmpty
  <1>3. ASSUME NEW u \in Service!Due PROVE FALSE
    <2>1. u \in Service!Running /\ Service!Cycles(u) <= 0
      BY <1>3, Zenon DEF Service!Due
    <2>2. u \in Timers /\ u \in Range(queue)
      BY <1>0, <2>1 DEF RunningFacts
    <2>3. ts[u] - tsc <= Service!Cycles(u) /\ Service!Cycles(u) \in Int
      BY <1>0, <2>2 DEF RunningFacts
    <2>4. ts[Head(queue)] <= ts[u] /\ Head(queue) \in Timers
      BY <1>0, <1>2, <2>2, FirstOfList
    <2>5. ts[Head(queue)] \in Int /\ ts[u] \in Int /\ tsc \in Int
      BY <1>0, <2>2, <2>4 DEF TypeOK
    <2> QED BY <1>1, <2>1, <2>3, <2>4, <2>5
  <1>4. Lefts' = Lefts
    <2>1. \A u \in Timers : TimeLeft(u)' = TimeLeft(u)
      BY <1>1 DEF TimeLeft
    <2> QED BY <2>1, Zenon DEF Lefts
  <1>5. Service!EndDispatch
    <2>1. (pc # "cpu") = TRUE /\ (pc # "cpu")' = FALSE /\ Service!Due = {} /\ cb' = cb
      BY <1>1, <1>3
    <2> QED BY <1>1, <1>4, <2>1, Zenon DEF Service!EndDispatch, Lefts
  <1> QED BY <1>5, Zenon DEF Service!Next

\* timer_process called from an I/O handler is Dispatch, the return of a
\* callback Return.
LEMMA SimPoll == ASSUME Poll PROVE Service!Next
  <1>1. pc = "cpu" /\ pc' = "process" /\ UNCHANGED <<tsc, ts, frac, period, queue, cb>>
    BY DEF Poll, stamps, flags
  <1>2. \A u \in Timers : TimeLeft(u)' = TimeLeft(u)
    BY <1>1 DEF TimeLeft
  <1>3. Lefts' = Lefts /\ cb' = cb /\ (pc # "cpu") = FALSE /\ (pc # "cpu")' = TRUE
    <2>1. Lefts' = Lefts
      BY <1>2, Zenon DEF Lefts
    <2> QED BY <1>1, <2>1
  <1> QED BY <1>3, Zenon DEF Service!Next, Service!Dispatch, Lefts

LEMMA SimReturn == ASSUME RInv, CallbackReturn PROVE Service!Next
  <1>1. /\ pc = "callback" /\ pc' = "process" /\ cb' = None /\ cb # None
        /\ UNCHANGED <<tsc, ts, frac, period, queue>>
    BY TimerConstants DEF CallbackReturn, stamps, RInv, IInv, Residents
  <1>2. \A u \in Timers : TimeLeft(u)' = TimeLeft(u)
    BY <1>1 DEF TimeLeft
  <1>3. Lefts' = Lefts /\ (pc # "cpu")' = (pc # "cpu")
    <2>1. Lefts' = Lefts
      BY <1>2, Zenon DEF Lefts
    <2> QED BY <1>1, <2>1
  <1> QED BY <1>1, <1>3, Zenon DEF Service!Next, Service!Return, Lefts

\* timer_close is Reset; timer_init, which finds the list empty, is not seen.
LEMMA SimReset ==
  ASSUME RInv, timer_close \/ timer_init
  PROVE  Service!Next \/ UNCHANGED Service!vars
  <1>1. CASE timer_close
    <2>1. pc = "cpu" /\ queue' = <<>> /\ UNCHANGED control
      BY <1>1 DEF timer_close
    <2>2. \A u \in Timers : TimeLeft(u)' = None
      BY <2>1, EmptyList DEF TimeLeft
    <2>3. Lefts' = [t \in Timers |-> None]
      BY <2>2, Zenon DEF Lefts
    <2>4. (pc # "cpu") = FALSE /\ (pc # "cpu")' = (pc # "cpu") /\ cb' = cb
      BY <2>1 DEF control
    <2> QED BY <2>3, <2>4, Zenon DEF Service!Next, Service!Reset, Lefts
  <1>2. CASE timer_init
    <2>1. ~timer_inited /\ queue' = queue /\ UNCHANGED control
      BY <1>2 DEF timer_init
    <2>2. Range(queue) = {}
      BY <2>1 DEF RInv, IInv, ListInv, Residents
    <2>3. \A u \in Timers : TimeLeft(u)' = TimeLeft(u)
      BY <2>1, <2>2 DEF TimeLeft
    <2> QED BY <2>1, <2>3, SimStutter
  <1> QED BY <1>1, <1>2

LEMMA SimInit == Init => Service!Init
  <1> SUFFICES ASSUME Init PROVE Service!Init
    OBVIOUS
  <1>1. \A u \in Timers : TimeLeft(u) = None
    BY EmptyList DEF Init, TimeLeft
  <1>2. Lefts = [t \in Timers |-> None]
    BY <1>1, Zenon DEF Lefts
  <1>3. (pc # "cpu") = FALSE /\ cb = None
    BY DEF Init
  <1> QED BY <1>2, <1>3, Zenon DEF Service!Init, Lefts

LEMMA SimNext == RInv /\ RInv' /\ [Next]_vars => [Service!Next]_(Service!vars)
  <1> SUFFICES ASSUME RInv, RInv', [Next]_vars
               PROVE  Service!Next \/ UNCHANGED Service!vars
    BY Zenon
  <1>1. ASSUME NEW t \in Timers, Device(t) PROVE Service!Next
    BY <1>1, DeviceTouches, SimProgram DEF RInv
  <1>2. CASE Cpu
    BY <1>2, SimExecute, SimNewTsc, SimPoll DEF Cpu
  <1>3. CASE Process
    BY <1>3, SimSplit, SimExpired, SimReturn, SimEnd DEF Process
  <1>4. CASE timer_close \/ timer_init
    BY <1>4, SimReset
  <1>5. CASE UNCHANGED vars
    <2>1. \A u \in Timers : TimeLeft(u)' = TimeLeft(u)
      BY <1>5 DEF vars, stamps, flags, TimeLeft
    <2> QED BY <1>5, <2>1, SimStutter DEF vars
  <1> QED BY <1>1, <1>2, <1>3, <1>4, <1>5 DEF Next

\* timer.c keeps the promise of the timer API, for every machine: with the
\* list, timer_target, fractions and split periods out of sight, a callback
\* runs only when its timer is due, the most overdue first, once per arming,
\* and no emulated time passes between a timer becoming due and its callback.
THEOREM ServiceCorrect == Spec => ImplementsService
  <1>1. Spec => []RInv
    <2>1. Init => Idle
      BY DEF Init, Idle
    <2> QED BY <2>1, NextIdle, Invariance, PTL DEF Spec, RInv
  <1> QED BY <1>1, SimInit, SimNext, PTL DEF Spec, ImplementsService, Service!Spec

\* The list is sorted by expiry between any two steps: timer_process, which
\* only looks at its head, misses no expired timer.
THEOREM OrderCorrect == Spec => []ListSorted
  BY ListCorrect, PTL
=============================================================================
