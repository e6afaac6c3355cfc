--------------------------- MODULE NetCardProofs ---------------------------
(***************************************************************************)
(* Proofs about NetCard, for queues of any length, events that hold any    *)
(* number of notifications and any number of packets.  The order of the    *)
(* packets is proved of four queues in a row, of which each of the two     *)
(* directions is an instance; what every step does to them is one of a few *)
(* moves.  That no packet is stranded in TX_HOST needs the notification    *)
(* followed to where the host thread has read its event but not yet taken  *)
(* it.                                                                     *)
(***************************************************************************)
EXTENDS NetCard, SequenceTheorems, TLAPS

-----------------------------------------------------------------------------
(* Sequences of numbers in order.                                           *)

Sorted(s) == \A i, j \in 1 .. Len(s) : i < j => s[i] < s[j]
Before(s, t) == \A i \in 1 .. Len(s), j \in 1 .. Len(t) : s[i] < t[j]
Between(lo, s, hi) == \A i \in 1 .. Len(s) : lo < s[i] /\ s[i] <= hi

(* The queues a, b, c and d a packet passes, d first: lo is the last that   *)
(* came out of them, hi the last that was made.                             *)
Ordered(lo, a, b, c, d, hi) ==
  /\ lo <= hi
  /\ Sorted(a) /\ Sorted(b) /\ Sorted(c) /\ Sorted(d)
  /\ Between(lo, a, hi) /\ Between(lo, b, hi) /\ Between(lo, c, hi) /\ Between(lo, d, hi)
  /\ Before(a, b) /\ Before(a, c) /\ Before(a, d)
  /\ Before(b, c) /\ Before(b, d) /\ Before(c, d)

-----------------------------------------------------------------------------
(* The inductive invariant.                                                 *)

(* A batch is the guest's packets while they are handed to SLiRP, and the   *)
(* answers set aside when they are put into RX.                             *)
BatchOK ==
  /\ batch \in Seq(Nat)
  /\ host = "input" => batch \in Packets(MaxTx)
  /\ host = "deferred" => batch \in Packets(MaxRx)
  /\ host \notin {"input", "deferred"} => batch = << >>

(* Answers are set aside only during a batch, and remembered.               *)
AsideOK == rxontx # << >> => recv_on_tx /\ host = "input"

(* The card is only offered a packet that is there; a closed card has none. *)
CardOK ==
  /\ emu = "card" => queued # << >> /\ left > 0
  /\ emu = "closed" => host = "done" /\ queued = << >> /\ rx = << >>

(* The event the host thread has seen is still to be taken.                 *)
SeenOK == host \in {"sockets", "events"} /\ "tx" \in revents => tx_event > 0

(* Packets in TX_HOST are announced wherever the host thread is, except     *)
(* when it is about to pop them or has ended.                               *)
Announced ==
  host \notin {"pop", "done"} /\ txhost # << >>
    => tx_event > 0 \/ emu = "notify" \/ stop_event

TxOrder == Ordered(txlast, Outgoing, txhost, txvm, << >>, txmade)
RxOrder == Ordered(rxlast, queued, rx, Incoming, rxontx, rxmade)

IInv ==
  /\ TypeOK
  /\ BatchOK /\ AsideOK /\ CardOK /\ SeenOK
  /\ Announced
  /\ TxOrder
  /\ RxOrder
-----------------------------------------------------------------------------
(* Facts about sequences.                                                   *)

LEMMA NatSeq == ASSUME NEW n \in Nat, NEW s \in Packets(n) PROVE s \in Seq(Nat)
<1>1. 1 .. n \subseteq Nat OBVIOUS
<1> QED BY <1>1, SeqMonotonic DEF Packets

LEMMA Elements == ASSUME NEW s \in Seq(Nat) PROVE Len(s) \in Nat /\ \A i \in 1 .. Len(s) : s[i] \in Nat
BY LenProperties, ElementOfSeq

LEMMA TakeIs ==
  ASSUME NEW S, NEW s \in Seq(S), NEW n \in 0 .. Len(s)
  PROVE  /\ Take(s, n) \in Seq(S) /\ Len(Take(s, n)) = n
         /\ \A i \in 1 .. n : Take(s, n)[i] = s[i]
BY SubSeqProperties, LenProperties DEF Take

LEMMA DropIs ==
  ASSUME NEW S, NEW s \in Seq(S), NEW n \in 0 .. Len(s)
  PROVE  /\ Drop(s, n) \in Seq(S) /\ Len(Drop(s, n)) = Len(s) - n
         /\ \A i \in 1 .. Len(s) - n : Drop(s, n)[i] = s[n + i]
<1>1. Len(s) \in Nat BY LenProperties
<1>2. n + 1 \in 1 .. Len(s) + 1 BY <1>1
<1>3. Len(SubSeq(s, n + 1, Len(s))) = Len(s) - n /\ SubSeq(s, n + 1, Len(s)) \in Seq(S)
  BY <1>1, <1>2, SubSeqProperties
<1>4. \A i \in 1 .. Len(s) - n : SubSeq(s, n + 1, Len(s))[i] = s[n + i]
  BY <1>1, <1>2, SubSeqProperties
<1> QED BY <1>3, <1>4 DEF Drop

(* A full queue drops the packet. *)
LEMMA PutIs ==
  ASSUME NEW S, NEW s \in Seq(S), NEW p \in S
  PROVE  /\ Put(s, p) \in Seq(S)
         /\ Put(s, p) = s \/ Put(s, p) = Append(s, p)
         /\ Len(s) <= Capacity => Len(Put(s, p)) <= Capacity
<1>1. Capacity \in Nat /\ Len(s) \in Nat BY NetCardAssumption, LenProperties DEF Capacity
<1> QED BY <1>1, AppendProperties DEF Put

-----------------------------------------------------------------------------
(* The moves that keep four queues in order.                                *)

(* A packet is made and lost. *)
LEMMA OrdMore ==
  ASSUME NEW lo \in Nat, NEW hi \in Nat, NEW k \in Nat, hi <= k,
         NEW a \in Seq(Nat), NEW b \in Seq(Nat), NEW c \in Seq(Nat), NEW d \in Seq(Nat),
         Ordered(lo, a, b, c, d, hi)
  PROVE  Ordered(lo, a, b, c, d, k)
<1>1. ASSUME NEW s \in Seq(Nat), Between(lo, s, hi) PROVE Between(lo, s, k)
  BY <1>1, Elements DEF Between
<1> QED BY <1>1 DEF Ordered

(* A queue is emptied. *)
LEMMA OrdLose ==
  ASSUME NEW lo \in Nat, NEW hi \in Nat,
         NEW a \in Seq(Nat), NEW b \in Seq(Nat), NEW c \in Seq(Nat), NEW d \in Seq(Nat),
         Ordered(lo, a, b, c, d, hi)
  PROVE  /\ Ordered(lo, << >>, b, c, d, hi) /\ Ordered(lo, a, << >>, c, d, hi)
         /\ Ordered(lo, a, b, << >>, d, hi) /\ Ordered(lo, a, b, c, << >>, hi)
<1>1. /\ Sorted(<< >>) /\ Between(lo, << >>, hi)
      /\ \A s : Before(<< >>, s) /\ Before(s, << >>)
  BY EmptySeq DEF Sorted, Between, Before
<1> QED BY <1>1 DEF Ordered

(* Four empty queues. *)
LEMMA OrdEmpty == \A n \in Nat : Ordered(n, << >>, << >>, << >>, << >>, n)
BY EmptySeq DEF Ordered, Sorted, Between, Before

(* A whole queue moves to the empty one behind it. *)
LEMMA OrdWhole ==
  ASSUME NEW lo \in Nat, NEW hi \in Nat,
         NEW a \in Seq(Nat), NEW b \in Seq(Nat), NEW c \in Seq(Nat), NEW d \in Seq(Nat)
  PROVE  /\ Ordered(lo, << >>, b, c, d, hi) => Ordered(lo, b, << >>, c, d, hi)
         /\ Ordered(lo, a, b, << >>, d, hi) => Ordered(lo, a, b, d, << >>, hi)
<1>1. /\ Sorted(<< >>) /\ Between(lo, << >>, hi)
      /\ \A s : Before(<< >>, s) /\ Before(s, << >>)
  BY EmptySeq DEF Sorted, Between, Before
<1> QED BY <1>1 DEF Ordered

(* An empty queue may be seen at either end. *)
LEMMA OrdShift ==
  ASSUME NEW lo \in Nat, NEW hi \in Nat,
         NEW a \in Seq(Nat), NEW b \in Seq(Nat), NEW c \in Seq(Nat)
  PROVE  Ordered(lo, a, b, c, << >>, hi) <=> Ordered(lo, << >>, a, b, c, hi)
<1>1. /\ Sorted(<< >>) /\ Between(lo, << >>, hi)
      /\ \A s : Before(<< >>, s) /\ Before(s, << >>)
  BY EmptySeq DEF Sorted, Between, Before
<1> QED BY <1>1 DEF Ordered

(* A new packet enters the first queue. *)
LEMMA OrdPut ==
  ASSUME NEW lo \in Nat, NEW hi \in Nat,
         NEW a \in Seq(Nat), NEW b \in Seq(Nat), NEW c \in Seq(Nat), NEW d \in Seq(Nat),
         Ordered(lo, a, b, c, d, hi)
  PROVE  Ordered(lo, a, b, c, Put(d, hi + 1), hi + 1)
<1> DEFINE e == Append(d, hi + 1)
<1>1. Ordered(lo, a, b, c, d, hi + 1) BY OrdMore
<1>2. /\ e \in Seq(Nat) /\ Len(e) = Len(d) + 1 /\ e[Len(d) + 1] = hi + 1
      /\ \A i \in 1 .. Len(d) : e[i] = d[i]
  BY AppendProperties
<1> HIDE DEF e
<1>21. Len(d) \in Nat /\ \A i \in 1 .. Len(d) : d[i] \in Nat BY Elements
<1>22. \A j \in 1 .. Len(e) :
         \/ j \in 1 .. Len(d) /\ e[j] = d[j]
         \/ j = Len(d) + 1 /\ e[j] = hi + 1
  BY <1>2, <1>21, SMTT(30)
<1>3. Sorted(e)
  <2> SUFFICES ASSUME NEW i \in 1 .. Len(e), NEW j \in 1 .. Len(e), i < j PROVE e[i] < e[j]
    BY DEF Sorted
  <2>1. i \in 1 .. Len(d) /\ e[i] = d[i] BY <1>2, <1>21, SMTT(30)
  <2>2. d[i] <= hi BY <2>1 DEF Ordered, Between
  <2>3. CASE j \in 1 .. Len(d) BY <1>2, <2>1, <2>3 DEF Ordered, Sorted
  <2>4. CASE e[j] = hi + 1 BY <1>21, <2>1, <2>2, <2>4
  <2> QED BY <1>22, <2>3, <2>4
<1>4. Between(lo, e, hi + 1)
  <2>1. \A j \in 1 .. Len(d) : lo < d[j] /\ d[j] <= hi + 1 BY <1>1 DEF Ordered, Between
  <2>2. lo < hi + 1 /\ hi + 1 <= hi + 1 BY DEF Ordered
  <2> QED BY <1>22, <2>1, <2>2 DEF Between
<1>5. ASSUME NEW s \in Seq(Nat), Before(s, d), Between(lo, s, hi) PROVE Before(s, e)
  <2>1. \A i \in 1 .. Len(s) : s[i] \in Nat /\ s[i] <= hi BY <1>5, Elements DEF Between
  <2>2. \A i \in 1 .. Len(s) : s[i] < hi + 1 BY <2>1
  <2> QED BY <1>22, <1>5, <2>2 DEF Before
<1>6. Ordered(lo, a, b, c, e, hi + 1) BY <1>1, <1>3, <1>4, <1>5 DEF Ordered
<1>7. Put(d, hi + 1) = d \/ Put(d, hi + 1) = e BY DEF Put, e
<1> QED BY <1>1, <1>6, <1>7

(* The packet at the end of the last queue comes out. *)
LEMMA OrdAccept ==
  ASSUME NEW lo \in Nat, NEW hi \in Nat,
         NEW a \in Seq(Nat), NEW b \in Seq(Nat), NEW c \in Seq(Nat), NEW d \in Seq(Nat),
         Ordered(lo, a, b, c, d, hi), a # << >>
  PROVE  Ordered(Head(a), Tail(a), b, c, d, hi)
<1>1. /\ Head(a) \in Nat /\ Tail(a) \in Seq(Nat) /\ Len(Tail(a)) = Len(a) - 1
      /\ Head(a) = a[1] /\ 1 \in 1 .. Len(a)
      /\ \A i \in 1 .. Len(Tail(a)) : Tail(a)[i] = a[i + 1] /\ i + 1 \in 1 .. Len(a)
  BY HeadTailProperties, EmptySeq, Elements
<1>2. Sorted(Tail(a)) /\ Between(Head(a), Tail(a), hi)
  BY <1>1, Elements DEF Ordered, Sorted, Between
<1>3. ASSUME NEW s \in Seq(Nat), Before(a, s) PROVE Before(Tail(a), s)
  BY <1>1, <1>3, Elements DEF Before
<1>4. ASSUME NEW s \in Seq(Nat), Before(a, s), Between(lo, s, hi) PROVE Between(Head(a), s, hi)
  BY <1>1, <1>4, Elements DEF Before, Between
<1>5. Head(a) <= hi BY <1>1 DEF Ordered, Between
<1> QED BY <1>2, <1>3, <1>4, <1>5 DEF Ordered

(* Packets at the head of the third queue move to the end of the second. *)
LEMMA OrdPass ==
  ASSUME NEW lo \in Nat, NEW hi \in Nat,
         NEW a \in Seq(Nat), NEW b \in Seq(Nat), NEW c \in Seq(Nat), NEW d \in Seq(Nat),
         Ordered(lo, a, b, c, d, hi), NEW n \in 0 .. Len(c)
  PROVE  Ordered(lo, a, b \o Take(c, n), Drop(c, n), d, hi)
<1> DEFINE t == Take(c, n)
           r == Drop(c, n)
           e == b \o t
<1>1. /\ t \in Seq(Nat) /\ Len(t) = n /\ r \in Seq(Nat) /\ Len(r) = Len(c) - n
      /\ \A i \in 1 .. n : t[i] = c[i]
      /\ \A i \in 1 .. Len(c) - n : r[i] = c[n + i]
  BY TakeIs, DropIs
<1> HIDE DEF t, r
<1>2. /\ e \in Seq(Nat) /\ Len(e) = Len(b) + Len(t)
      /\ \A i \in 1 .. Len(b) + Len(t) : e[i] = IF i <= Len(b) THEN b[i] ELSE t[i - Len(b)]
  BY <1>1, ConcatProperties, ZenonT(60)
<1> HIDE DEF e
<1>21. Len(b) \in Nat /\ Len(c) \in Nat BY Elements
<1>22. \A i \in 1 .. Len(e) :
        \/ i \in 1 .. Len(b) /\ e[i] = b[i]
        \/ i > Len(b) /\ i - Len(b) \in 1 .. n /\ i - Len(b) \in 1 .. Len(c) /\ e[i] = c[i - Len(b)]
  <2> SUFFICES ASSUME NEW i \in 1 .. Len(e), ~(i \in 1 .. Len(b) /\ e[i] = b[i])
               PROVE  /\ i > Len(b) /\ i - Len(b) \in 1 .. n /\ i - Len(b) \in 1 .. Len(c)
                      /\ e[i] = c[i - Len(b)]
    OBVIOUS
  <2>1. i > Len(b) /\ i - Len(b) \in 1 .. n /\ i - Len(b) \in 1 .. Len(c)
    BY <1>1, <1>2, <1>21, SMTT(30)
  <2>3. i \in 1 .. Len(b) + Len(t) BY <1>2
  <2>4. e[i] = IF i <= Len(b) THEN b[i] ELSE t[i - Len(b)] BY <1>2, <2>3, Zenon
  <2>5. ~(i <= Len(b)) BY <1>21, <2>1
  <2>2. e[i] = t[i - Len(b)] BY <2>4, <2>5, Zenon
  <2> QED BY <1>1, <2>1, <2>2
<1>23. \A i \in 1 .. Len(r) : n + i \in 1 .. Len(c) /\ n + i > n /\ r[i] = c[n + i]
  BY <1>1, <1>21, SMTT(30)
<1>4. Sorted(e)
  <2> SUFFICES ASSUME NEW i \in 1 .. Len(e), NEW j \in 1 .. Len(e), i < j PROVE e[i] < e[j]
    BY DEF Sorted
  <2>1. CASE j \in 1 .. Len(b) /\ e[j] = b[j]
    <3>1. i \in 1 .. Len(b) /\ e[i] = b[i] BY <1>22, <1>21, <2>1, SMTT(30)
    <3> QED BY <2>1, <3>1 DEF Ordered, Sorted
  <2>2. CASE i \in 1 .. Len(b) /\ e[i] = b[i] /\ j > Len(b)
    <3>1. j - Len(b) \in 1 .. Len(c) /\ e[j] = c[j - Len(b)] BY <1>22, <1>21, <2>2
    <3> QED BY <2>2, <3>1 DEF Ordered, Before
  <2>3. CASE i > Len(b) /\ j > Len(b)
    <3> DEFINE k == i - Len(b)
               m == j - Len(b)
    <3>1. k \in 1 .. Len(c) /\ m \in 1 .. Len(c) /\ e[i] = c[k] /\ e[j] = c[m] /\ k < m
      BY <1>22, <1>21, <2>3, SMTT(30)
    <3> HIDE DEF k, m
    <3> QED BY <3>1 DEF Ordered, Sorted
  <2> QED BY <1>22, <2>1, <2>2, <2>3
<1>5. Sorted(r)
  <2> SUFFICES ASSUME NEW i \in 1 .. Len(r), NEW j \in 1 .. Len(r), i < j PROVE r[i] < r[j]
    BY DEF Sorted
  <2>1. n + i < n + j BY <1>1, <1>21
  <2> QED BY <1>23, <2>1 DEF Ordered, Sorted
<1>6. Before(e, r)
  <2> SUFFICES ASSUME NEW i \in 1 .. Len(e), NEW j \in 1 .. Len(r) PROVE e[i] < r[j]
    BY DEF Before
  <2>1. CASE i \in 1 .. Len(b) /\ e[i] = b[i] BY <1>23, <2>1 DEF Ordered, Before
  <2>2. CASE i - Len(b) \in 1 .. n /\ i - Len(b) \in 1 .. Len(c) /\ e[i] = c[i - Len(b)]
    <3> DEFINE k == i - Len(b)
               m == n + j
    <3>1. k \in 1 .. Len(c) /\ m \in 1 .. Len(c) /\ k < m /\ e[i] = c[k] /\ r[j] = c[m]
      BY <1>23, <1>21, <2>2
    <3> HIDE DEF k, m
    <3> QED BY <3>1 DEF Ordered, Sorted
  <2> QED BY <1>22, <2>1, <2>2
<1>7. ASSUME NEW s \in Seq(Nat), Before(s, b), Before(s, c) PROVE Before(s, e)
  BY <1>22, <1>7 DEF Before
<1>8. ASSUME NEW s \in Seq(Nat), Before(b, s), Before(c, s) PROVE Before(e, s)
  BY <1>22, <1>8 DEF Before
<1>9. ASSUME NEW s \in Seq(Nat), Before(s, c) PROVE Before(s, r) BY <1>23, <1>9 DEF Before
<1>10. ASSUME NEW s \in Seq(Nat), Before(c, s) PROVE Before(r, s) BY <1>23, <1>10 DEF Before
<1>11. Between(lo, e, hi) BY <1>22 DEF Ordered, Between
<1>12. Between(lo, r, hi) BY <1>23 DEF Ordered, Between
<1>13. Ordered(lo, a, e, r, d, hi)
  BY <1>4, <1>5, <1>6, <1>7, <1>8, <1>9, <1>10, <1>11, <1>12 DEF Ordered
<1> QED BY <1>13 DEF e, t, r

(* The packet at the end of the second queue moves to the empty last one. *)
LEMMA OrdFetch ==
  ASSUME NEW lo \in Nat, NEW hi \in Nat,
         NEW b \in Seq(Nat), NEW c \in Seq(Nat), NEW d \in Seq(Nat),
         Ordered(lo, << >>, b, c, d, hi), b # << >>
  PROVE  Ordered(lo, <<Head(b)>>, Tail(b), c, d, hi)
<1> DEFINE h == <<Head(b)>>
           r == Tail(b)
<1>1. /\ r \in Seq(Nat) /\ Len(r) = Len(b) - 1 /\ 1 \in 1 .. Len(b)
      /\ \A i \in 1 .. Len(r) : r[i] = b[i + 1] /\ i + 1 \in 1 .. Len(b)
      /\ h \in Seq(Nat) /\ Len(h) = 1 /\ h[1] = b[1]
  BY HeadTailProperties, EmptySeq, Elements
<1> HIDE DEF h, r
<1>2. Sorted(h) BY <1>1 DEF Sorted
<1>3. Sorted(r)
  <2> SUFFICES ASSUME NEW i \in 1 .. Len(r), NEW j \in 1 .. Len(r), i < j PROVE r[i] < r[j]
    BY DEF Sorted
  <2>1. i + 1 < j + 1 BY <1>1
  <2> QED BY <1>1, <2>1 DEF Ordered, Sorted
<1>4. Before(h, r)
  <2> SUFFICES ASSUME NEW j \in 1 .. Len(r) PROVE b[1] < r[j] BY <1>1, SMTT(30) DEF Before
  <2>1. 1 < j + 1 BY <1>1
  <2> QED BY <1>1, <2>1 DEF Ordered, Sorted
<1>8. \A i \in 1 .. Len(h) : h[i] = b[1] BY <1>1
<1>5. Between(lo, h, hi) /\ Between(lo, r, hi)
  <2>1. Between(lo, h, hi) BY <1>1, <1>8 DEF Ordered, Between
  <2>2. Between(lo, r, hi) BY <1>1 DEF Ordered, Between
  <2> QED BY <2>1, <2>2
<1>6. ASSUME NEW s \in Seq(Nat), Before(b, s) PROVE Before(h, s) /\ Before(r, s)
  <2>1. Before(h, s) BY <1>1, <1>6, <1>8 DEF Before
  <2>2. Before(r, s) BY <1>1, <1>6 DEF Before
  <2> QED BY <2>1, <2>2
<1>7. Ordered(lo, h, r, c, d, hi) BY <1>2, <1>3, <1>4, <1>5, <1>6 DEF Ordered
<1> QED BY <1>7 DEF h, r

(* The packet at the end of the third queue moves to the second, or is lost *)
(* because that is full.                                                    *)
LEMMA OrdStep ==
  ASSUME NEW lo \in Nat, NEW hi \in Nat,
         NEW a \in Seq(Nat), NEW b \in Seq(Nat), NEW c \in Seq(Nat), NEW d \in Seq(Nat),
         Ordered(lo, a, b, c, d, hi), c # << >>
  PROVE  /\ Ordered(lo, a, b, Tail(c), d, hi)
         /\ Ordered(lo, a, Append(b, Head(c)), Tail(c), d, hi)
<1>1. Len(c) \in Nat \ {0} BY EmptySeq
<1>2. 1 \in 0 .. Len(c) BY <1>1
<1>3. Ordered(lo, a, b \o Take(c, 1), Drop(c, 1), d, hi) BY <1>2, OrdPass
<1>4. Drop(c, 1) = Tail(c) BY TailIsSubSeq, SMTT(30) DEF Drop
<1>5. Take(c, 1) = <<Head(c)>>
  <2> DEFINE h == <<Head(c)>>
             t == Take(c, 1)
  <2>1. t \in Seq(Nat) /\ Len(t) = 1 /\ t[1] = c[1]
    <3>1. t \in Seq(Nat) /\ Len(t) = 1 /\ \A i \in 1 .. 1 : t[i] = c[i] BY <1>2, TakeIs
    <3> QED BY <3>1
  <2>2. h \in Seq(Nat) /\ Len(h) = 1 /\ h[1] = c[1] BY <1>1, HeadTailProperties
  <2> HIDE DEF h, t
  <2>3. \A i \in 1 .. Len(t) : t[i] = h[i] BY <2>1, <2>2
  <2>4. t = h BY <2>1, <2>2, <2>3, SeqEqual
  <2> QED BY <2>4 DEF h, t
<1>6. Append(b, Head(c)) = b \o <<Head(c)>>
  <2>1. Head(c) \in Nat BY HeadTailProperties
  <2> QED BY <2>1, AppendIsConcat
<1>7. Ordered(lo, a, Append(b, Head(c)), Tail(c), d, hi) BY <1>3, <1>4, <1>5, <1>6
<1>8. Tail(c) \in Seq(Nat) /\ \A i \in 1 .. Len(Tail(c)) : Tail(c)[i] = c[i + 1] /\ i + 1 \in 1 .. Len(c)
  <2>1. /\ Tail(c) \in Seq(Nat) /\ Len(Tail(c)) = Len(c) - 1
        /\ \A i \in 1 .. Len(Tail(c)) : Tail(c)[i] = c[i + 1]
    BY HeadTailProperties
  <2>2. \A i \in 1 .. Len(c) - 1 : i + 1 \in 1 .. Len(c) BY <1>1
  <2> QED BY <2>1, <2>2
<1>9. Before(b, Tail(c)) BY <1>8 DEF Ordered, Before
<1> QED BY <1>7, <1>9 DEF Ordered

(* Sequences in order one after the other. *)
LEMMA ConcatSorted ==
  ASSUME NEW s \in Seq(Nat), NEW t \in Seq(Nat), Sorted(s), Sorted(t), Before(s, t)
  PROVE  /\ s \o t \in Seq(Nat) /\ Sorted(s \o t)
         /\ \A u \in Seq(Nat) : Before(s, u) /\ Before(t, u) => Before(s \o t, u)
<1> DEFINE e == s \o t
<1>1. /\ e \in Seq(Nat) /\ Len(e) = Len(s) + Len(t)
      /\ \A i \in 1 .. Len(s) + Len(t) : e[i] = IF i <= Len(s) THEN s[i] ELSE t[i - Len(s)]
  BY ConcatProperties
<1> HIDE DEF e
<1>21. Len(s) \in Nat /\ Len(t) \in Nat BY Elements
<1>22. \A i \in 1 .. Len(e) :
        \/ i \in 1 .. Len(s) /\ e[i] = s[i]
        \/ i > Len(s) /\ i - Len(s) \in 1 .. Len(t) /\ e[i] = t[i - Len(s)]
  BY <1>1, <1>21
<1>2. Sorted(e)
  <2> SUFFICES ASSUME NEW i \in 1 .. Len(e), NEW j \in 1 .. Len(e), i < j PROVE e[i] < e[j]
    BY DEF Sorted
  <2>1. CASE j \in 1 .. Len(s) /\ e[j] = s[j]
    <3>1. i \in 1 .. Len(s) /\ e[i] = s[i] BY <1>22, <1>21, <2>1
    <3> QED BY <2>1, <3>1 DEF Sorted
  <2>2. CASE i \in 1 .. Len(s) /\ e[i] = s[i] /\ j > Len(s)
    BY <1>22, <1>21, <2>2 DEF Before
  <2>3. CASE i > Len(s) /\ j > Len(s)
    <3> DEFINE k == i - Len(s)
               m == j - Len(s)
    <3>1. k \in 1 .. Len(t) /\ m \in 1 .. Len(t) /\ e[i] = t[k] /\ e[j] = t[m] /\ k < m
      BY <1>22, <1>21, <2>3
    <3> HIDE DEF k, m
    <3> QED BY <3>1 DEF Sorted
  <2> QED BY <1>22, <2>1, <2>2, <2>3
<1>3. ASSUME NEW u \in Seq(Nat), Before(s, u), Before(t, u) PROVE Before(e, u)
  BY <1>22, <1>3 DEF Before
<1> QED BY <1>1, <1>2, <1>3 DEF e

LEMMA SortedIncreasing == ASSUME NEW s \in Seq(Nat), Sorted(s) PROVE Increasing(s)
<1>1. Len(s) \in Nat BY Elements
<1> QED BY <1>1 DEF Sorted, Increasing

(* Queues in order are in order one after the other. *)
LEMMA OrdIncreasing ==
  ASSUME NEW lo \in Nat, NEW hi \in Nat,
         NEW a \in Seq(Nat), NEW b \in Seq(Nat), NEW c \in Seq(Nat), NEW d \in Seq(Nat),
         Ordered(lo, a, b, c, d, hi)
  PROVE  Increasing(<<lo>> \o a \o b \o c) /\ Increasing(<<lo>> \o a \o b \o c \o d)
<1> DEFINE l == <<lo>>
           x == l \o a
           y == x \o b
           z == y \o c
           w == z \o d
<1>1. l \in Seq(Nat) /\ Len(l) = 1 /\ l[1] = lo OBVIOUS
<1> HIDE DEF l
<1>2. Sorted(l) /\ Before(l, a) /\ Before(l, b) /\ Before(l, c) /\ Before(l, d)
  BY <1>1, Elements, SMTT(30) DEF Ordered, Sorted, Before, Between
<1>3. x \in Seq(Nat) /\ Sorted(x) /\ Before(x, b) /\ Before(x, c) /\ Before(x, d)
  BY <1>1, <1>2, ConcatSorted DEF Ordered
<1> HIDE DEF x
<1>4. y \in Seq(Nat) /\ Sorted(y) /\ Before(y, c) /\ Before(y, d)
  BY <1>3, ConcatSorted DEF Ordered
<1> HIDE DEF y
<1>5. z \in Seq(Nat) /\ Sorted(z) /\ Before(z, d) BY <1>4, ConcatSorted DEF Ordered
<1> HIDE DEF z
<1>6. w \in Seq(Nat) /\ Sorted(w) BY <1>5, ConcatSorted DEF Ordered
<1> HIDE DEF w
<1> QED BY <1>5, <1>6, SortedIncreasing DEF l, x, y, z, w
-----------------------------------------------------------------------------
(* Types.                                                                   *)

LEMMA TypeFacts ==
  ASSUME TypeOK, BatchOK
  PROVE  /\ txvm \in Seq(Nat) /\ txhost \in Seq(Nat) /\ Outgoing \in Seq(Nat)
         /\ queued \in Seq(Nat) /\ rx \in Seq(Nat) /\ Incoming \in Seq(Nat) /\ rxontx \in Seq(Nat)
         /\ txlast \in Nat /\ txmade \in Nat /\ rxlast \in Nat /\ rxmade \in Nat
<1>1. MaxTx \in Nat /\ MaxRx \in Nat BY NetCardAssumption
<1>2. << >> \in Seq(Nat) BY EmptySeq
<1>3. /\ txvm \in Packets(MaxTx) /\ txhost \in Packets(MaxTx) /\ rx \in Packets(MaxRx)
      /\ rxontx \in Packets(MaxRx) /\ queued \in Packets(MaxRx)
      /\ txlast \in 0 .. MaxTx /\ txmade \in 0 .. MaxTx
      /\ rxlast \in 0 .. MaxRx /\ rxmade \in 0 .. MaxRx
      /\ batch \in Seq(Nat)
  BY DEF TypeOK, BatchOK
<1>4. /\ txvm \in Seq(Nat) /\ txhost \in Seq(Nat) /\ queued \in Seq(Nat) /\ rx \in Seq(Nat)
      /\ rxontx \in Seq(Nat)
  BY <1>1, <1>3, NatSeq
<1>5. Outgoing \in Seq(Nat) /\ Incoming \in Seq(Nat) BY <1>2, <1>3 DEF Outgoing, Incoming
<1>6. txlast \in Nat /\ txmade \in Nat /\ rxlast \in Nat /\ rxmade \in Nat BY <1>1, <1>3
<1> QED BY <1>4, <1>5, <1>6

(* How much moves: all that fits, and everything when it is popped.         *)
LEMMA CountFacts ==
  ASSUME TypeOK
  PROVE  /\ Capacity \in Nat /\ Capacity < NET_QUEUE_LEN /\ NET_QUEUE_LEN \in Nat
         /\ Len(txvm) \in Nat /\ Len(txhost) \in Nat
         /\ Movable \in 0 .. Len(txvm) /\ Len(txhost) + Movable <= Capacity
         /\ PopCount = Len(txhost)
<1>1. Capacity \in Nat /\ Capacity < NET_QUEUE_LEN /\ NET_QUEUE_LEN \in Nat
  BY NetCardAssumption DEF Capacity
<1>2. Len(txvm) \in Nat /\ Len(txhost) \in Nat /\ Len(txvm) <= Capacity /\ Len(txhost) <= Capacity
  BY LenProperties DEF TypeOK, Packets
<1>3. Movable \in 0 .. Len(txvm) /\ Len(txhost) + Movable <= Capacity
  BY <1>1, <1>2 DEF Movable, Least
<1>4. PopCount = Len(txhost) BY <1>1, <1>2 DEF PopCount, Least
<1> QED BY <1>1, <1>2, <1>3, <1>4

LEMMA HeadTail ==
  ASSUME NEW n, NEW s \in Packets(n), s # << >>
  PROVE  /\ Head(s) \in 1 .. n /\ Tail(s) \in Packets(n) /\ Len(Tail(s)) = Len(s) - 1
         /\ Len(s) \in Nat \ {0} /\ <<Head(s)>> \in Packets(n) /\ Len(<<Head(s)>>) = 1
<1>1. /\ Head(s) \in 1 .. n /\ Tail(s) \in Seq(1 .. n) /\ Len(Tail(s)) = Len(s) - 1
      /\ Len(s) \in Nat \ {0}
  BY HeadTailProperties, EmptySeq DEF Packets
<1> QED BY <1>1 DEF Packets

LEMMA TypeStep == ASSUME IInv, [Next]_vars PROVE TypeOK' /\ BatchOK'
<1>1. /\ TypeOK /\ BatchOK /\ CardOK /\ SeenOK /\ MaxTx \in Nat /\ MaxRx \in Nat
      /\ PIPE \in Nat \ {0} /\ NET_QUEUE_LEN \in Nat /\ Capacity \in Nat
      /\ Capacity < NET_QUEUE_LEN
      /\ \A n : << >> \in Packets(n)
      /\ << >> \in Seq(Nat) /\ Len(<< >>) = 0
  BY NetCardAssumption, CountFacts, EmptySeq DEF IInv, Packets
<1> USE DEF emuVars, hostVars
<1>2. CASE network_tx
  <2>1. txmade + 1 \in 1 .. MaxTx /\ txmade + 1 \in 0 .. MaxTx
    BY <1>1, <1>2 DEF network_tx, TypeOK
  <2>2. txvm' \in Packets(MaxTx) /\ Len(txvm') <= Capacity
    BY <1>1, <1>2, <2>1, PutIs DEF network_tx, TypeOK, Packets
  <2> QED BY <1>1, <1>2, <2>1, <2>2 DEF network_tx, TypeOK, BatchOK
<1>3. CASE network_rx_queue
  BY <1>1, <1>3 DEF network_rx_queue, NewLinkState, TypeOK, BatchOK
<1>4. CASE RxGet
  <2>1. /\ queued' \in Packets(MaxRx) /\ rx' \in Packets(MaxRx)
        /\ Len(queued') <= 1 /\ Len(rx') <= Capacity
    <3>1. CASE left > 0 /\ (queued # << >> \/ rx # << >>) /\ queued = << >>
      <4>1. queued' = <<Head(rx)>> /\ rx' = Tail(rx) /\ rx # << >> BY <1>4, <3>1 DEF RxGet
      <4>2. rx \in Packets(MaxRx) /\ Len(rx) <= Capacity BY <1>1 DEF TypeOK
      <4>3. /\ <<Head(rx)>> \in Packets(MaxRx) /\ Tail(rx) \in Packets(MaxRx)
            /\ Len(<<Head(rx)>>) = 1 /\ Len(Tail(rx)) = Len(rx) - 1 /\ Len(rx) \in Nat
        BY <4>1, <4>2, HeadTail
      <4> QED BY <1>1, <4>1, <4>2, <4>3
    <3>2. CASE ~(left > 0 /\ (queued # << >> \/ rx # << >>) /\ queued = << >>)
      <4>1. queued' = queued /\ rx' = rx BY <1>4, <3>2 DEF RxGet
      <4> QED BY <1>1, <4>1 DEF TypeOK
    <3> QED BY <3>1, <3>2
  <2> QED BY <1>1, <1>4, <2>1 DEF RxGet, TypeOK, BatchOK
<1>5. CASE RxAccepted
  <2>1. queued # << >> /\ left > 0 BY <1>1, <1>5 DEF RxAccepted, CardOK
  <2>2. Head(queued) \in 0 .. MaxRx
    <3>1. Head(queued) \in 1 .. MaxRx BY <1>1, <2>1, HeadTail DEF TypeOK
    <3> QED BY <1>1, <3>1
  <2>3. left - 1 \in 0 .. NET_QUEUE_LEN BY <1>1, <2>1 DEF TypeOK
  <2> QED BY <1>1, <1>5, <2>2, <2>3 DEF RxAccepted, TypeOK, BatchOK
<1>6. CASE RxRefused BY <1>1, <1>6 DEF RxRefused, TypeOK, BatchOK
<1>7. CASE TxMove
  <2>1. /\ Movable \in 0 .. Len(txvm) /\ Len(txhost) + Movable <= Capacity
        /\ Len(txvm) \in Nat /\ Len(txhost) \in Nat
    BY <1>1, CountFacts
  <2>2. txvm \in Seq(1 .. MaxTx) /\ txhost \in Seq(1 .. MaxTx) /\ Len(txvm) <= Capacity
    BY <1>1 DEF TypeOK, Packets
  <2>3. /\ Take(txvm, Movable) \in Seq(1 .. MaxTx) /\ Len(Take(txvm, Movable)) = Movable
        /\ Drop(txvm, Movable) \in Seq(1 .. MaxTx) /\ Len(Drop(txvm, Movable)) = Len(txvm) - Movable
    BY <2>1, <2>2, TakeIs, DropIs
  <2>4. /\ txhost \o Take(txvm, Movable) \in Seq(1 .. MaxTx)
        /\ Len(txhost \o Take(txvm, Movable)) = Len(txhost) + Movable
    BY <2>2, <2>3, ConcatProperties
  <2>5. /\ txhost' \in Packets(MaxTx) /\ txvm' \in Packets(MaxTx)
        /\ Len(txhost') <= Capacity /\ Len(txvm') <= Capacity
    BY <1>1, <1>7, <2>1, <2>2, <2>3, <2>4 DEF TxMove, Packets
  <2> QED BY <1>1, <1>7, <2>5 DEF TxMove, TypeOK, BatchOK
<1>8. CASE TxNotify
  <2>1. Least(tx_event + 1, PIPE) \in 0 .. PIPE BY <1>1 DEF Least, TypeOK
  <2> QED BY <1>1, <1>8, <2>1 DEF TxNotify, TypeOK, BatchOK
<1>9. CASE netcard_close BY <1>1, <1>9 DEF netcard_close, TypeOK, BatchOK
<1>10. CASE FreeAll BY <1>1, <1>10 DEF FreeAll, TypeOK, BatchOK
<1>11. CASE network_attach
  <2>1. 0 \in 0 .. MaxTx /\ 0 \in 0 .. MaxRx /\ 0 \in 0 .. PIPE /\ 0 \in 0 .. NET_QUEUE_LEN
    BY <1>1
  <2>2. BatchOK' BY <1>1, <1>11 DEF network_attach, BatchOK
  <2>3. /\ txvm' \in Packets(MaxTx) /\ txhost' \in Packets(MaxTx) /\ rx' \in Packets(MaxRx)
        /\ rxontx' \in Packets(MaxRx) /\ queued' \in Packets(MaxRx)
        /\ Len(txvm') <= Capacity /\ Len(txhost') <= Capacity /\ Len(rx') <= Capacity
        /\ Len(rxontx') <= Capacity /\ Len(queued') <= 1 /\ Len(batch') <= NET_QUEUE_LEN
    BY <1>1, <1>11 DEF network_attach
  <2>4. TypeOK' BY <1>1, <1>11, <2>1, <2>3 DEF network_attach, TypeOK
  <2> QED BY <2>2, <2>4
<1>12. CASE Polled
  <2>1. Signalled \subseteq {"stop", "tx"} BY DEF Signalled
  <2>2. revents' \subseteq {"stop", "tx"} BY <1>12, <2>1 DEF Polled
  <2>3. BatchOK' BY <1>1, <1>12 DEF Polled, BatchOK
  <2>4. TypeOK' BY <1>1, <1>12, <2>2 DEF Polled, TypeOK
  <2> QED BY <2>3, <2>4
<1>13. CASE SocketPacket
  <2>1. rxmade + 1 \in 1 .. MaxRx /\ rxmade + 1 \in 0 .. MaxRx
    BY <1>1, <1>13 DEF SocketPacket, TypeOK
  <2>2. rx' \in Packets(MaxRx) /\ Len(rx') <= Capacity
    BY <1>1, <1>13, <2>1, PutIs DEF SocketPacket, TypeOK, Packets
  <2> QED BY <1>1, <1>13, <2>1, <2>2 DEF SocketPacket, TypeOK, BatchOK
<1>14. CASE SocketsDone BY <1>1, <1>14 DEF SocketsDone, TypeOK, BatchOK
<1>15. CASE Stopped BY <1>1, <1>15 DEF Stopped, TypeOK, BatchOK
<1>16. CASE Events
  <2>1. tx_event' \in 0 .. PIPE BY <1>1, <1>16 DEF Events, SeenOK, TypeOK
  <2> QED BY <1>1, <1>16, <2>1 DEF Events, TypeOK, BatchOK
<1>17. CASE TxPop
  <2>1. txhost \in Seq(1 .. MaxTx) /\ Len(txhost) <= Capacity /\ Len(txhost) \in Nat
        /\ PopCount = Len(txhost)
    BY <1>1, CountFacts DEF TypeOK, Packets
  <2>2. /\ Take(txhost, PopCount) \in Seq(1 .. MaxTx) /\ Len(Take(txhost, PopCount)) = Len(txhost)
        /\ Drop(txhost, PopCount) \in Seq(1 .. MaxTx) /\ Len(Drop(txhost, PopCount)) = 0
    BY <2>1, TakeIs, DropIs
  <2>5. txhost' = Drop(txhost, PopCount)
        /\ (batch' = Take(txhost, PopCount) \/ batch' = << >>)
    BY <1>17 DEF TxPop
  <2>6. txhost' \in Packets(MaxTx) /\ Len(txhost') <= Capacity
    BY <1>1, <2>2, <2>5 DEF Packets
  <2>7. batch' \in Packets(MaxTx) /\ Len(batch') <= NET_QUEUE_LEN
    <3>1. CASE batch' = << >> BY <1>1, <3>1
    <3>2. CASE batch' = Take(txhost, PopCount) BY <1>1, <2>1, <2>2, <3>2 DEF Packets
    <3> QED BY <2>5, <3>1, <3>2
  <2>3. /\ txhost' \in Packets(MaxTx) /\ Len(txhost') <= Capacity
        /\ batch' \in Packets(MaxTx) /\ Len(batch') <= NET_QUEUE_LEN
    BY <2>6, <2>7
  <2>4. batch' \in Seq(Nat) BY <1>1, <2>3, NatSeq
  <2> QED BY <1>1, <1>17, <2>3, <2>4 DEF TxPop, TypeOK, BatchOK
<1>18. ASSUME NEW answers \in {0, 1}, Input(answers) PROVE TypeOK' /\ BatchOK'
  <2>1. batch \in Packets(MaxTx) /\ batch # << >> /\ Len(batch) <= NET_QUEUE_LEN
    BY <1>1, <1>18 DEF Input, BatchOK, TypeOK
  <2>2. /\ Head(batch) \in 1 .. MaxTx /\ Tail(batch) \in Packets(MaxTx)
        /\ Len(Tail(batch)) = Len(batch) - 1 /\ Len(batch) \in Nat
    BY <2>1, HeadTail
  <2>3. /\ txlast' \in 0 .. MaxTx /\ batch' \in Packets(MaxTx) /\ Len(batch') <= NET_QUEUE_LEN
    BY <1>1, <1>18, <2>1, <2>2 DEF Input
  <2>4. batch' \in Seq(Nat) BY <1>1, <2>3, NatSeq
  <2>5. rxmade' \in 0 .. MaxRx /\ (answers = 1 => rxmade + 1 \in 1 .. MaxRx)
    BY <1>1, <1>18 DEF Input, TypeOK
  <2>6. rxontx' \in Packets(MaxRx) /\ Len(rxontx') <= Capacity
    BY <1>1, <1>18, <2>5, PutIs DEF Input, TypeOK, Packets
  <2> QED BY <1>1, <1>18, <2>3, <2>4, <2>5, <2>6 DEF Input, TypeOK, BatchOK
<1>19. CASE InputDone
  <2>1. rxontx \in Packets(MaxRx) /\ Len(rxontx) \in Nat /\ Len(rxontx) <= Capacity
    BY <1>1, LenProperties DEF TypeOK, Packets
  <2>2. /\ batch' \in Packets(MaxRx) /\ Len(batch') <= NET_QUEUE_LEN
        /\ rxontx' \in Packets(MaxRx) /\ Len(rxontx') <= Capacity
    BY <1>1, <1>19, <2>1 DEF InputDone
  <2>3. batch' \in Seq(Nat) BY <1>1, <2>2, NatSeq
  <2> QED BY <1>1, <1>19, <2>2, <2>3 DEF InputDone, TypeOK, BatchOK
<1>20. CASE Deferred
  <2>1. CASE batch = << >> BY <1>1, <1>20, <2>1 DEF Deferred, TypeOK, BatchOK
  <2>2. CASE batch # << >>
    <3>1. batch \in Packets(MaxRx) /\ Len(batch) <= NET_QUEUE_LEN
      BY <1>1, <1>20 DEF Deferred, BatchOK, TypeOK
    <3>2. /\ Head(batch) \in 1 .. MaxRx /\ Tail(batch) \in Packets(MaxRx)
          /\ Len(Tail(batch)) = Len(batch) - 1 /\ Len(batch) \in Nat
      BY <2>2, <3>1, HeadTail
    <3>3. Put(rx, Head(batch)) \in Packets(MaxRx) /\ Len(Put(rx, Head(batch))) <= Capacity
      BY <1>1, <3>2, PutIs DEF TypeOK, Packets
    <3>4. Tail(batch) \in Seq(Nat) /\ Len(Tail(batch)) <= NET_QUEUE_LEN
      BY <1>1, <3>1, <3>2, NatSeq
    <3> QED BY <1>1, <1>20, <2>2, <3>2, <3>3, <3>4 DEF Deferred, TypeOK, BatchOK
  <2> QED BY <2>1, <2>2
<1>21. CASE network_connect BY <1>1, <1>21 DEF network_connect, TypeOK, BatchOK
<1>22. CASE UNCHANGED vars BY <1>1, <1>22 DEF vars, TypeOK, BatchOK
<1> QED
  BY <1>2, <1>3, <1>4, <1>5, <1>6, <1>7, <1>8, <1>9, <1>10, <1>11, <1>12, <1>13, <1>14,
     <1>15, <1>16, <1>17, <1>18, <1>19, <1>20, <1>21, <1>22
  DEF Next, EmuStep, HostStep, PollEvents, PollSockets
-----------------------------------------------------------------------------
(* Control: what is where, and who has been told.                           *)

LEMMA ControlStep ==
  ASSUME IInv, [Next]_vars PROVE AsideOK' /\ CardOK' /\ SeenOK' /\ Announced'
<1>1. /\ TypeOK /\ BatchOK /\ AsideOK /\ CardOK /\ SeenOK /\ Announced
      /\ PIPE \in Nat \ {0} /\ tx_event \in Nat
  BY NetCardAssumption DEF IInv, TypeOK
<1> USE DEF emuVars, hostVars
<1>2. CASE network_tx
  BY <1>1, <1>2 DEF network_tx, AsideOK, CardOK, SeenOK, Announced
<1>3. CASE network_rx_queue
  BY <1>1, <1>3 DEF network_rx_queue, AsideOK, CardOK, SeenOK, Announced
<1>4. CASE RxGet
  <2>1. emu' = "card" => queued' # << >> /\ left' > 0
    <3> SUFFICES ASSUME emu' = "card" PROVE queued' # << >> /\ left' > 0 OBVIOUS
    <3>1. left > 0 /\ (queued # << >> \/ queued' = <<Head(rx)>>) /\ left' = left
          /\ (queued' = queued \/ queued' = <<Head(rx)>>)
      BY <1>4 DEF RxGet
    <3>2. <<Head(rx)>> # << >> OBVIOUS
    <3> QED BY <3>1, <3>2
  <2>2. emu' # "closed" /\ emu # "notify" BY <1>4 DEF RxGet
  <2>3. CardOK' BY <2>1, <2>2 DEF CardOK
  <2> QED BY <1>1, <1>4, <2>2, <2>3 DEF RxGet, AsideOK, SeenOK, Announced
<1>5. CASE RxAccepted
  BY <1>1, <1>5 DEF RxAccepted, AsideOK, CardOK, SeenOK, Announced
<1>6. CASE RxRefused
  BY <1>1, <1>6 DEF RxRefused, AsideOK, CardOK, SeenOK, Announced
<1>7. CASE TxMove
  <2>1. Announced'
    <3>1. CASE Movable > 0 BY <1>7, <3>1 DEF TxMove, Notifies, Announced
    <3>2. CASE ~(Movable > 0)
      <4>1. Movable = 0 BY <1>1, <3>2, CountFacts
      <4>2. Take(txvm, 0) = << >>
        <5>1. Take(txvm, 0) = SubSeq(txvm, 1, 0) BY DEF Take
        <5> QED BY <5>1, SubSeqEmpty
      <4>3. txhost \o << >> = txhost BY <1>1, ConcatEmptySeq DEF TypeOK, Packets
      <4>4. txhost' = txhost BY <1>7, <4>1, <4>2, <4>3 DEF TxMove
      <4> QED BY <1>1, <1>7, <4>4 DEF TxMove, Announced
    <3> QED BY <3>1, <3>2
  <2> QED BY <1>1, <1>7, <2>1 DEF TxMove, AsideOK, CardOK, SeenOK
<1>8. CASE TxNotify
  <2>1. Least(tx_event + 1, PIPE) > 0 BY <1>1 DEF Least
  <2> QED BY <1>1, <1>8, <2>1 DEF TxNotify, AsideOK, CardOK, SeenOK, Announced
<1>9. CASE netcard_close
  BY <1>1, <1>9 DEF netcard_close, AsideOK, CardOK, SeenOK, Announced
<1>10. CASE FreeAll
  BY <1>1, <1>10 DEF FreeAll, AsideOK, CardOK, SeenOK, Announced
<1>11. CASE network_attach
  BY <1>1, <1>11 DEF network_attach, AsideOK, CardOK, SeenOK, Announced
<1>12. CASE Polled
  <2>1. "tx" \in Signalled => tx_event > 0 BY DEF Signalled
  <2> QED BY <1>1, <1>12, <2>1 DEF Polled, AsideOK, CardOK, SeenOK, Announced
<1>13. CASE SocketPacket
  BY <1>1, <1>13 DEF SocketPacket, AsideOK, CardOK, SeenOK, Announced
<1>14. CASE SocketsDone
  BY <1>1, <1>14 DEF SocketsDone, AsideOK, CardOK, SeenOK, Announced
<1>15. CASE Stopped
  BY <1>1, <1>15 DEF Stopped, AsideOK, CardOK, SeenOK, Announced
<1>16. CASE Events
  BY <1>1, <1>16 DEF Events, AsideOK, CardOK, SeenOK, Announced
<1>17. CASE TxPop
  <2>1. txhost' = << >>
    <3>1. txhost' = SubSeq(txhost, Len(txhost) + 1, Len(txhost))
      BY <1>1, <1>17, CountFacts DEF TxPop, Drop
    <3>2. Len(txhost) \in Int /\ Len(txhost) + 1 \in Int /\ Len(txhost) < Len(txhost) + 1
      BY <1>1, CountFacts
    <3> QED BY <3>1, <3>2, SubSeqEmpty
  <2> QED BY <1>1, <1>17, <2>1 DEF TxPop, AsideOK, CardOK, SeenOK, Announced
<1>18. ASSUME NEW answers \in {0, 1}, Input(answers)
       PROVE  AsideOK' /\ CardOK' /\ SeenOK' /\ Announced'
  <2>1. AsideOK' BY <1>1, <1>18 DEF Input, AsideOK
  <2> QED BY <1>1, <1>18, <2>1 DEF Input, CardOK, SeenOK, Announced
<1>19. CASE InputDone
  BY <1>1, <1>19 DEF InputDone, AsideOK, CardOK, SeenOK, Announced
<1>20. CASE Deferred
  BY <1>1, <1>20 DEF Deferred, AsideOK, CardOK, SeenOK, Announced
<1>21. CASE network_connect
  BY <1>1, <1>21 DEF network_connect, AsideOK, CardOK, SeenOK, Announced
<1>22. CASE UNCHANGED vars
  BY <1>1, <1>22 DEF vars, AsideOK, CardOK, SeenOK, Announced
<1> QED
  BY <1>2, <1>3, <1>4, <1>5, <1>6, <1>7, <1>8, <1>9, <1>10, <1>11, <1>12, <1>13, <1>14,
     <1>15, <1>16, <1>17, <1>18, <1>19, <1>20, <1>21, <1>22
  DEF Next, EmuStep, HostStep, PollEvents, PollSockets

-----------------------------------------------------------------------------
(* The guest's packets.                                                     *)

(* Every step of the two threads that touches them is a move of OrdPut,     *)
(* OrdPass, OrdAccept or OrdLose.                                           *)
LEMMA TxStep == ASSUME IInv, [Next]_vars PROVE TxOrder'
<1>1. /\ TypeOK /\ BatchOK /\ TxOrder
      /\ txvm \in Seq(Nat) /\ txhost \in Seq(Nat) /\ Outgoing \in Seq(Nat)
      /\ txlast \in Nat /\ txmade \in Nat /\ << >> \in Seq(Nat)
  BY TypeFacts, EmptySeq DEF IInv
<1>2. Ordered(txlast, Outgoing, txhost, txvm, << >>, txmade) BY <1>1 DEF TxOrder
<1>3. ASSUME UNCHANGED <<txlast, Outgoing, txhost, txvm, txmade>> PROVE TxOrder'
  BY <1>2, <1>3 DEF TxOrder
<1> USE DEF emuVars, hostVars
<1>4. CASE network_tx
  <2>1. /\ txlast' = txlast /\ Outgoing' = Outgoing /\ txhost' = txhost
        /\ txvm' = Put(txvm, txmade + 1) /\ txmade' = txmade + 1
    BY <1>4 DEF network_tx, Outgoing
  <2>2. Ordered(txlast, << >>, Outgoing, txhost, txvm, txmade) BY <1>1, <1>2, OrdShift
  <2>3. Ordered(txlast, << >>, Outgoing, txhost, txvm', txmade') BY <1>1, <2>1, <2>2, OrdPut
  <2>4. txvm' \in Seq(Nat) /\ txmade' \in Nat BY <1>1, <2>1, PutIs
  <2>5. Ordered(txlast, Outgoing, txhost, txvm', << >>, txmade') BY <1>1, <2>3, <2>4, OrdShift
  <2> QED BY <2>1, <2>5 DEF TxOrder
<1>5. CASE TxMove
  <2>1. /\ txlast' = txlast /\ Outgoing' = Outgoing /\ txmade' = txmade
        /\ txhost' = txhost \o Take(txvm, Movable) /\ txvm' = Drop(txvm, Movable)
    BY <1>5 DEF TxMove, Outgoing
  <2>2. Movable \in 0 .. Len(txvm) BY <1>1, CountFacts
  <2> HIDE DEF Movable
  <2>3. Ordered(txlast, Outgoing, txhost', txvm', << >>, txmade)
    BY <1>1, <1>2, <2>1, <2>2, OrdPass
  <2> QED BY <2>1, <2>3 DEF TxOrder
<1>6. CASE FreeAll
  <2>1. /\ txlast' = txlast /\ Outgoing' = Outgoing /\ txmade' = txmade
        /\ txhost' = << >> /\ txvm' = << >>
    BY <1>6 DEF FreeAll, Outgoing
  <2>2. Ordered(txlast, Outgoing, << >>, txvm, << >>, txmade) BY <1>1, <1>2, OrdLose
  <2>3. Ordered(txlast, Outgoing, << >>, << >>, << >>, txmade) BY <1>1, <2>2, OrdLose
  <2> QED BY <2>1, <2>3 DEF TxOrder
<1>7. CASE network_attach
  <2>1. /\ txlast' = 0 /\ Outgoing' = << >> /\ txmade' = 0
        /\ txhost' = << >> /\ txvm' = << >>
    BY <1>7 DEF network_attach, Outgoing
  <2> QED BY <2>1, OrdEmpty DEF TxOrder
<1>8. CASE TxPop
  <2>1. Take(txhost, PopCount) = txhost /\ Drop(txhost, PopCount) = << >>
    <3>1. PopCount = Len(txhost) /\ Len(txhost) \in Nat BY <1>1, CountFacts
    <3>2. SubSeq(txhost, 1, Len(txhost)) = txhost BY <1>1, SubSeqFull
    <3>3. SubSeq(txhost, Len(txhost) + 1, Len(txhost)) = << >> BY <3>1, SubSeqEmpty
    <3> QED BY <3>1, <3>2, <3>3 DEF Take, Drop
  <2>2. /\ txlast' = txlast /\ txmade' = txmade /\ txvm' = txvm /\ txhost' = << >>
        /\ Outgoing = << >> /\ (Outgoing' = txhost \/ Outgoing' = << >>)
    BY <1>8, <2>1 DEF TxPop, Outgoing
  <2>3. Ordered(txlast, << >>, << >>, txvm, << >>, txmade) BY <1>1, <1>2, <2>2, OrdLose
  <2>4. Ordered(txlast, txhost, << >>, txvm, << >>, txmade)
    BY <1>1, <1>2, <2>2, OrdWhole
  <2> QED BY <2>2, <2>3, <2>4 DEF TxOrder
<1>9. ASSUME NEW answers \in {0, 1}, Input(answers) PROVE TxOrder'
  <2>1. /\ Outgoing = batch /\ Outgoing # << >> /\ txlast' = Head(Outgoing)
        /\ Outgoing' = Tail(Outgoing) /\ txhost' = txhost /\ txvm' = txvm /\ txmade' = txmade
    BY <1>9 DEF Input, Outgoing
  <2>2. Ordered(Head(Outgoing), Tail(Outgoing), txhost, txvm, << >>, txmade)
    BY <1>1, <1>2, <2>1, OrdAccept
  <2> QED BY <2>1, <2>2 DEF TxOrder
<1>10. CASE InputDone
  BY <1>3, <1>10 DEF InputDone, Outgoing
<1>11. CASE network_rx_queue \/ RxGet \/ RxAccepted \/ RxRefused \/ TxNotify \/ netcard_close
  BY <1>3, <1>11
  DEF network_rx_queue, RxGet, RxAccepted, RxRefused, TxNotify, netcard_close, Outgoing
<1>12. CASE Polled \/ SocketPacket \/ SocketsDone \/ Stopped \/ Events \/ Deferred
            \/ network_connect \/ UNCHANGED vars
  BY <1>3, <1>12
  DEF Polled, SocketPacket, SocketsDone, Stopped, Events, Deferred, network_connect, vars, Outgoing
<1> QED
  BY <1>4, <1>5, <1>6, <1>7, <1>8, <1>9, <1>10, <1>11, <1>12
  DEF Next, EmuStep, HostStep, PollEvents, PollSockets
-----------------------------------------------------------------------------
(* The received packets.                                                    *)

(* An answer that is set aside overtakes nothing: when packets go straight  *)
(* into RX nothing is set aside.                                            *)
LEMMA RxStep == ASSUME IInv, [Next]_vars PROVE RxOrder'
<1>1. /\ TypeOK /\ BatchOK /\ AsideOK /\ CardOK /\ RxOrder
      /\ queued \in Seq(Nat) /\ rx \in Seq(Nat) /\ Incoming \in Seq(Nat) /\ rxontx \in Seq(Nat)
      /\ rxlast \in Nat /\ rxmade \in Nat /\ << >> \in Seq(Nat)
  BY TypeFacts, EmptySeq DEF IInv
<1>2. Ordered(rxlast, queued, rx, Incoming, rxontx, rxmade) BY <1>1 DEF RxOrder
<1>3. ASSUME UNCHANGED <<rxlast, queued, rx, Incoming, rxontx, rxmade>> PROVE RxOrder'
  BY <1>2, <1>3 DEF RxOrder
<1> USE DEF emuVars, hostVars
<1>4. CASE RxGet
  <2>1. UNCHANGED <<rxlast, Incoming, rxontx, rxmade>> BY <1>4 DEF RxGet, Incoming
  <2>2. \/ queued' = queued /\ rx' = rx
        \/ queued = << >> /\ rx # << >> /\ queued' = <<Head(rx)>> /\ rx' = Tail(rx)
    BY <1>4 DEF RxGet
  <2>3. CASE queued' = queued /\ rx' = rx BY <1>3, <2>1, <2>3
  <2>4. CASE queued = << >> /\ rx # << >> /\ queued' = <<Head(rx)>> /\ rx' = Tail(rx)
    <3>1. Ordered(rxlast, << >>, rx, Incoming, rxontx, rxmade) BY <1>2, <2>4
    <3>2. Ordered(rxlast, <<Head(rx)>>, Tail(rx), Incoming, rxontx, rxmade)
      BY <1>1, <2>4, <3>1, OrdFetch
    <3> QED BY <2>1, <2>4, <3>2 DEF RxOrder
  <2> QED BY <2>2, <2>3, <2>4
<1>5. CASE RxAccepted
  <2>1. UNCHANGED <<rx, Incoming, rxontx, rxmade>> /\ rxlast' = Head(queued) /\ queued' = << >>
    BY <1>5 DEF RxAccepted, Incoming
  <2>2. queued # << >> BY <1>1, <1>5 DEF RxAccepted, CardOK
  <2>3. Ordered(Head(queued), Tail(queued), rx, Incoming, rxontx, rxmade)
    BY <1>1, <1>2, <2>2, OrdAccept
  <2>4. Head(queued) \in Nat /\ Tail(queued) \in Seq(Nat) BY <1>1, <2>2, HeadTailProperties
  <2>5. Ordered(Head(queued), << >>, rx, Incoming, rxontx, rxmade)
    BY <1>1, <2>3, <2>4, OrdLose
  <2> QED BY <2>1, <2>5 DEF RxOrder
<1>6. CASE FreeAll
  <2>1. UNCHANGED <<rxlast, Incoming, rxontx, rxmade>> /\ queued' = << >> /\ rx' = << >>
    BY <1>6 DEF FreeAll, Incoming
  <2>2. Ordered(rxlast, << >>, rx, Incoming, rxontx, rxmade) BY <1>1, <1>2, OrdLose
  <2>3. Ordered(rxlast, << >>, << >>, Incoming, rxontx, rxmade) BY <1>1, <2>2, OrdLose
  <2> QED BY <2>1, <2>3 DEF RxOrder
<1>7. CASE network_attach
  <2>1. /\ rxlast' = 0 /\ queued' = << >> /\ rx' = << >> /\ Incoming' = << >>
        /\ rxontx' = << >> /\ rxmade' = 0
    BY <1>7 DEF network_attach, Incoming
  <2> QED BY <2>1, OrdEmpty DEF RxOrder
<1>8. CASE SocketPacket
  <2>1. /\ rxlast' = rxlast /\ queued' = queued /\ rxmade' = rxmade + 1
        /\ Incoming = << >> /\ Incoming' = << >> /\ rxontx = << >> /\ rxontx' = << >>
        /\ (rx' = rx \/ rx' = Put(rx, rxmade + 1))
    BY <1>1, <1>8 DEF SocketPacket, Incoming, AsideOK
  <2>2. Ordered(rxlast, queued, rx, << >>, << >>, rxmade) BY <1>2, <2>1
  <2>3. rxmade + 1 \in Nat /\ rxmade <= rxmade + 1 BY <1>1
  <2>4. CASE rx' = rx
    <3>1. Ordered(rxlast, queued, rx, << >>, << >>, rxmade + 1)
      BY <1>1, <2>2, <2>3, OrdMore
    <3> QED BY <2>1, <2>4, <3>1 DEF RxOrder
  <2>5. CASE rx' = Put(rx, rxmade + 1)
    <3>1. Ordered(rxlast, << >>, queued, rx, << >>, rxmade) BY <1>1, <2>2, OrdShift
    <3>2. Ordered(rxlast, << >>, << >>, queued, rx, rxmade) BY <1>1, <3>1, OrdShift
    <3>3. Ordered(rxlast, << >>, << >>, queued, rx', rxmade + 1) BY <1>1, <2>5, <3>2, OrdPut
    <3>4. rx' \in Seq(Nat) BY <1>1, <2>3, <2>5, PutIs
    <3>5. Ordered(rxlast, << >>, queued, rx', << >>, rxmade + 1)
      BY <1>1, <2>3, <3>3, <3>4, OrdShift
    <3>6. Ordered(rxlast, queued, rx', << >>, << >>, rxmade + 1)
      BY <1>1, <2>3, <3>4, <3>5, OrdShift
    <3> QED BY <2>1, <3>6 DEF RxOrder
  <2> QED BY <2>1, <2>4, <2>5
<1>9. ASSUME NEW answers \in {0, 1}, Input(answers) PROVE RxOrder'
  <2>1. /\ UNCHANGED <<rxlast, queued, rx, Incoming>>
        /\ rxmade' = rxmade + answers
        /\ (rxontx' = rxontx \/ (answers = 1 /\ rxontx' = Put(rxontx, rxmade + 1)))
    BY <1>9 DEF Input, Incoming
  <2>2. rxmade + answers \in Nat /\ rxmade <= rxmade + answers BY <1>1
  <2>3. CASE rxontx' = rxontx
    <3>1. Ordered(rxlast, queued, rx, Incoming, rxontx, rxmade + answers)
      BY <1>1, <1>2, <2>2, OrdMore
    <3> QED BY <2>1, <2>3, <3>1 DEF RxOrder
  <2>4. CASE answers = 1 /\ rxontx' = Put(rxontx, rxmade + 1)
    <3>1. Ordered(rxlast, queued, rx, Incoming, Put(rxontx, rxmade + 1), rxmade + 1)
      BY <1>1, <1>2, OrdPut
    <3> QED BY <2>1, <2>4, <3>1 DEF RxOrder
  <2> QED BY <2>1, <2>3, <2>4
<1>10. CASE InputDone
  <2>1. /\ UNCHANGED <<rxlast, queued, rx, rxmade>> /\ Incoming = << >>
        /\ (Incoming' = rxontx \/ Incoming' = << >>) /\ rxontx' = << >>
    BY <1>1, <1>10 DEF InputDone, Incoming, AsideOK
  <2>2. Ordered(rxlast, queued, rx, << >>, rxontx, rxmade) BY <1>2, <2>1
  <2>3. Ordered(rxlast, queued, rx, rxontx, << >>, rxmade) BY <1>1, <2>2, OrdWhole
  <2>4. Ordered(rxlast, queued, rx, << >>, << >>, rxmade) BY <1>1, <2>2, OrdLose
  <2> QED BY <2>1, <2>3, <2>4 DEF RxOrder
<1>11. CASE Deferred
  <2>1. CASE batch = << >> BY <1>3, <1>11, <2>1 DEF Deferred, Incoming
  <2>2. CASE batch # << >>
    <3>1. /\ UNCHANGED <<rxlast, queued, rxontx, rxmade>> /\ Incoming = batch
          /\ Incoming' = Tail(Incoming) /\ rx' = Put(rx, Head(Incoming)) /\ Incoming # << >>
      BY <1>11, <2>2 DEF Deferred, Incoming
    <3>2. rx' = rx \/ rx' = Append(rx, Head(Incoming)) BY <3>1 DEF Put
    <3>3. /\ Ordered(rxlast, queued, rx, Tail(Incoming), rxontx, rxmade)
          /\ Ordered(rxlast, queued, Append(rx, Head(Incoming)), Tail(Incoming), rxontx, rxmade)
      BY <1>1, <1>2, <3>1, OrdStep
    <3> QED BY <3>1, <3>2, <3>3 DEF RxOrder
  <2> QED BY <2>1, <2>2
<1>12. CASE network_tx \/ network_rx_queue \/ RxRefused \/ TxMove \/ TxNotify \/ netcard_close
  BY <1>3, <1>12
  DEF network_tx, network_rx_queue, RxRefused, TxMove, TxNotify, netcard_close, Incoming
<1>13. CASE Polled \/ SocketsDone \/ Stopped \/ Events \/ TxPop
            \/ network_connect \/ UNCHANGED vars
  BY <1>3, <1>13
  DEF Polled, SocketsDone, Stopped, Events, TxPop, network_connect, vars, Incoming
<1> QED
  BY <1>4, <1>5, <1>6, <1>7, <1>8, <1>9, <1>10, <1>11, <1>12, <1>13
  DEF Next, EmuStep, HostStep, PollEvents, PollSockets

-----------------------------------------------------------------------------
(* The theorems.                                                            *)

LEMMA InitOK == Init => IInv
<1> SUFFICES ASSUME Init PROVE IInv OBVIOUS
<1>1. /\ MaxTx \in Nat /\ MaxRx \in Nat /\ PIPE \in Nat /\ NET_QUEUE_LEN \in Nat /\ Capacity \in Nat
      /\ \A n : << >> \in Packets(n)
      /\ << >> \in Seq(Nat) /\ Len(<< >>) = 0
  BY NetCardAssumption, EmptySeq DEF Packets, Capacity
<1>2. 0 \in 0 .. MaxTx /\ 0 \in 0 .. MaxRx /\ 0 \in 0 .. PIPE /\ 0 \in 0 .. NET_QUEUE_LEN
  BY <1>1
<1>3. TypeOK
  <2>1. /\ txvm \in Packets(MaxTx) /\ txhost \in Packets(MaxTx) /\ rx \in Packets(MaxRx)
        /\ rxontx \in Packets(MaxRx) /\ queued \in Packets(MaxRx)
        /\ Len(txvm) <= Capacity /\ Len(txhost) <= Capacity /\ Len(rx) <= Capacity
        /\ Len(rxontx) <= Capacity /\ Len(queued) <= 1 /\ Len(batch) <= NET_QUEUE_LEN
    BY <1>1 DEF Init
  <2> QED BY <1>2, <2>1 DEF Init, TypeOK
<1>4. BatchOK /\ AsideOK /\ CardOK /\ SeenOK /\ Announced
  BY <1>1 DEF Init, BatchOK, AsideOK, CardOK, SeenOK, Announced
<1>5. TxOrder BY OrdEmpty DEF Init, TxOrder, Outgoing
<1>6. RxOrder BY OrdEmpty DEF Init, RxOrder, Incoming
<1> QED BY <1>3, <1>4, <1>5, <1>6 DEF IInv

LEMMA Invariance == Spec => []IInv
<1>1. IInv /\ [Next]_vars => IInv' BY TypeStep, ControlStep, TxStep, RxStep DEF IInv
<1> QED BY <1>1, InitOK, PTL DEF Spec

(* Whatever the lengths of the queues, the capacity of the event and the    *)
(* interleaving of the two threads with the user's changes of the link: the *)
(* queues stay within their bounds, the guest's packets reach SLiRP and     *)
(* received ones the card in the order they were made and at most once, and *)
(* the host thread never blocks in poll with packets that nobody announces. *)
THEOREM QueuesCorrect == Spec => []QueuesInv
<1>1. IInv => QueuesInv
  <2> SUFFICES ASSUME IInv PROVE QueuesInv OBVIOUS
  <2>1. TypeOK /\ BatchOK /\ Announced /\ TxOrder /\ RxOrder BY DEF IInv
  <2>2. NotStranded BY <2>1 DEF Announced, NotStranded
  <2>3. Increasing(<<txlast>> \o Outgoing \o txhost \o txvm)
    BY <2>1, TypeFacts, EmptySeq, OrdIncreasing DEF TxOrder
  <2>4. Increasing(<<rxlast>> \o queued \o rx \o Incoming \o rxontx)
    BY <2>1, TypeFacts, OrdIncreasing DEF RxOrder
  <2> QED BY <2>1, <2>2, <2>3, <2>4 DEF QueuesInv, InOrder
<1> QED BY <1>1, Invariance, PTL

(* The packets of two queues, of a longer and of a shorter one. *)
LEMMA SetFacts ==
  ASSUME NEW s \in Seq(Nat)
  PROVE  /\ ToSet(<< >>) = {}
         /\ \A t \in Seq(Nat) : ToSet(s \o t) = ToSet(s) \cup ToSet(t)
         /\ \A p \in Nat : ToSet(s) \subseteq ToSet(Append(s, p))
         /\ s # << >> => ToSet(s) = {Head(s)} \cup ToSet(Tail(s))
         /\ s # << >> => ToSet(<<Head(s)>>) = {Head(s)}
<1>1. \A t \in Seq(Nat) : ToSet(t) = {t[i] : i \in 1 .. Len(t)} BY LenProperties DEF ToSet
<1>2. << >> \in Seq(Nat) /\ Len(<< >>) = 0 /\ Len(s) \in Nat BY EmptySeq, LenProperties
<1>3. ToSet(<< >>) = {}
  <2>1. 1 .. Len(<< >>) = {} BY <1>2
  <2>2. DOMAIN << >> = {} BY <1>2, <2>1, LenProperties
  <2> QED BY <2>2, Zenon DEF ToSet
<1>4. ASSUME NEW t \in Seq(Nat) PROVE ToSet(s \o t) = ToSet(s) \cup ToSet(t)
  <2>1. ToSet(s) = Range(s) /\ ToSet(t) = Range(t) /\ ToSet(s \o t) = Range(s \o t)
    BY DEF ToSet, Range
  <2>2. Range(s \o t) = Range(s) \cup Range(t) BY RangeConcatenation
  <2> QED BY <2>1, <2>2
<1>5. ASSUME NEW p \in Nat PROVE ToSet(s) \subseteq ToSet(Append(s, p))
  <2>1. <<p>> \in Seq(Nat) /\ Append(s, p) = s \o <<p>> BY AppendIsConcat
  <2> QED BY <1>4, <2>1
<1>6. ASSUME s # << >>
      PROVE  ToSet(s) = {Head(s)} \cup ToSet(Tail(s)) /\ ToSet(<<Head(s)>>) = {Head(s)}
  <2>1. /\ Head(s) \in Nat /\ Tail(s) \in Seq(Nat) /\ Len(Tail(s)) = Len(s) - 1
        /\ \A i \in 1 .. Len(Tail(s)) : Tail(s)[i] = s[i + 1]
    BY <1>6, HeadTailProperties
  <2>2. Len(s) \in Nat \ {0} /\ Head(s) = s[1] BY <1>6, EmptySeq
  <2>3. ToSet(Tail(s)) = {s[i + 1] : i \in 1 .. Len(s) - 1}
    <3>1. ToSet(Tail(s)) = {Tail(s)[i] : i \in 1 .. Len(s) - 1} BY <1>1, <2>1
    <3> QED BY <2>1, <3>1
  <2>4. \A i \in 1 .. Len(s) : i = 1 \/ (i - 1 \in 1 .. Len(s) - 1 /\ i = (i - 1) + 1) BY <2>2
  <2>5. \A i \in 1 .. Len(s) - 1 : i + 1 \in 1 .. Len(s) BY <2>2
  <2>6. 1 \in 1 .. Len(s) BY <2>2
  <2>7. ToSet(s) = {s[i] : i \in 1 .. Len(s)} BY <1>1
  <2>8. ToSet(s) = {Head(s)} \cup ToSet(Tail(s)) BY <2>2, <2>3, <2>4, <2>5, <2>6, <2>7
  <2>9. ToSet(<<Head(s)>>) = {Head(s)} BY DEF ToSet
  <2> QED BY <2>8, <2>9
<1> QED BY <1>3, <1>4, <1>5, <1>6

(* The body of RxKept. *)
Kept == emu' # "closed" =>
          ToSet(queued \o rx) \subseteq ToSet(queued' \o rx') \cup {rxlast'}

(* A packet in RX, or held back because the card had no room, stays until   *)
(* the card takes it or is closed, whatever the link does meanwhile.        *)
THEOREM RxKeptCorrect == Spec => RxKept
<1>1. IInv /\ IInv' /\ [Next]_vars => [Kept]_vars
  <2> SUFFICES ASSUME IInv, IInv', Next, emu' # "closed"
               PROVE  ToSet(queued \o rx) \subseteq ToSet(queued' \o rx') \cup {rxlast'}
    BY DEF Kept
  <2>1. /\ queued \in Seq(Nat) /\ rx \in Seq(Nat) /\ queued' \in Seq(Nat) /\ rx' \in Seq(Nat)
    <3>1. /\ queued \in Packets(MaxRx) /\ rx \in Packets(MaxRx) /\ MaxRx \in Nat
          /\ queued' \in Packets(MaxRx) /\ rx' \in Packets(MaxRx)
      BY NetCardAssumption DEF IInv, TypeOK
    <3> QED BY <3>1, NatSeq
  <2> SUFFICES ToSet(queued) \cup ToSet(rx) \subseteq ToSet(queued') \cup ToSet(rx') \cup {rxlast'}
    <3>1. /\ ToSet(queued \o rx) = ToSet(queued) \cup ToSet(rx)
          /\ ToSet(queued' \o rx') = ToSet(queued') \cup ToSet(rx')
      BY <2>1, SetFacts, ZenonT(60)
    <3> QED BY <3>1
  <2> USE DEF emuVars, hostVars
  <2>2. CASE RxGet
    <3>1. \/ queued' = queued /\ rx' = rx
          \/ queued = << >> /\ rx # << >> /\ queued' = <<Head(rx)>> /\ rx' = Tail(rx)
      BY <2>2 DEF RxGet
    <3>2. ToSet(<< >>) = {} BY <2>1, SetFacts
    <3>3. rx # << >> => ToSet(rx) = ToSet(<<Head(rx)>>) \cup ToSet(Tail(rx)) BY <2>1, SetFacts
    <3> QED BY <3>1, <3>2, <3>3
  <2>3. CASE RxAccepted
    <3>1. queued # << >> /\ rxlast' = Head(queued) /\ rx' = rx /\ Len(queued) <= 1
      BY <2>3 DEF RxAccepted, IInv, CardOK, TypeOK
    <3>2. Tail(queued) = << >>
      <4>1. Tail(queued) \in Seq(Nat) /\ Len(Tail(queued)) = Len(queued) - 1
        BY <2>1, <3>1, HeadTailProperties
      <4>2. Len(queued) \in Nat BY <2>1, LenProperties
      <4>3. ~(Len(Tail(queued)) \in Nat \ {0}) BY <3>1, <4>1, <4>2
      <4> QED BY <4>1, <4>3, EmptySeq
    <3>3. ToSet(queued) = {Head(queued)} BY <2>1, <3>1, <3>2, SetFacts
    <3> QED BY <3>1, <3>3
  <2>4. CASE network_attach
    <3>1. queued = << >> /\ rx = << >> BY <2>4 DEF network_attach, IInv, CardOK
    <3> QED BY <2>1, <3>1, SetFacts
  <2>5. CASE SocketPacket
    <3>1. queued' = queued /\ (rx' = rx \/ rx' = Append(rx, rxmade + 1))
      BY <2>5 DEF SocketPacket, Put
    <3>2. rxmade + 1 \in Nat
      <4>1. rxmade \in Nat BY TypeFacts DEF IInv
      <4> QED BY <4>1
    <3> QED BY <2>1, <3>1, <3>2, SetFacts
  <2>6. CASE Deferred
    <3>1. \/ queued' = queued /\ rx' = rx
          \/ queued' = queued /\ batch # << >> /\ rx' = Append(rx, Head(batch))
      BY <2>6 DEF Deferred, Put
    <3>2. batch # << >> => Head(batch) \in Nat
      <4>1. batch \in Seq(Nat) BY DEF IInv, BatchOK
      <4> QED BY <4>1, HeadTailProperties
    <3> QED BY <2>1, <3>1, <3>2, SetFacts
  <2>7. CASE UNCHANGED <<queued, rx>> BY <2>7
  <2>8. \/ RxGet \/ RxAccepted \/ network_attach \/ SocketPacket \/ Deferred
        \/ UNCHANGED <<queued, rx>>
    BY DEF Next, EmuStep, HostStep, PollEvents, PollSockets, network_tx, network_rx_queue,
           RxRefused, TxMove, TxNotify, netcard_close, FreeAll, Polled, SocketsDone, Stopped,
           Events, TxPop, Input, InputDone, network_connect
  <2> QED BY <2>2, <2>3, <2>4, <2>5, <2>6, <2>7, <2>8
<1>2. [][Kept]_vars => RxKept BY DEF Kept, RxKept
<1>3. IInv /\ [Next]_vars => IInv' BY TypeStep, ControlStep, TxStep, RxStep DEF IInv
<1> QED BY <1>1, <1>2, <1>3, Invariance, PTL DEF Spec
=============================================================================
