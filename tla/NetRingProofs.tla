---------------------------- MODULE NetRingProofs ----------------------------
(***************************************************************************)
(* Proofs about NetRing, for every number of rings, slots, buffers and     *)
(* packet contents.  OneOwner is the heart: a swap permutes the buffers    *)
(* among the slots, so the map from slots to buffers stays injective, and  *)
(* freeing slot by slot frees each buffer once.  With it, the contents of  *)
(* a ring from tail to head behave as a queue: NetRing implements NetFifo. *)
(***************************************************************************)
EXTENDS NetRing, FiniteSetTheorems, SequenceTheorems, TLAPS

(* The index after the last is the first: NextIndex stays in the ring. *)
LEMMA NextIndexType == ASSUME NEW i \in Index PROVE NextIndex(i) \in Index
BY QueueLenAssumption DEF Index, NextIndex

(* The slots at the ends of a ring are slots. *)
LEMMA EndSlots == ASSUME TypeOK, NEW q \in Queues
                  PROVE  HeadSlot(q) \in Slots /\ TailSlot(q) \in Slots
BY DEF TypeOK, HeadSlot, TailSlot, Slots

(* network_swap_packet between any two slots keeps types and ownership. *)
LEMMA SwapPacket ==
  ASSUME TypeOK, OneOwner, NEW s \in Slots, NEW t \in Slots, network_swap_packet(s, t)
  PROVE  /\ data' \in [Slots -> Bufs]
         /\ len' \in [Slots -> Lens]
         /\ mem' \in [Bufs -> Data]
         /\ OneOwner'
<1>1. data' = Swap(data, s, t) /\ data \in [Slots -> Bufs]
  BY DEF TypeOK, network_swap_packet
<1>2. data' \in [Slots -> Bufs]
  BY <1>1 DEF Swap
<1>3. OneOwner'
  BY <1>1 DEF OneOwner, Swap
<1>4. len' \in [Slots -> Lens]
  BY DEF TypeOK, network_swap_packet, Swap
<1>5. mem' \in [Bufs -> Data]
  BY DEF TypeOK, network_swap_packet
<1> QED BY <1>2, <1>3, <1>4, <1>5

(* Under OneOwner the slots pointing to a buffer are at most one. *)
LEMMA OwnersOfBuffer ==
  ASSUME TypeOK, OneOwner, NEW b \in Bufs
  PROVE  Cardinality({s \in Slots : data[s] = b}) = (IF \E s \in Slots : data[s] = b THEN 1 ELSE 0)
<1>1. CASE \E s \in Slots : data[s] = b
  <2>1. PICK s \in Slots : data[s] = b BY <1>1
  <2>2. {t \in Slots : data[t] = b} = {s} BY <2>1 DEF OneOwner
  <2> QED BY <1>1, <2>2, FS_Singleton
<1>2. CASE ~ \E s \in Slots : data[s] = b
  <2>1. {t \in Slots : data[t] = b} = {} BY <1>2
  <2> QED BY <1>2, <2>1, FS_EmptySet
<1> QED BY <1>1, <1>2

IInv == TypeOK /\ OneOwner /\ FreedOnce

LEMMA InitInv == Init => IInv
<1> SUFFICES ASSUME Init PROVE IInv OBVIOUS
<1>1. TypeOK
  BY QueueLenAssumption, FrameAssumption DEF Init, Allocated, TypeOK, Index, Lens
<1>2. OneOwner BY DEF Init, Allocated, OneOwner
<1>3. FreedOnce BY DEF Init, FreedOnce, attached
<1> QED BY <1>1, <1>2, <1>3 DEF IInv

(* Every step that leaves frees alone leaves the card attached.             *)
LEMMA StaysAttached == ASSUME attached, UNCHANGED frees PROVE FreedOnce'
BY DEF attached, FreedOnce

LEMMA NextInv == IInv /\ [Next]_vars => IInv'
<1> SUFFICES ASSUME IInv, [Next]_vars PROVE IInv' OBVIOUS
<1> USE DEF IInv
<1>1. ASSUME NEW q \in Queues, NEW d \in Data, NEW n \in Lens, network_queue_put(q, d, n)
      PROVE  IInv'
  <2>1. TypeOK'
    BY <1>1, EndSlots, NextIndexType DEF network_queue_put, TypeOK
  <2>2. OneOwner' BY <1>1 DEF network_queue_put, OneOwner
  <2> QED BY <1>1, <2>1, <2>2, StaysAttached DEF network_queue_put
<1>2. ASSUME NEW q \in Queues, NEW h \in Holders, network_queue_put_swap(q, h)
      PROVE  IInv'
  <2>1. h \in Slots /\ HeadSlot(q) \in Slots BY EndSlots DEF Slots
  <2>2. /\ data' \in [Slots -> Bufs] /\ len' \in [Slots -> Lens]
        /\ mem' \in [Bufs -> Data] /\ OneOwner'
    BY <1>2, <2>1, SwapPacket DEF network_queue_put_swap
  <2>3. TypeOK' BY <1>2, <2>2, NextIndexType DEF network_queue_put_swap, TypeOK
  <2> QED BY <1>2, <2>2, <2>3, StaysAttached DEF network_queue_put_swap
<1>3. ASSUME NEW q \in Queues, NEW h \in Holders, network_queue_get_swap(q, h)
      PROVE  IInv'
  <2>1. h \in Slots /\ TailSlot(q) \in Slots BY EndSlots DEF Slots
  <2>2. /\ data' \in [Slots -> Bufs] /\ len' \in [Slots -> Lens]
        /\ mem' \in [Bufs -> Data] /\ OneOwner'
    BY <1>3, <2>1, SwapPacket DEF network_queue_get_swap
  <2>3. TypeOK' BY <1>3, <2>2, NextIndexType DEF network_queue_get_swap, TypeOK
  <2> QED BY <1>3, <2>2, <2>3, StaysAttached DEF network_queue_get_swap
<1>4. ASSUME NEW dst \in Queues, NEW src \in Queues, network_queue_move(dst, src)
      PROVE  IInv'
  <2>1. HeadSlot(dst) \in Slots /\ TailSlot(src) \in Slots BY EndSlots
  <2>2. /\ data' \in [Slots -> Bufs] /\ len' \in [Slots -> Lens]
        /\ mem' \in [Bufs -> Data] /\ OneOwner'
    BY <1>4, <2>1, SwapPacket DEF network_queue_move
  <2>3. TypeOK' BY <1>4, <2>2, NextIndexType DEF network_queue_move, TypeOK
  <2> QED BY <1>4, <2>2, <2>3, StaysAttached DEF network_queue_move
<1>5. ASSUME NEW h \in Holders, NEW d \in Data, NEW n \in 1 .. NET_MAX_FRAME,
             net_slirp_send_packet(h, d, n)
      PROVE  IInv'
  <2>1. h \in Slots /\ n \in Lens BY FrameAssumption DEF Slots, Lens
  <2>2. TypeOK' BY <1>5, <2>1 DEF net_slirp_send_packet, TypeOK
  <2>3. OneOwner' BY <1>5 DEF net_slirp_send_packet, OneOwner
  <2> QED BY <1>5, <2>2, <2>3, StaysAttached DEF net_slirp_send_packet
<1>6. ASSUME NEW h \in Holders, Accepted(h) PROVE IInv'
  <2>1. h \in Slots /\ 0 \in Lens BY FrameAssumption DEF Slots, Lens
  <2>2. TypeOK' BY <1>6, <2>1 DEF Accepted, TypeOK
  <2>3. OneOwner' BY <1>6 DEF Accepted, OneOwner
  <2> QED BY <1>6, <2>2, <2>3, StaysAttached DEF Accepted
<1>7. CASE netcard_close
  <2>1. \A b \in Bufs : frees'[b] = (IF \E s \in Slots : data[s] = b THEN 1 ELSE 0)
    BY <1>7, OwnersOfBuffer DEF netcard_close
  <2>2. frees' \in [Bufs -> Nat] BY <1>7, <2>1 DEF netcard_close
  <2>3. 0 \in Lens /\ 0 \in Index BY QueueLenAssumption, FrameAssumption DEF Lens, Index
  <2>4. TypeOK' BY <1>7, <2>2, <2>3 DEF netcard_close, TypeOK
  <2>5. OneOwner' BY <1>7 DEF netcard_close, OneOwner
  <2>6. FreedOnce' BY <1>7, <2>1 DEF netcard_close, FreedOnce
  <2> QED BY <2>4, <2>5, <2>6
<1>8. CASE network_attach
  <2>1. data' \in [Slots -> Bufs] /\ OneOwner'
    BY <1>8 DEF network_attach, Allocated, OneOwner
  <2>2. TypeOK' BY <1>8, <2>1, FrameAssumption DEF network_attach, TypeOK, Lens
  <2>3. FreedOnce' BY <1>8 DEF network_attach, FreedOnce, attached
  <2> QED BY <2>1, <2>2, <2>3
<1>9. CASE UNCHANGED vars
  BY <1>9 DEF vars, TypeOK, OneOwner, FreedOnce, attached
<1> QED BY <1>1, <1>2, <1>3, <1>4, <1>5, <1>6, <1>7, <1>8, <1>9 DEF Next

(* Pointers, lengths and indices of the rings keep their types.             *)
THEOREM TypeCorrect == Spec => []TypeOK
BY InitInv, NextInv, PTL DEF Spec, IInv

(* Whatever is put, taken, moved and swapped, no two slots share a buffer.  *)
THEOREM OwnershipCorrect == Spec => []OneOwner
BY InitInv, NextInv, PTL DEF Spec, IInv

(* Closing the card frees every buffer in use exactly once: no leak and no  *)
(* double free, although the buffers have changed places.                   *)
THEOREM FreeCorrect == Spec => []FreedOnce
BY InitInv, NextInv, PTL DEF Spec, IInv

-----------------------------------------------------------------------------
(* A ring implements a queue.  The packets between tail h and head t of a   *)
(* ring whose slots contain C:                                              *)
Ring(S) == [Index -> S]
Wait(h, t) == (h + NET_QUEUE_LEN - t) % NET_QUEUE_LEN
Place(t, i) == (t + i - 1) % NET_QUEUE_LEN
Between(h, t, C) == [i \in 1 .. Wait(h, t) |-> C[Place(t, i)]]

(* Remainders without division.                                             *)
LEMMA Wrap ==
  ASSUME NEW n \in Nat \ {0}, NEW x \in 0 .. 2 * n - 1
  PROVE  x % n = IF x < n THEN x ELSE x - n
OBVIOUS

LEMMA IndexFacts ==
  ASSUME NEW h \in Index, NEW t \in Index
  PROVE  /\ NET_QUEUE_LEN \in Nat \ {0} /\ h \in Nat /\ t \in Nat
         /\ h < NET_QUEUE_LEN /\ t < NET_QUEUE_LEN
         /\ NextIndex(h) = IF h + 1 < NET_QUEUE_LEN THEN h + 1 ELSE 0
         /\ Wait(h, t) = IF h < t THEN h + NET_QUEUE_LEN - t ELSE h - t
         /\ \A i \in 1 .. NET_QUEUE_LEN :
              Place(t, i) = IF t + i - 1 < NET_QUEUE_LEN THEN t + i - 1 ELSE t + i - 1 - NET_QUEUE_LEN
<1>1. /\ NET_QUEUE_LEN \in Nat \ {0} /\ h \in Nat /\ t \in Nat
      /\ h < NET_QUEUE_LEN /\ t < NET_QUEUE_LEN
  BY QueueLenAssumption DEF Index
<1>2. NextIndex(h) = IF h + 1 < NET_QUEUE_LEN THEN h + 1 ELSE 0
  <2> DEFINE x == h + 1
  <2>1. x \in 0 .. 2 * NET_QUEUE_LEN - 1 BY <1>1
  <2> HIDE DEF x
  <2>2. x % NET_QUEUE_LEN = IF x < NET_QUEUE_LEN THEN x ELSE x - NET_QUEUE_LEN BY <1>1, <2>1, Wrap
  <2> QED BY <1>1, <2>2 DEF NextIndex, x
<1>3. Wait(h, t) = IF h < t THEN h + NET_QUEUE_LEN - t ELSE h - t
  <2> DEFINE x == h + NET_QUEUE_LEN - t
  <2>1. x \in 0 .. 2 * NET_QUEUE_LEN - 1 BY <1>1
  <2> HIDE DEF x
  <2>2. x % NET_QUEUE_LEN = IF x < NET_QUEUE_LEN THEN x ELSE x - NET_QUEUE_LEN BY <1>1, <2>1, Wrap
  <2> QED BY <1>1, <2>2 DEF Wait, x
<1>4. ASSUME NEW i \in 1 .. NET_QUEUE_LEN
      PROVE  Place(t, i) = IF t + i - 1 < NET_QUEUE_LEN THEN t + i - 1 ELSE t + i - 1 - NET_QUEUE_LEN
  <2> DEFINE x == t + i - 1
  <2>1. x \in 0 .. 2 * NET_QUEUE_LEN - 1 BY <1>1
  <2> HIDE DEF x
  <2>2. x % NET_QUEUE_LEN = IF x < NET_QUEUE_LEN THEN x ELSE x - NET_QUEUE_LEN BY <1>1, <2>1, Wrap
  <2>3. Place(t, i) = x % NET_QUEUE_LEN BY Zenon DEF Place, x
  <2>4. Place(t, i) = IF x < NET_QUEUE_LEN THEN x ELSE x - NET_QUEUE_LEN BY <2>2, <2>3
  <2>5. x = t + i - 1 BY DEF x
  <2> HIDE DEF Place
  <2> QED BY <1>1, <2>4, <2>5
<1> QED BY <1>1, <1>2, <1>3, <1>4

(* The packets between head and tail are a sequence of the ring's contents. *)
LEMMA BetweenIs ==
  ASSUME NEW S, NEW h \in Index, NEW t \in Index, NEW C \in Ring(S)
  PROVE  /\ Wait(h, t) \in 0 .. NET_QUEUE_LEN - 1 /\ Wait(h, t) \in Nat
         /\ Between(h, t, C) \in Seq(S) /\ Len(Between(h, t, C)) = Wait(h, t)
         /\ \A i \in 1 .. Wait(h, t) : /\ Place(t, i) \in Index
                                       /\ Between(h, t, C)[i] = C[Place(t, i)]
<1>1. Wait(h, t) \in 0 .. NET_QUEUE_LEN - 1 /\ Wait(h, t) \in Nat BY IndexFacts
<1>2. ASSUME NEW i \in 1 .. Wait(h, t) PROVE Place(t, i) \in Index
  <2>1. i \in 1 .. NET_QUEUE_LEN /\ NET_QUEUE_LEN \in Nat \ {0} /\ t \in Nat /\ t < NET_QUEUE_LEN
    BY <1>1, IndexFacts
  <2>2. Place(t, i) = IF t + i - 1 < NET_QUEUE_LEN THEN t + i - 1 ELSE t + i - 1 - NET_QUEUE_LEN
    BY <2>1, IndexFacts
  <2> QED BY <2>1, <2>2 DEF Index
<1> HIDE DEF Wait, Place
<1>3. Between(h, t, C) \in [1 .. Wait(h, t) -> S] BY <1>2 DEF Between, Ring
<1>4. Between(h, t, C) \in Seq(S) /\ Len(Between(h, t, C)) = Wait(h, t)
  <2>1. DOMAIN Between(h, t, C) = 1 .. Wait(h, t) BY DEF Between
  <2>2. Between(h, t, C) \in Seq(S) BY <1>1, <1>3, SeqDef
  <2> QED BY <1>1, <2>1, <2>2, LenProperties
<1> QED BY <1>1, <1>2, <1>4 DEF Between

LEMMA BetweenSeq == ASSUME NEW S, NEW h \in Index, NEW t \in Index, NEW C \in Ring(S)
                    PROVE  Between(h, t, C) \in Seq(S)
BY BetweenIs

LEMMA BetweenLen == ASSUME NEW S, NEW h \in Index, NEW t \in Index, NEW C \in Ring(S)
                    PROVE  Len(Between(h, t, C)) = Wait(h, t)
BY BetweenIs

LEMMA BetweenAt == ASSUME NEW h, NEW t, NEW C, NEW i \in 1 .. Wait(h, t)
                   PROVE  Between(h, t, C)[i] = C[Place(t, i)]
BY DEF Between

(* A packet put at the head of a ring that is not full. *)
LEMMA RingPut ==
  ASSUME NEW S, NEW h \in Index, NEW t \in Index, NEW C \in Ring(S),
         NEW D \in Ring(S), \A i \in Index \ {h} : D[i] = C[i], NextIndex(h) # t
  PROVE  /\ Len(Between(h, t, C)) < NET_QUEUE_LEN - 1
         /\ Between(NextIndex(h), t, D) = Append(Between(h, t, C), D[h])
<1> DEFINE p == D[h]
           k == NextIndex(h)
           w == Wait(h, t)
           A == Between(h, t, C)
           B == Between(k, t, D)
<1>1. k \in Index /\ D \in Ring(S) /\ D[h] = p /\ p \in S /\ \A i \in Index \ {h} : D[i] = C[i]
  BY NextIndexType DEF Ring
<1>20. /\ NET_QUEUE_LEN \in Nat \ {0} /\ h \in Nat /\ t \in Nat
       /\ h < NET_QUEUE_LEN /\ t < NET_QUEUE_LEN
       /\ k = IF h + 1 < NET_QUEUE_LEN THEN h + 1 ELSE 0
       /\ w = IF h < t THEN h + NET_QUEUE_LEN - t ELSE h - t
       /\ \A i \in 1 .. NET_QUEUE_LEN :
            Place(t, i) = IF t + i - 1 < NET_QUEUE_LEN THEN t + i - 1 ELSE t + i - 1 - NET_QUEUE_LEN
  BY IndexFacts
<1>21. Wait(k, t) = IF k < t THEN k + NET_QUEUE_LEN - t ELSE k - t BY <1>1, IndexFacts
<1>22. k # t OBVIOUS
<1> HIDE DEF k, w
<1>2. w \in Nat /\ w < NET_QUEUE_LEN - 1 /\ Wait(k, t) = w + 1 /\ NET_QUEUE_LEN \in Nat
  BY <1>20, <1>21, <1>22
<1>3. Place(t, w + 1) = h
  <2>1. w + 1 \in 1 .. NET_QUEUE_LEN BY <1>2
  <2> QED BY <1>20, <2>1
<1>4. ASSUME NEW i \in 1 .. w PROVE Place(t, i) # h
  <2>1. i \in 1 .. NET_QUEUE_LEN BY <1>2
  <2> QED BY <1>20, <2>1
<1> HIDE DEF k, w
<1>5. /\ A \in Seq(S) /\ Len(A) = w
      /\ \A i \in 1 .. w : Place(t, i) \in Index /\ A[i] = C[Place(t, i)]
  BY BetweenIs DEF w
<1>6. /\ B \in Seq(S) /\ Len(B) = w + 1 /\ \A i \in 1 .. w + 1 : B[i] = D[Place(t, i)]
  <2>1. /\ B \in Seq(S) /\ Len(B) = Wait(k, t)
        /\ \A i \in 1 .. Wait(k, t) : B[i] = D[Place(t, i)]
    BY <1>1, BetweenIs
  <2> HIDE DEF B
  <2> QED BY <1>2, <2>1
<1> HIDE DEF A, B, p
<1>7. \A i \in 1 .. w : B[i] = A[i] /\ i \in 1 .. w + 1 BY <1>1, <1>2, <1>4, <1>5, <1>6
<1>8. B[w + 1] = p BY <1>1, <1>2, <1>3, <1>6
<1>9. B = Append(A, p)
  <2> DEFINE E == Append(A, p)
  <2>1. E \in Seq(S) /\ Len(E) = w + 1 /\ E[w + 1] = p /\ \A i \in 1 .. w : E[i] = A[i]
    BY <1>1, <1>5, AppendProperties
  <2> HIDE DEF E
  <2>2. \A i \in 1 .. w + 1 : i \in 1 .. w \/ i = w + 1 BY <1>2
  <2>3. \A i \in 1 .. w + 1 : B[i] = E[i] BY <1>7, <1>8, <2>1, <2>2
  <2>4. B = E BY <1>6, <2>1, <2>3, SeqEqual
  <2> QED BY <2>4 DEF E
<1> QED BY <1>2, <1>5, <1>9 DEF A, B, k, p

(* A packet taken from the tail of a ring that is not empty; something else *)
(* is left in its slot.                                                     *)
LEMMA RingGet ==
  ASSUME NEW S, NEW h \in Index, NEW t \in Index, NEW C \in Ring(S),
         NEW D \in Ring(S), \A i \in Index \ {t} : D[i] = C[i], h # t
  PROVE  /\ Between(h, t, C) # << >> /\ Head(Between(h, t, C)) = C[t]
         /\ Between(h, NextIndex(t), D) = Tail(Between(h, t, C))
<1> DEFINE k == NextIndex(t)
           w == Wait(h, t)
           A == Between(h, t, C)
           B == Between(h, k, D)
<1>1. k \in Index /\ D \in Ring(S) /\ \A i \in Index \ {t} : D[i] = C[i]
  BY NextIndexType DEF Ring
<1>20. /\ NET_QUEUE_LEN \in Nat \ {0} /\ h \in Nat /\ t \in Nat
       /\ h < NET_QUEUE_LEN /\ t < NET_QUEUE_LEN
       /\ k = IF t + 1 < NET_QUEUE_LEN THEN t + 1 ELSE 0
       /\ w = IF h < t THEN h + NET_QUEUE_LEN - t ELSE h - t
       /\ \A i \in 1 .. NET_QUEUE_LEN :
            Place(t, i) = IF t + i - 1 < NET_QUEUE_LEN THEN t + i - 1 ELSE t + i - 1 - NET_QUEUE_LEN
  BY IndexFacts
<1>21. /\ Wait(h, k) = IF h < k THEN h + NET_QUEUE_LEN - k ELSE h - k
       /\ \A i \in 1 .. NET_QUEUE_LEN :
            Place(k, i) = IF k + i - 1 < NET_QUEUE_LEN THEN k + i - 1 ELSE k + i - 1 - NET_QUEUE_LEN
  BY <1>1, IndexFacts
<1> HIDE DEF k, w
<1>2. w \in Nat \ {0} /\ w < NET_QUEUE_LEN /\ Wait(h, k) = w - 1 /\ NET_QUEUE_LEN \in Nat
  BY <1>20, <1>21
<1>3. Place(t, 1) = t
  <2>1. 1 \in 1 .. NET_QUEUE_LEN BY <1>20
  <2> QED BY <1>20, <2>1
<1>4. ASSUME NEW i \in 1 .. w - 1 PROVE Place(k, i) = Place(t, i + 1) /\ Place(t, i + 1) # t
  <2>1. i \in 1 .. NET_QUEUE_LEN /\ i + 1 \in 1 .. NET_QUEUE_LEN /\ i + 1 < NET_QUEUE_LEN + 1
    BY <1>2
  <2>2. /\ Place(k, i) = IF k + i - 1 < NET_QUEUE_LEN THEN k + i - 1 ELSE k + i - 1 - NET_QUEUE_LEN
        /\ Place(t, i + 1) = IF t + (i + 1) - 1 < NET_QUEUE_LEN THEN t + (i + 1) - 1
                             ELSE t + (i + 1) - 1 - NET_QUEUE_LEN
    BY <1>20, <1>21, <2>1
  <2> QED BY <1>2, <1>20, <2>1, <2>2
<1> HIDE DEF k, w
<1>5. /\ A \in Seq(S) /\ Len(A) = w
      /\ \A i \in 1 .. w : Place(t, i) \in Index /\ A[i] = C[Place(t, i)]
  BY BetweenIs, ZenonT(60) DEF w
<1>6. /\ B \in Seq(S) /\ Len(B) = w - 1
      /\ \A i \in 1 .. w - 1 : B[i] = D[Place(k, i)]
  <2>1. /\ B \in Seq(S) /\ Len(B) = Wait(h, k)
        /\ \A i \in 1 .. Wait(h, k) : B[i] = D[Place(k, i)]
    <3>1. B \in Seq(S) BY <1>1, BetweenSeq
    <3>2. Len(B) = Wait(h, k) BY <1>1, BetweenLen
    <3>3. \A i \in 1 .. Wait(h, k) : B[i] = D[Place(k, i)] BY Zenon DEF Between
    <3> QED BY <3>1, <3>2, <3>3
  <2> HIDE DEF B
  <2> QED BY <1>2, <2>1
<1> HIDE DEF A, B
<1>7. A # << >> BY <1>2, <1>5, EmptySeq
<1>8. Head(A) = C[t] BY <1>2, <1>3, <1>5, <1>7
<1>9. B = Tail(A)
  <2>1. Tail(A) \in Seq(S) /\ Len(Tail(A)) = w - 1 /\ \A i \in 1 .. w - 1 : Tail(A)[i] = A[i + 1]
    BY <1>5, <1>7, HeadTailProperties
  <2>2. \A i \in 1 .. w - 1 : i + 1 \in 1 .. w BY <1>2
  <2>3. \A i \in 1 .. w - 1 : B[i] = Tail(A)[i]
    BY <1>1, <1>4, <1>5, <1>6, <2>1, <2>2
  <2> QED BY <1>6, <2>1, <2>3, SeqEqual
<1> QED BY <1>7, <1>8, <1>9 DEF A, B, k

-----------------------------------------------------------------------------
(* The contents of the slots of a ring, and its packets in terms of them.   *)
Packet == [bytes : Data, len : Lens]
View(q) == [i \in Index |-> Content(<<q, i>>)]

LEMMA ContentType == ASSUME TypeOK PROVE \A s \in Slots : Content(s) \in Packet
BY DEF TypeOK, Content, Packet

LEMMA RingSlot == ASSUME NEW q \in Queues, NEW i \in Index PROVE <<q, i>> \in Slots
BY DEF Slots

LEMMA RingNow ==
  ASSUME TypeOK, NEW q \in Queues
  PROVE  /\ head[q] \in Index /\ tail[q] \in Index /\ View(q) \in Ring(Packet)
         /\ Packets(q) = Between(head[q], tail[q], View(q))
<1>1. head[q] \in Index /\ tail[q] \in Index BY DEF TypeOK
<1>2. View(q) \in Ring(Packet) BY ContentType, RingSlot DEF View, Ring
<1>3. \A i \in 1 .. Wait(head[q], tail[q]) : Place(tail[q], i) \in Index BY <1>1, <1>2, BetweenIs
<1>4. Waiting(q) = Wait(head[q], tail[q]) BY Zenon DEF Waiting, Wait
<1>5. \A i : (tail[q] + i - 1) % NET_QUEUE_LEN = Place(tail[q], i) BY Zenon DEF Place
<1>6. Packets(q) = Between(head[q], tail[q], View(q))
  BY <1>3, <1>4, <1>5, Zenon DEF Packets, Between, View
<1> QED BY <1>1, <1>2, <1>6

LEMMA RingNext ==
  ASSUME TypeOK', NEW q \in Queues
  PROVE  /\ head'[q] \in Index /\ tail'[q] \in Index /\ View(q)' \in Ring(Packet)
         /\ Packets(q)' = Between(head'[q], tail'[q], View(q)')
<1>1. head'[q] \in Index /\ tail'[q] \in Index BY DEF TypeOK
<1>0. \A s \in Slots : Content(s)' \in Packet BY DEF TypeOK, Content, Packet
<1>2. View(q)' \in Ring(Packet) BY <1>0, RingSlot DEF View, Ring
<1>3. \A i \in 1 .. Wait(head'[q], tail'[q]) : Place(tail'[q], i) \in Index BY <1>1, <1>2, BetweenIs
<1>4. Waiting(q)' = Wait(head'[q], tail'[q]) BY Zenon DEF Waiting, Wait
<1>5. \A i : (tail'[q] + i - 1) % NET_QUEUE_LEN = Place(tail'[q], i) BY Zenon DEF Place
<1>6. Packets(q)' = Between(head'[q], tail'[q], View(q)')
  BY <1>3, <1>4, <1>5, Zenon DEF Packets, Between, View
<1> QED BY <1>1, <1>2, <1>6

(* A ring nobody touches. *)
LEMMA Other ==
  ASSUME TypeOK, TypeOK', NEW q \in Queues, head'[q] = head[q], tail'[q] = tail[q],
         \A i \in Index : Content(<<q, i>>)' = Content(<<q, i>>)
  PROVE  Packets(q)' = Packets(q)
<1>1. View(q)' = View(q) BY Zenon DEF View
<1> QED BY <1>1, RingNow, RingNext

(* A ring a packet enters at its head. *)
LEMMA Enters ==
  ASSUME TypeOK, TypeOK', NEW q \in Queues, NEW p, ~network_queue_full(q),
         head'[q] = NextIndex(head[q]), tail'[q] = tail[q],
         \A i \in Index : Content(<<q, i>>)' = IF i = head[q] THEN p ELSE Content(<<q, i>>)
  PROVE  Len(Packets(q)) < NET_QUEUE_LEN - 1 /\ Packets(q)' = Append(Packets(q), p)
<1> DEFINE V == View(q)
           W == View(q)'
           h == head[q]
           t == tail[q]
<1>1. h \in Index /\ t \in Index /\ V \in Ring(Packet) /\ Packets(q) = Between(h, t, V)
  BY RingNow
<1>2. W \in Ring(Packet) /\ Packets(q)' = Between(NextIndex(h), t, W)
  BY RingNext
<1>3. W[h] = p /\ \A i \in Index \ {h} : W[i] = V[i]
  <2>1. \A i \in Index : W[i] = Content(<<q, i>>)' /\ V[i] = Content(<<q, i>>) BY Zenon DEF View
  <2> QED BY <1>1, <2>1
<1>4. NextIndex(h) # t BY DEF network_queue_full
<1> HIDE DEF V, W, h, t
<1>5. /\ Len(Between(h, t, V)) < NET_QUEUE_LEN - 1
      /\ Between(NextIndex(h), t, W) = Append(Between(h, t, V), W[h])
  BY <1>1, <1>2, <1>3, <1>4, RingPut
<1> QED BY <1>1, <1>2, <1>3, <1>5

(* A ring a packet leaves at its tail. *)
LEMMA Leaves ==
  ASSUME TypeOK, TypeOK', NEW q \in Queues, ~network_queue_empty(q),
         tail'[q] = NextIndex(tail[q]), head'[q] = head[q],
         \A i \in Index \ {tail[q]} : Content(<<q, i>>)' = Content(<<q, i>>)
  PROVE  /\ Packets(q) # << >> /\ Head(Packets(q)) = Content(TailSlot(q))
         /\ Packets(q)' = Tail(Packets(q))
<1> DEFINE V == View(q)
           W == View(q)'
           h == head[q]
           t == tail[q]
<1>1. h \in Index /\ t \in Index /\ V \in Ring(Packet) /\ Packets(q) = Between(h, t, V)
  BY RingNow
<1>2. W \in Ring(Packet) /\ Packets(q)' = Between(h, NextIndex(t), W)
  BY RingNext
<1>3. V[t] = Content(TailSlot(q)) /\ \A i \in Index \ {t} : W[i] = V[i]
  <2>1. \A i \in Index : W[i] = Content(<<q, i>>)' /\ V[i] = Content(<<q, i>>) BY Zenon DEF View
  <2> QED BY <1>1, <2>1 DEF TailSlot
<1>4. h # t BY DEF network_queue_empty
<1> HIDE DEF V, W, h, t
<1>5. /\ Between(h, t, V) # << >> /\ Head(Between(h, t, V)) = V[t]
      /\ Between(h, NextIndex(t), W) = Tail(Between(h, t, V))
  BY <1>1, <1>2, <1>3, <1>4, RingGet
<1> QED BY <1>1, <1>2, <1>3, <1>5

(* network_swap_packet exchanges what two slots contain. *)
LEMMA SwapContent ==
  ASSUME TypeOK, NEW s \in Slots, NEW t \in Slots, network_swap_packet(s, t)
  PROVE  /\ Content(s)' = Content(t) /\ Content(t)' = Content(s)
         /\ \A u \in Slots \ {s, t} : Content(u)' = Content(u)
<1>1. /\ data'[s] = data[t] /\ data'[t] = data[s] /\ \A u \in Slots \ {s, t} : data'[u] = data[u]
  BY DEF network_swap_packet, Swap, TypeOK
<1>2. /\ len'[s] = len[t] /\ len'[t] = len[s] /\ \A u \in Slots \ {s, t} : len'[u] = len[u]
  BY DEF network_swap_packet, Swap, TypeOK
<1> QED BY <1>1, <1>2 DEF network_swap_packet, Content

(* Copying into the buffer of one slot changes what that slot contains and, *)
(* because no other slot shares the buffer, nothing else.                   *)
LEMMA CopyContent ==
  ASSUME TypeOK, OneOwner, NEW s \in Slots, NEW d \in Data, NEW n \in Lens,
         mem' = [mem EXCEPT ![data[s]] = d], len' = [len EXCEPT ![s] = n], data' = data
  PROVE  /\ Content(s)' = [bytes |-> d, len |-> n]
         /\ \A u \in Slots \ {s} : Content(u)' = Content(u)
<1>1. data[s] \in Bufs /\ \A u \in Slots \ {s} : data[u] \in Bufs \ {data[s]} BY DEF TypeOK, OneOwner
<1>2. mem'[data[s]] = d /\ \A u \in Slots \ {s} : mem'[data[u]] = mem[data[u]] BY <1>1 DEF TypeOK
<1>3. len'[s] = n /\ \A u \in Slots \ {s} : len'[u] = len[u] BY DEF TypeOK
<1> QED BY <1>2, <1>3 DEF Content

-----------------------------------------------------------------------------
(* A card that is closed leaves its rings empty, so that attaching it again *)
(* starts with empty queues although it does not touch the indices.         *)
Drained == ~attached => \A q \in Queues : network_queue_empty(q)
RInv == IInv /\ Drained

LEMMA InitDrained == Init => Drained
BY DEF Init, Drained, network_queue_empty

LEMMA NextDrained == IInv /\ Drained /\ [Next]_vars => Drained'
<1> SUFFICES ASSUME IInv, Drained, [Next]_vars PROVE Drained' OBVIOUS
<1>1. CASE attached /\ UNCHANGED frees BY <1>1 DEF attached, Drained
<1>2. CASE netcard_close BY <1>2 DEF netcard_close, Drained, network_queue_empty
<1>3. CASE network_attach BY <1>3 DEF network_attach, Drained, attached
<1>4. CASE UNCHANGED vars BY <1>4 DEF vars, Drained, attached, network_queue_empty
<1> QED BY <1>1, <1>2, <1>3, <1>4
        DEF Next, network_queue_put, network_queue_put_swap, network_queue_get_swap,
            network_queue_move, net_slirp_send_packet, Accepted

(* What the queues and the structures outside them hold. *)
Fifos == [q \in Queues |-> Packets(q)]
Held == [h \in Holders |-> Content(h)]

(* The slots outside the rings are not slots of a ring. *)
LEMMA Outside == ASSUME NEW h \in Holders, NEW q \in Queues, NEW i \in Index
                 PROVE  h \in Slots /\ <<q, i>> \in Slots /\ h # <<q, i>>
BY BufsAssumption DEF Slots

LEMMA OpenStays == ASSUME UNCHANGED frees PROVE attached' <=> attached
BY DEF attached

(* network_queue_put is Put. *)
LEMMA SimPut ==
  ASSUME IInv, IInv', NEW q \in Queues, NEW d \in Data, NEW n \in Lens, network_queue_put(q, d, n)
  PROVE  Fifo!Next
<1> DEFINE p == [bytes |-> d, len |-> n]
<1>0. TypeOK /\ TypeOK' /\ OneOwner BY DEF IInv
<1>1. PICK s \in Slots : s = HeadSlot(q) BY <1>0, EndSlots
<1>2. Content(s)' = p /\ \A u \in Slots \ {s} : Content(u)' = Content(u)
  BY <1>0, <1>1, CopyContent DEF network_queue_put
<1>3. p \in [bytes : Data, len : 1 .. NET_MAX_FRAME]
  BY FrameAssumption DEF network_queue_put, Fits, Lens
<1> HIDE DEF p
<1>4. ASSUME NEW r \in Queues, NEW i \in Index
      PROVE  Content(<<r, i>>)' = IF r = q /\ i = head[q] THEN p ELSE Content(<<r, i>>)
  BY <1>1, <1>2, RingSlot DEF HeadSlot
<1>5. Len(Packets(q)) < NET_QUEUE_LEN - 1 /\ Packets(q)' = Append(Packets(q), p)
  <2>1. \A i \in Index : Content(<<q, i>>)' = IF i = head[q] THEN p ELSE Content(<<q, i>>) BY <1>4
  <2>2. head'[q] = NextIndex(head[q]) /\ tail'[q] = tail[q] /\ ~network_queue_full(q)
    BY <1>0 DEF network_queue_put, TypeOK
  <2> QED BY <1>0, <2>1, <2>2, Enters
<1>6. ASSUME NEW r \in Queues, r # q PROVE Packets(r)' = Packets(r)
  <2>1. \A i \in Index : Content(<<r, i>>)' = Content(<<r, i>>) BY <1>4, <1>6
  <2>2. head'[r] = head[r] /\ tail'[r] = tail[r] BY <1>0, <1>6 DEF network_queue_put, TypeOK
  <2> QED BY <1>0, <2>1, <2>2, Other
<1>7. Fifos' = [Fifos EXCEPT ![q] = Append(@, p)] BY <1>5, <1>6, Zenon DEF Fifos
<1>8. Held' = Held
  <2>1. \A h \in Holders : Content(h)' = Content(h)
    <3>1. head[q] \in Index BY <1>0 DEF TypeOK
    <3> QED BY <1>1, <1>2, <3>1, Outside DEF HeadSlot
  <2> QED BY <2>1, Zenon DEF Held
<1>9. attached /\ attached' BY OpenStays DEF network_queue_put
<1> QED
  <2>1. Fifos[q] = Packets(q) BY DEF Fifos
  <2>2. Fifo!Put(q, p)
    BY <1>3, <1>5, <1>7, <1>8, <1>9, <2>1, Zenon DEF Fifo!Put, Fifo!Room, Fifos, Held
  <2> QED BY <1>3, <1>9, <2>2, Zenon DEF Fifo!Next, Fifo!Operate

(* network_queue_put_swap is PutHeld. *)
LEMMA SimPutSwap ==
  ASSUME IInv, IInv', NEW q \in Queues, NEW h \in Holders, network_queue_put_swap(q, h)
  PROVE  Fifo!Next
<1>0. TypeOK /\ TypeOK' BY DEF IInv
<1>1. PICK s \in Slots : s = HeadSlot(q) BY <1>0, EndSlots
<1>2. h \in Slots /\ head[q] \in Index /\ h # s BY <1>0, <1>1, Outside DEF TypeOK, HeadSlot
<1>3. /\ Content(h)' = Content(s) /\ Content(s)' = Content(h)
      /\ \A u \in Slots \ {h, s} : Content(u)' = Content(u)
  BY <1>0, <1>1, <1>2, SwapContent DEF network_queue_put_swap
<1>4. Content(h) \in [bytes : Data, len : 1 .. NET_MAX_FRAME]
  BY <1>0, <1>2, FrameAssumption DEF network_queue_put_swap, Fits, Lens, TypeOK, Content
<1>5. Content(s) \in [bytes : Data, len : Lens] BY <1>0, ContentType DEF Packet
<1>6. ASSUME NEW r \in Queues, NEW i \in Index
      PROVE  Content(<<r, i>>)' = IF r = q /\ i = head[q] THEN Content(h) ELSE Content(<<r, i>>)
  BY <1>1, <1>3, Outside DEF HeadSlot
<1>7. Len(Packets(q)) < NET_QUEUE_LEN - 1 /\ Packets(q)' = Append(Packets(q), Content(h))
  <2>1. \A i \in Index : Content(<<q, i>>)' = IF i = head[q] THEN Content(h) ELSE Content(<<q, i>>)
    BY <1>6
  <2>2. head'[q] = NextIndex(head[q]) /\ tail'[q] = tail[q] /\ ~network_queue_full(q)
    BY <1>0 DEF network_queue_put_swap, TypeOK
  <2> QED BY <1>0, <2>1, <2>2, Enters
<1>8. ASSUME NEW r \in Queues, r # q PROVE Packets(r)' = Packets(r)
  <2>1. \A i \in Index : Content(<<r, i>>)' = Content(<<r, i>>) BY <1>6, <1>8
  <2>2. head'[r] = head[r] /\ tail'[r] = tail[r] BY <1>0, <1>8 DEF network_queue_put_swap, TypeOK
  <2> QED BY <1>0, <2>1, <2>2, Other
<1>9. Fifos' = [Fifos EXCEPT ![q] = Append(@, Content(h))] BY <1>7, <1>8, Zenon DEF Fifos
<1>10. Held' = [Held EXCEPT ![h] = Content(s)]
  <2>1. \A g \in Holders : Content(g)' = IF g = h THEN Content(s) ELSE Content(g)
    BY <1>1, <1>2, <1>3, Outside DEF HeadSlot
  <2> QED BY <2>1, Zenon DEF Held
<1>11. attached /\ attached' BY OpenStays DEF network_queue_put_swap
<1> QED
  <2>1. Fifos[q] = Packets(q) /\ Held[h] = Content(h) BY DEF Fifos, Held
  <2>2. Fifo!PutHeld(q, h)
    BY <1>4, <1>5, <1>7, <1>9, <1>10, <1>11, <2>1, Zenon DEF Fifo!PutHeld, Fifo!Room, Fifos, Held
  <2> QED BY <1>11, <2>2, Zenon DEF Fifo!Next, Fifo!Operate

(* network_queue_get_swap is Get. *)
LEMMA SimGetSwap ==
  ASSUME IInv, IInv', NEW q \in Queues, NEW h \in Holders, network_queue_get_swap(q, h)
  PROVE  Fifo!Next
<1>0. TypeOK /\ TypeOK' BY DEF IInv
<1>1. PICK s \in Slots : s = TailSlot(q) BY <1>0, EndSlots
<1>2. h \in Slots /\ tail[q] \in Index /\ h # s BY <1>0, <1>1, Outside DEF TypeOK, TailSlot
<1>3. /\ Content(h)' = Content(s) /\ Content(s)' = Content(h)
      /\ \A u \in Slots \ {h, s} : Content(u)' = Content(u)
  BY <1>0, <1>1, <1>2, SwapContent DEF network_queue_get_swap
<1>4. ASSUME NEW r \in Queues, NEW i \in Index, ~(r = q /\ i = tail[q])
      PROVE  Content(<<r, i>>)' = Content(<<r, i>>)
  BY <1>1, <1>3, <1>4, Outside DEF TailSlot
<1>5. /\ Packets(q) # << >> /\ Head(Packets(q)) = Content(s)
      /\ Packets(q)' = Tail(Packets(q))
  <2>1. \A i \in Index \ {tail[q]} : Content(<<q, i>>)' = Content(<<q, i>>) BY <1>4
  <2>2. tail'[q] = NextIndex(tail[q]) /\ head'[q] = head[q] /\ ~network_queue_empty(q)
    BY <1>0 DEF network_queue_get_swap, TypeOK
  <2> QED BY <1>0, <1>1, <2>1, <2>2, Leaves
<1>6. ASSUME NEW r \in Queues, r # q PROVE Packets(r)' = Packets(r)
  <2>1. \A i \in Index : Content(<<r, i>>)' = Content(<<r, i>>) BY <1>4, <1>6
  <2>2. head'[r] = head[r] /\ tail'[r] = tail[r] BY <1>0, <1>6 DEF network_queue_get_swap, TypeOK
  <2> QED BY <1>0, <2>1, <2>2, Other
<1>7. Fifos' = [Fifos EXCEPT ![q] = Tail(@)] BY <1>5, <1>6, Zenon DEF Fifos
<1>8. Held' = [Held EXCEPT ![h] = Head(Packets(q))]
  <2>1. \A g \in Holders : Content(g)' = IF g = h THEN Head(Packets(q)) ELSE Content(g)
    BY <1>1, <1>2, <1>3, <1>5, Outside DEF TailSlot
  <2> QED BY <2>1, Zenon DEF Held
<1>9. attached /\ attached' BY OpenStays DEF network_queue_get_swap
<1> QED
  <2>1. Fifos[q] = Packets(q) BY DEF Fifos
  <2>2. Fifo!Get(q, h)
    BY <1>5, <1>7, <1>8, <1>9, <2>1, Zenon DEF Fifo!Get, Fifos, Held
  <2> QED BY <1>9, <2>2, Zenon DEF Fifo!Next, Fifo!Operate

(* network_queue_move is Move: the packet leaves one ring and enters another. *)
LEMMA SimMove ==
  ASSUME IInv, IInv', NEW dst \in Queues, NEW src \in Queues, network_queue_move(dst, src)
  PROVE  Fifo!Next
<1>0. TypeOK /\ TypeOK' /\ dst # src BY DEF IInv, network_queue_move
<1>1. PICK s \in Slots : s = TailSlot(src) BY <1>0, EndSlots
<1>2. PICK t \in Slots : t = HeadSlot(dst) BY <1>0, EndSlots
<1>3. Content(s)' = Content(t) /\ Content(t)' = Content(s) /\ \A u \in Slots \ {s, t} : Content(u)' = Content(u)
  BY <1>0, <1>1, <1>2, SwapContent DEF network_queue_move
<1>4. ASSUME NEW r \in Queues, NEW i \in Index, ~(r = src /\ i = tail[src])
      PROVE  Content(<<r, i>>)' = IF r = dst /\ i = head[dst] THEN Content(s) ELSE Content(<<r, i>>)
  BY <1>1, <1>2, <1>3, <1>4, RingSlot DEF TailSlot, HeadSlot
<1>5. /\ Packets(src) # << >> /\ Head(Packets(src)) = Content(s)
      /\ Packets(src)' = Tail(Packets(src))
  <2>1. \A i \in Index \ {tail[src]} : Content(<<src, i>>)' = Content(<<src, i>>) BY <1>0, <1>4
  <2>2. tail'[src] = NextIndex(tail[src]) /\ head'[src] = head[src] /\ ~network_queue_empty(src)
    BY <1>0 DEF network_queue_move, TypeOK
  <2> QED BY <1>0, <1>1, <2>1, <2>2, Leaves
<1>6. Len(Packets(dst)) < NET_QUEUE_LEN - 1 /\ Packets(dst)' = Append(Packets(dst), Content(s))
  <2>1. \A i \in Index : Content(<<dst, i>>)' = IF i = head[dst] THEN Content(s) ELSE Content(<<dst, i>>)
    BY <1>0, <1>4
  <2>2. head'[dst] = NextIndex(head[dst]) /\ tail'[dst] = tail[dst] /\ ~network_queue_full(dst)
    BY <1>0 DEF network_queue_move, TypeOK
  <2> QED BY <1>0, <2>1, <2>2, Enters
<1>7. ASSUME NEW r \in Queues, r # dst, r # src PROVE Packets(r)' = Packets(r)
  <2>1. \A i \in Index : Content(<<r, i>>)' = Content(<<r, i>>) BY <1>4, <1>7
  <2>2. head'[r] = head[r] /\ tail'[r] = tail[r] BY <1>0, <1>7 DEF network_queue_move, TypeOK
  <2> QED BY <1>0, <2>1, <2>2, Other
<1>8. Fifos' = [Fifos EXCEPT ![src] = Tail(@), ![dst] = Append(@, Head(Packets(src)))]
  BY <1>0, <1>5, <1>6, <1>7, Zenon DEF Fifos
<1>9. Held' = Held
  <2>1. head[dst] \in Index /\ tail[src] \in Index BY <1>0 DEF TypeOK
  <2>2. \A g \in Holders : Content(g)' = Content(g)
    BY <1>1, <1>2, <1>3, <2>1, Outside DEF TailSlot, HeadSlot
  <2> QED BY <2>2, Zenon DEF Held
<1>10. attached /\ attached' BY OpenStays DEF network_queue_move
<1> QED
  <2>1. Fifos[src] = Packets(src) /\ Fifos[dst] = Packets(dst) BY DEF Fifos
  <2>2. Fifo!Move(dst, src)
    BY <1>0, <1>5, <1>6, <1>8, <1>9, <1>10, <2>1, Zenon DEF Fifo!Move, Fifo!Room, Fifos, Held
  <2> QED BY <1>10, <2>2, Zenon DEF Fifo!Next, Fifo!Operate

(* A step that only changes what one structure outside the rings contains   *)
(* is Write.                                                                *)
LEMMA SimWrite ==
  ASSUME IInv, IInv', NEW h \in Holders, attached, UNCHANGED <<head, tail, frees>>,
         \A u \in Slots \ {h} : Content(u)' = Content(u)
  PROVE  Fifo!Next
<1>0. TypeOK /\ TypeOK' /\ h \in Slots BY DEF IInv, Slots
<1>1. ASSUME NEW r \in Queues PROVE Packets(r)' = Packets(r)
  <2>1. \A i \in Index : Content(<<r, i>>)' = Content(<<r, i>>) BY Outside
  <2> QED BY <1>0, <2>1, Other
<1>2. Fifos' = Fifos BY <1>1, Zenon DEF Fifos
<1>3. PICK c \in [bytes : Data, len : Lens] : c = Content(h)'
  BY <1>0 DEF TypeOK, Content
<1>4. Held' = [Held EXCEPT ![h] = c]
  <2>1. \A g \in Holders : Content(g)' = IF g = h THEN c ELSE Content(g) BY <1>3 DEF Slots
  <2> QED BY <2>1, Zenon DEF Held
<1>5. attached' BY OpenStays
<1>6. Fifo!Write(h) BY <1>2, <1>4, <1>5, Zenon DEF Fifo!Write, Fifos, Held
<1> QED BY <1>6, Zenon DEF Fifo!Next, Fifo!Operate

LEMMA SimSend ==
  ASSUME IInv, IInv', NEW h \in Holders, NEW d \in Data, NEW n \in 1 .. NET_MAX_FRAME,
         net_slirp_send_packet(h, d, n)
  PROVE  Fifo!Next
<1>1. TypeOK /\ OneOwner /\ h \in Slots /\ n \in Lens BY FrameAssumption DEF IInv, Slots, Lens
<1>2. \A u \in Slots \ {h} : Content(u)' = Content(u)
  BY <1>1, CopyContent DEF net_slirp_send_packet
<1> QED BY <1>2, SimWrite DEF net_slirp_send_packet

LEMMA SimAccepted ==
  ASSUME IInv, IInv', NEW h \in Holders, Accepted(h)
  PROVE  Fifo!Next
<1>1. \A u \in Slots \ {h} : Content(u)' = Content(u)
  BY DEF IInv, TypeOK, Accepted, Content
<1> QED BY <1>1, SimWrite DEF Accepted

(* A ring whose indices are equal is an empty queue. *)
LEMMA EmptyNow == ASSUME TypeOK, NEW q \in Queues, network_queue_empty(q) PROVE Packets(q) = << >>
<1>1. head[q] \in Index /\ tail[q] = head[q] BY DEF TypeOK, network_queue_empty
<1>2. Packets(q) = Between(head[q], tail[q], View(q)) /\ View(q) \in Ring(Packet) BY RingNow
<1>3. Wait(head[q], tail[q]) = 0 BY <1>1, IndexFacts
<1>4. Packets(q) \in Seq(Packet) /\ Len(Packets(q)) = 0 BY <1>1, <1>2, <1>3, BetweenSeq, BetweenLen
<1> QED BY <1>4, EmptySeq

LEMMA EmptyNext == ASSUME TypeOK', NEW q \in Queues, network_queue_empty(q)' PROVE Packets(q)' = << >>
<1>1. head'[q] \in Index /\ tail'[q] = head'[q] BY DEF TypeOK, network_queue_empty
<1>2. Packets(q)' = Between(head'[q], tail'[q], View(q)') /\ View(q)' \in Ring(Packet) BY RingNext
<1>3. Wait(head'[q], tail'[q]) = 0 BY <1>1, IndexFacts
<1>4. Packets(q)' \in Seq(Packet) /\ Len(Packets(q)') = 0 BY <1>1, <1>2, <1>3, BetweenSeq, BetweenLen
<1> QED BY <1>4, EmptySeq

(* Closing and attaching the card are CloseOrAttach; closing a card that    *)
(* has no slot at all changes nothing.                                      *)
LEMMA SimClose ==
  ASSUME RInv, RInv', netcard_close \/ network_attach
  PROVE  Fifo!Next \/ UNCHANGED Fifo!vars
<1>0. TypeOK /\ TypeOK' /\ OneOwner BY DEF RInv, IInv
<1>1. \A q \in Queues : network_queue_empty(q)'
  <2>1. CASE netcard_close BY <2>1 DEF netcard_close, network_queue_empty
  <2>2. CASE network_attach BY <2>2 DEF network_attach, network_queue_empty, RInv, Drained
  <2> QED BY <2>1, <2>2
<1>2. Fifos' = [q \in Queues |-> << >>]
  <2>1. \A q \in Queues : Packets(q)' = << >> BY <1>0, <1>1, EmptyNext
  <2> QED BY <2>1, Zenon DEF Fifos
<1>3. Held' \in [Holders -> [bytes : Data, len : Lens]]
  <2>1. \A h \in Holders : Content(h)' \in [bytes : Data, len : Lens]
    BY <1>0 DEF TypeOK, Content, Slots
  <2> QED BY <2>1, Zenon DEF Held
<1>4. CASE attached' <=> ~attached
  <2>1. attached' = ~attached BY <1>4, Zenon DEF attached
  <2> QED BY <1>2, <1>3, <2>1, Zenon DEF Fifo!Next, Fifo!CloseOrAttach, Fifos, Held
<1>5. CASE Slots = {}
  <2>0. Queues = {} /\ Holders = {}
    <3>1. 0 \in Index BY QueueLenAssumption DEF Index
    <3>2. \A q \in Queues : <<q, 0>> \in Slots BY <3>1, RingSlot
    <3>3. \A h \in Holders : h \in Slots BY DEF Slots
    <3> QED BY <1>5, <3>2, <3>3
  <2>1. CASE network_attach
    BY <1>4, <2>1 DEF network_attach, attached
  <2>2. CASE netcard_close
    <3>1. \A b \in Bufs : frees'[b] = 0 BY <1>0, <1>5, <2>2, OwnersOfBuffer DEF netcard_close
    <3>2. attached /\ attached' BY <2>2, <3>1 DEF netcard_close, attached
    <3>3. Fifos' = Fifos /\ Held' = Held BY <2>0, Zenon DEF Fifos, Held
    <3> QED BY <3>2, <3>3, Zenon DEF Fifo!vars, Fifos, Held
  <2> QED BY <2>1, <2>2
<1>6. CASE Slots # {} /\ netcard_close
  <2>1. PICK s \in Slots : TRUE BY <1>6
  <2>2. data[s] \in Bufs BY <1>0 DEF TypeOK
  <2>3. frees'[data[s]] = 1 BY <1>0, <1>6, <2>2, OwnersOfBuffer DEF netcard_close
  <2>4. attached /\ ~attached' BY <1>6, <2>2, <2>3 DEF netcard_close, attached
  <2> QED BY <1>4, <2>4
<1>7. CASE network_attach
  <2>1. ~attached /\ attached' BY <1>7 DEF network_attach, attached
  <2> QED BY <1>4, <2>1
<1> QED BY <1>5, <1>6, <1>7

LEMMA SimInit == Init => Fifo!Init
<1> SUFFICES ASSUME Init PROVE Fifo!Init OBVIOUS
<1>1. TypeOK BY InitInv DEF IInv
<1>2. Fifos = [q \in Queues |-> << >>]
  <2>1. \A q \in Queues : Packets(q) = << >> BY <1>1, EmptyNow DEF Init, network_queue_empty
  <2> QED BY <2>1, Zenon DEF Fifos
<1>3. Held \in [Holders -> [bytes : Data, len : Lens]]
  <2>1. \A h \in Holders : Content(h) \in [bytes : Data, len : Lens]
    BY <1>1, ContentType DEF Packet, Slots
  <2> QED BY <2>1, Zenon DEF Held
<1>4. attached = TRUE
  <2>1. attached BY DEF Init, attached
  <2> QED BY <2>1, Zenon DEF attached
<1> QED BY <1>2, <1>3, <1>4, Zenon DEF Fifo!Init, Fifos, Held

LEMMA SimNext == RInv /\ RInv' /\ [Next]_vars => [Fifo!Next]_(Fifo!vars)
<1> SUFFICES ASSUME RInv, RInv', [Next]_vars PROVE Fifo!Next \/ UNCHANGED Fifo!vars
  BY Zenon
<1>0. IInv /\ IInv' BY DEF RInv
<1>1. CASE UNCHANGED vars
  <2>1. \A s : Content(s)' = Content(s) BY <1>1 DEF vars, Content
  <2>2. \A q \in Queues : Packets(q)' = Packets(q) BY <1>1 DEF vars, Packets, Waiting, Content
  <2>3. Fifos' = Fifos /\ Held' = Held BY <2>1, <2>2, Zenon DEF Fifos, Held
  <2>4. attached' = attached BY <1>1, Zenon DEF vars, attached
  <2> QED BY <2>3, <2>4, Zenon DEF Fifo!vars, Fifos, Held
<1>2. CASE netcard_close \/ network_attach BY <1>2, SimClose
<1> QED BY <1>0, <1>1, <1>2, SimPut, SimPutSwap, SimGetSwap, SimMove, SimSend, SimAccepted DEF Next

(* The rings of network.c, their buffers swapped from slot to slot, are     *)
(* bounded FIFO queues of packets: what network_queue_get_swap or           *)
(* network_queue_move takes out is byte for byte what network_queue_put     *)
(* or network_queue_put_swap brought in, in that order, no operation        *)
(* disturbs another ring, and no ring holds more than NET_QUEUE_LEN - 1.    *)
THEOREM RingsAreQueues == Spec => ImplementsFifo
<1>1. Init => RInv BY InitInv, InitDrained DEF RInv
<1>2. RInv /\ [Next]_vars => RInv' BY NextInv, NextDrained DEF RInv
<1> QED BY <1>1, <1>2, SimInit, SimNext, PTL DEF Spec, ImplementsFifo, Fifo!Spec
=============================================================================
