-------------------------- MODULE VoodooFifoProofs --------------------------
(***************************************************************************)
(* Proofs about VoodooFifo, for a FIFO of any size.  CountNeverAhead is    *)
(* nearly inductive: it needs to know that the entry being executed is     *)
(* still at the head of the FIFO, that the one waited for at the retrace   *)
(* is a swap, and that the room the emulation thread found is still there. *)
(* WaiterHeard needs to know when the FIFO thread is told to end.          *)
(***************************************************************************)
EXTENDS VoodooFifo, FiniteSetTheorems, SequenceTheorems, FunctionTheorems, TLAPS

-----------------------------------------------------------------------------
(* Counting the swaps of a sequence of entries.                             *)

SwapAt(s) == {i \in 1 .. Len(s) : s[i] \in Swaps}

LEMMA SwapAtFinite ==
  ASSUME NEW s \in Seq(Kinds)
  PROVE  IsFiniteSet(SwapAt(s)) /\ SwapsIn(s) = Cardinality(SwapAt(s)) /\ SwapsIn(s) \in 0 .. Len(s)
<1>1. Len(s) \in Nat OBVIOUS
<1>2. IsFiniteSet(1 .. Len(s)) /\ Cardinality(1 .. Len(s)) = Len(s) BY <1>1, FS_Interval, SMTT(30)
<1>3. SwapAt(s) \in SUBSET (1 .. Len(s)) BY DEF SwapAt
<1>4. IsFiniteSet(SwapAt(s)) /\ Cardinality(SwapAt(s)) <= Len(s) BY <1>2, <1>3, FS_Subset
<1>5. Cardinality(SwapAt(s)) \in Nat BY <1>4, FS_CardinalityType
<1>6. SwapsIn(s) = Cardinality(SwapAt(s)) BY DEF SwapsIn, SwapAt
<1> QED BY <1>1, <1>4, <1>5, <1>6

(* An entry is queued. *)
LEMMA SwapsAppend ==
  ASSUME NEW s \in Seq(Kinds), NEW c \in Kinds
  PROVE  SwapsIn(Append(s, c)) = SwapsIn(s) + (IF c \in Swaps THEN 1 ELSE 0)
<1> DEFINE a == Append(s, c)
           n == Len(s)
<1>1. a \in Seq(Kinds) /\ Len(a) = n + 1 /\ a[n + 1] = c /\ n \in Nat
      /\ \A i \in 1 .. n : a[i] = s[i]
  BY AppendProperties
<1> HIDE DEF a, n
<1>2. SwapAt(s) = {i \in 1 .. n : s[i] \in Swaps} BY DEF SwapAt, n
<1>3. SwapAt(a) = IF c \in Swaps THEN SwapAt(s) \cup {n + 1} ELSE SwapAt(s)
  <2>1. \A i : i \in 1 .. n + 1 <=> i \in 1 .. n \/ i = n + 1 BY <1>1
  <2>2. n + 1 \notin 1 .. n BY <1>1
  <2>3. SwapAt(a) = {i \in 1 .. n + 1 : a[i] \in Swaps} BY <1>1 DEF SwapAt
  <2> QED BY <1>1, <1>2, <2>1, <2>2, <2>3
<1>4. n + 1 \notin SwapAt(s) BY <1>1, <1>2
<1>5. IsFiniteSet(SwapAt(s)) /\ SwapsIn(s) = Cardinality(SwapAt(s)) /\ SwapsIn(s) \in Nat
  BY SwapAtFinite
<1>6. SwapsIn(a) = Cardinality(SwapAt(a)) BY <1>1, SwapAtFinite
<1>7. Cardinality(SwapAt(s) \cup {n + 1}) = Cardinality(SwapAt(s)) + 1
  BY <1>4, <1>5, FS_AddElement
<1>8. SwapsIn(a) = SwapsIn(s) + (IF c \in Swaps THEN 1 ELSE 0) BY <1>3, <1>5, <1>6, <1>7
<1> QED BY <1>8 DEF a

(* The entry at the head leaves. *)
LEMMA SwapsTail ==
  ASSUME NEW s \in Seq(Kinds), s # << >>
  PROVE  /\ Tail(s) \in Seq(Kinds) /\ Len(Tail(s)) = Len(s) - 1 /\ Head(s) \in Kinds
         /\ SwapsIn(s) = SwapsIn(Tail(s)) + (IF Head(s) \in Swaps THEN 1 ELSE 0)
<1> DEFINE r == Tail(s)
           n == Len(s)
           A == SwapAt(r)
           B == SwapAt(s) \ {1}
           f == [i \in A |-> i + 1]
<1>1. /\ r \in Seq(Kinds) /\ n \in Nat \ {0} /\ Len(r) = n - 1 /\ \A i \in 1 .. n - 1 : r[i] = s[i + 1]
      /\ Head(s) = s[1] /\ Head(s) \in Kinds
  BY HeadTailProperties, EmptySeq, LenProperties
<1> HIDE DEF r, n
<1>2. A = {i \in 1 .. n - 1 : s[i + 1] \in Swaps} /\ B = {i \in 2 .. n : s[i] \in Swaps}
  <2>1. A = {i \in 1 .. n - 1 : s[i + 1] \in Swaps} BY <1>1 DEF SwapAt
  <2>2. \A i : i \in (1 .. n) \ {1} <=> i \in 2 .. n BY <1>1
  <2>3. SwapAt(s) = {i \in 1 .. n : s[i] \in Swaps} BY DEF SwapAt, n
  <2> QED BY <2>1, <2>2, <2>3
<1> HIDE DEF A, B
<1>3. f \in Bijection(A, B)
  <2>1. \A i \in A : i \in Int /\ i + 1 \in B BY <1>1, <1>2
  <2>2. f \in [A -> B] BY <2>1
  <2>3. \A i, j \in A : f[i] = f[j] => i = j BY <2>1
  <2>4. \A j \in B : \E i \in A : f[i] = j
    <3> SUFFICES ASSUME NEW j \in B PROVE \E i \in A : f[i] = j OBVIOUS
    <3>1. j \in Int /\ j - 1 \in 1 .. n - 1 /\ s[(j - 1) + 1] \in Swaps BY <1>1, <1>2
    <3>2. j - 1 \in A /\ (j - 1) + 1 = j BY <1>2, <3>1
    <3> QED BY <3>2
  <2> HIDE DEF f
  <2> QED BY <2>2, <2>3, <2>4 DEF Bijection, Injection, Surjection, IsInjective
<1>4. IsFiniteSet(A) /\ SwapsIn(r) = Cardinality(A) /\ SwapsIn(r) \in Nat
  BY <1>1, SwapAtFinite DEF A
<1>5. Cardinality(B) = Cardinality(A)
  <2>1. ExistsBijection(A, B) BY <1>3 DEF ExistsBijection
  <2> QED BY <1>4, <2>1, FS_Bijection
<1>6. /\ IsFiniteSet(SwapAt(s)) /\ SwapsIn(s) = Cardinality(SwapAt(s)) /\ SwapsIn(s) \in Nat
  BY SwapAtFinite
<1>7. Cardinality(B) = IF 1 \in SwapAt(s) THEN Cardinality(SwapAt(s)) - 1 ELSE Cardinality(SwapAt(s))
  BY <1>6, FS_RemoveElement DEF B
<1>8. 1 \in SwapAt(s) <=> Head(s) \in Swaps BY <1>1 DEF SwapAt, n
<1>9. SwapsIn(s) = SwapsIn(r) + (IF Head(s) \in Swaps THEN 1 ELSE 0) BY <1>4, <1>5, <1>6, <1>7, <1>8
<1> QED BY <1>1, <1>9 DEF r, n

(* A swap at the head is counted. *)
LEMMA SwapAtHead ==
  ASSUME NEW s \in Seq(Kinds), s # << >>, Head(s) \in Swaps
  PROVE  SwapsIn(s) >= 1
<1>1. SwapsIn(s) = SwapsIn(Tail(s)) + 1 /\ Tail(s) \in Seq(Kinds) BY SwapsTail
<1>2. SwapsIn(Tail(s)) \in 0 .. Len(Tail(s)) BY <1>1, SwapAtFinite
<1> QED BY <1>1, <1>2

-----------------------------------------------------------------------------
(* The inductive invariant.                                                 *)

(* What the FIFO thread works on is at the head of the FIFO. *)
HeadInWork ==
  /\ fifo = "exec" => q # << >>
  /\ fifo \in {"swapped", "lock"} => q # << >> /\ Head(q) = "swap"

RoomKept == emu = "append" => Len(q) < FULL_AT

IInv == CountNeverAhead /\ HeadInWork /\ RoomKept

(* The parts of TypeOK that say nothing of numbers and sequences. *)
Flags ==
  /\ cmd \in Kinds
  /\ emu \in {"run", "queue", "append", "kick", "flush", "wait", "join", "closed"}
  /\ fifo \in {"top", "sleep", "reset", "test", "exec", "swapped", "lock", "empty",
               "unbusy", "ended"}
  /\ wake \in BOOLEAN /\ empty \in BOOLEAN /\ timer \in BOOLEAN /\ busy \in BOOLEAN
  /\ run \in BOOLEAN /\ flush \in BOOLEAN /\ pending \in BOOLEAN /\ triple \in BOOLEAN
  /\ odd \in BOOLEAN

Entries == q \in Seq(Kinds) /\ Len(q) <= FULL_AT
Counted == count \in Nat /\ count + Over <= Waiting

LEMMA Numbers ==
  ASSUME Entries
  PROVE  Len(q) \in 0 .. FULL_AT /\ FULL_AT \in Nat \ {0} /\ SwapsIn(q) \in 0 .. Len(q)
<1>1. q \in Seq(Kinds) /\ Len(q) \in Nat BY LenProperties DEF Entries
<1>2. Len(q) \in 0 .. FULL_AT /\ FULL_AT \in Nat \ {0} BY <1>1, VoodooFifoAssumption DEF Entries
<1>3. SwapsIn(q) \in 0 .. Len(q) BY <1>1, SwapAtFinite
<1> QED BY <1>2, <1>3

(* The count's bound is a consequence: no more swaps are outstanding than   *)
(* fit in the FIFO, one being queued and one pending.                       *)
LEMMA Parts == CountNeverAhead <=> Entries /\ Flags /\ Counted
<1>1. ASSUME CountNeverAhead PROVE Entries /\ Flags /\ Counted
  <2>1. TypeOK /\ count + Over <= Waiting BY <1>1 DEF CountNeverAhead
  <2>2. Entries BY <2>1 DEF TypeOK, Entries
  <2>3. {wake, empty, timer, busy, run, flush, pending, triple, odd} \subseteq BOOLEAN BY <2>1 DEF TypeOK
  <2>4. Flags BY <2>1, <2>3 DEF TypeOK, Flags
  <2>5. Counted BY <2>1, VoodooFifoAssumption DEF TypeOK, Counted
  <2> QED BY <2>2, <2>4, <2>5
<1>2. ASSUME Entries, Flags, Counted PROVE CountNeverAhead
  <2>1. count + Over <= Waiting BY <1>2 DEF Counted
  <2>2. count \in 0 .. FULL_AT + 2
    <3>1. SwapsIn(q) \in 0 .. Len(q) /\ Len(q) \in 0 .. FULL_AT /\ FULL_AT \in Nat BY <1>2, Numbers
    <3>2. Waiting <= FULL_AT + 2 /\ Waiting \in Int BY <3>1 DEF Waiting
    <3>3. Over \in 0 .. 1 BY DEF Over
    <3> QED BY <1>2, <2>1, <3>1, <3>2, <3>3 DEF Counted
  <2>3. {wake, empty, timer, busy, run, flush, pending, triple, odd} \subseteq BOOLEAN BY <1>2 DEF Flags
  <2>4. TypeOK BY <1>2, <2>2, <2>3 DEF TypeOK, Entries, Flags
  <2> QED BY <2>1, <2>4 DEF CountNeverAhead
<1> QED BY <1>1, <1>2

LEMMA InitInv == Init => IInv
<1> SUFFICES ASSUME Init PROVE IInv OBVIOUS
<1>1. q = << >> BY DEF Init
<1>2. q \in Seq(Kinds) /\ Len(q) = 0 BY <1>1, EmptySeq
<1>3. Entries BY <1>2, VoodooFifoAssumption DEF Entries
<1>4. SwapsIn(q) = 0
  <2>1. SwapsIn(q) \in 0 .. Len(q) BY <1>2, SwapAtFinite
  <2> QED BY <1>2, <2>1
<1>5. Flags BY DEF Init, Flags, Kinds
<1>6. Waiting = 0 /\ Over = 0 /\ count = 0 BY <1>4 DEF Init, Waiting, Over
<1>7. Counted BY <1>6 DEF Counted
<1>8. HeadInWork /\ RoomKept BY DEF Init, HeadInWork, RoomKept
<1> QED BY <1>3, <1>5, <1>7, <1>8, Parts DEF IInv

LEMMA FlagsStep == Flags /\ [Next]_vars => Flags'
<1> SUFFICES ASSUME Flags, [Next]_vars PROVE Flags' OBVIOUS
<1> USE DEF Flags
<1>1. ASSUME NEW c \in Kinds, Write(c) PROVE Flags' BY <1>1 DEF Write, fifoVars
<1>2. CASE QueueFull BY <1>2 DEF QueueFull, voodoo_wake_fifo_thread_now, fifoVars, swapVars
<1>3. CASE QueueReset BY <1>3, ZenonT(60) DEF QueueReset, fifoVars, swapVars
<1>4. CASE QueueAppend BY <1>4, ZenonT(60) DEF QueueAppend, voodoo_wake_fifo_thread, fifoVars, swapVars
<1>5. CASE Kick BY <1>5, ZenonT(60) DEF Kick, voodoo_wake_fifo_thread, fifoVars, swapVars
<1>6. CASE StatusRead BY <1>6, ZenonT(60) DEF StatusRead, WakeIfIdle, voodoo_wake_fifo_thread, fifoVars, swapVars
<1>7. CASE voodoo_wake_timer BY <1>7 DEF voodoo_wake_timer, fifoVars, swapVars
<1>8. CASE Retrace BY <1>8 DEF Retrace, CountDown, fifoVars, swapVars
<1>9. CASE VideoReset BY <1>9 DEF VideoReset, fifoVars, swapVars
<1>10. CASE BeginFlush BY <1>10 DEF BeginFlush, fifoVars, swapVars
<1>11. CASE FlushTest BY <1>11, ZenonT(60) DEF FlushTest, voodoo_wake_fifo_thread_now, fifoVars, swapVars
<1>12. CASE FlushWait BY <1>12 DEF FlushWait, TestAgain, fifoVars, swapVars
<1>13. CASE Close BY <1>13 DEF Close, fifoVars, swapVars
<1>14. CASE Join BY <1>14 DEF Join, fifoVars, swapVars
<1>15. CASE Top BY <1>15 DEF Top, emuVars, swapVars
<1>16. CASE Sleep BY <1>16 DEF Sleep, emuVars, swapVars
<1>17. CASE ResetWake BY <1>17 DEF ResetWake, emuVars, swapVars
<1>18. CASE TestEmpty BY <1>18 DEF TestEmpty, emuVars, swapVars
<1>19. CASE ExecOther BY <1>19 DEF ExecOther, Done, emuVars, swapVars
<1>20. CASE ExecSwapNow BY <1>20 DEF ExecSwapNow, CountDown, Done, emuVars, swapVars
<1>21. CASE ExecSwap BY <1>21, ZenonT(60) DEF ExecSwap, Done, emuVars, swapVars
<1>22. CASE SwapTest BY <1>22, ZenonT(60) DEF SwapTest, SwapOver, Done, emuVars, swapVars
<1>23. CASE SwapEarly BY <1>23 DEF SwapEarly, CountDown, SwapOver, Done, emuVars, swapVars
<1>24. CASE SwapWait BY <1>24 DEF SwapWait, emuVars, swapVars
<1>25. CASE SetEmpty BY <1>25 DEF SetEmpty, emuVars, swapVars
<1>26. CASE ClearBusy BY <1>26, ZenonT(60) DEF ClearBusy, emuVars, swapVars
<1>27. CASE UNCHANGED vars BY <1>27 DEF vars, swapVars
<1> QED BY <1>1, <1>2, <1>3, <1>4, <1>5, <1>6, <1>7, <1>8, <1>9, <1>10, <1>11, <1>12, <1>13, <1>14, <1>15, <1>16, <1>17, <1>18, <1>19, <1>20, <1>21, <1>22, <1>23, <1>24, <1>25, <1>26, <1>27 DEF Next, EmulationThread, FifoThread, Queueing, Flushing

-----------------------------------------------------------------------------
(* An entry that leaves was at the head, and the rest is a FIFO again.      *)
LEMMA LeavingEntry ==
  ASSUME Entries, q # << >>, Done
  PROVE  /\ q' \in Seq(Kinds) /\ Len(q') <= FULL_AT /\ Len(q') < Len(q) /\ fifo' = "test"
         /\ SwapsIn(q) = SwapsIn(q') + (IF Head(q) \in Swaps THEN 1 ELSE 0)
         /\ SwapsIn(q') \in Nat /\ Head(q) \in Kinds
<1>1. q' = Tail(q) /\ fifo' = "test" BY DEF Done
<1>2. q \in Seq(Kinds) /\ Len(q) <= FULL_AT BY DEF Entries
<1>3. Len(q) \in Nat /\ FULL_AT \in Nat BY Numbers
<1>4. /\ Tail(q) \in Seq(Kinds) /\ Len(Tail(q)) = Len(q) - 1 /\ Head(q) \in Kinds
      /\ SwapsIn(q) = SwapsIn(Tail(q)) + (IF Head(q) \in Swaps THEN 1 ELSE 0)
  BY <1>2, SwapsTail
<1>5. SwapsIn(Tail(q)) \in 0 .. Len(Tail(q)) BY <1>4, SwapAtFinite
<1> QED BY <1>1, <1>2, <1>3, <1>4, <1>5

(* The entry being executed stays at the head until it leaves: the other    *)
(* thread only appends, and only where it has found room.                   *)
LEMMA QueueStep ==
  ASSUME Entries, Flags, HeadInWork, RoomKept, [Next]_vars
  PROVE  Entries' /\ HeadInWork' /\ RoomKept'
<1>0. q \in Seq(Kinds) /\ Len(q) <= FULL_AT /\ Len(q) \in Nat /\ FULL_AT \in Nat \ {0}
  BY Numbers DEF Entries
<1>a. ASSUME q' = q, fifo' = fifo, emu' = "append" => emu = "append" \/ ~FIFO_FULL
      PROVE Entries' /\ HeadInWork' /\ RoomKept'
  BY <1>0, <1>a DEF Entries, HeadInWork, RoomKept, FIFO_FULL
<1>b. ASSUME q' = q, emu' = emu,
             fifo' = "exec" => q # << >>, fifo' \in {"swapped", "lock"} => q # << >> /\ Head(q) = "swap"
      PROVE Entries' /\ HeadInWork' /\ RoomKept'
  BY <1>0, <1>b DEF Entries, HeadInWork, RoomKept
<1>c. ASSUME Done, q # << >>, emu' = emu PROVE Entries' /\ HeadInWork' /\ RoomKept'
  <2>1. q' \in Seq(Kinds) /\ Len(q') <= FULL_AT /\ Len(q') < Len(q) /\ fifo' = "test" BY <1>c, LeavingEntry
  <2>2. Len(q') \in Nat BY <2>1, LenProperties
  <2> QED BY <1>0, <1>c, <2>1, <2>2 DEF Entries, HeadInWork, RoomKept
<1>1. ASSUME NEW c \in Kinds, Write(c) PROVE Entries' /\ HeadInWork' /\ RoomKept'
  BY <1>1, <1>a DEF Write, fifoVars
<1>2. CASE QueueFull BY <1>2, <1>a DEF QueueFull, fifoVars
<1>3. CASE QueueReset BY <1>3, <1>a DEF QueueReset, fifoVars
<1>4. CASE QueueAppend
  <2>1. /\ q' = Append(q, cmd) /\ emu = "append" /\ emu' \in {"run", "kick"} /\ fifo' = fifo
        /\ cmd \in Kinds
    BY <1>4 DEF QueueAppend, fifoVars, Flags
  <2>2. Len(q) < FULL_AT BY <2>1 DEF RoomKept
  <2>3. /\ Append(q, cmd) \in Seq(Kinds) /\ Len(Append(q, cmd)) = Len(q) + 1
        /\ q # << >> => Head(Append(q, cmd)) = Head(q)
    <3>1. /\ Append(q, cmd) \in Seq(Kinds) /\ Len(Append(q, cmd)) = Len(q) + 1
          /\ \A i \in 1 .. Len(q) : Append(q, cmd)[i] = q[i]
      BY <1>0, <2>1, AppendProperties
    <3>2. ASSUME q # << >> PROVE Head(Append(q, cmd)) = Head(q)
      <4>1. Len(q) # 0 BY <1>0, <3>2, EmptySeq
      <4>2. 1 \in 1 .. Len(q) BY <1>0, <4>1
      <4>3. Append(q, cmd) # << >> BY <1>0, <3>1, <4>1
      <4>4. Head(Append(q, cmd)) = Append(q, cmd)[1] /\ Head(q) = q[1]
        BY <1>0, <3>1, <3>2, <4>3, HeadTailProperties
      <4> QED BY <3>1, <4>2, <4>4
    <3> QED BY <3>1, <3>2
  <2>4. Append(q, cmd) # << >>
    <3>1. Len(Append(q, cmd)) # 0 BY <1>0, <2>3
    <3> QED BY <2>3, <3>1, EmptySeq
  <2> QED BY <1>0, <2>1, <2>2, <2>3, <2>4 DEF Entries, HeadInWork, RoomKept
<1>5. CASE Kick BY <1>5, <1>a DEF Kick, fifoVars
<1>6. CASE StatusRead BY <1>6, <1>a DEF StatusRead, fifoVars
<1>7. CASE voodoo_wake_timer BY <1>7, <1>a DEF voodoo_wake_timer, fifoVars
<1>8. CASE Retrace BY <1>8, <1>a DEF Retrace, fifoVars
<1>9. CASE VideoReset BY <1>9, <1>a DEF VideoReset, fifoVars
<1>10. CASE BeginFlush BY <1>10, <1>a DEF BeginFlush, fifoVars
<1>11. CASE FlushTest BY <1>11, <1>a DEF FlushTest, fifoVars
<1>12. CASE FlushWait BY <1>12, <1>a DEF FlushWait, fifoVars, TestAgain
<1>13. CASE Close BY <1>13, <1>a DEF Close, fifoVars
<1>14. CASE Join BY <1>14, <1>a DEF Join, fifoVars
<1>15. CASE Top BY <1>15, <1>b DEF Top, emuVars, HeadInWork
<1>16. CASE Sleep BY <1>16, <1>b DEF Sleep, emuVars, HeadInWork
<1>17. CASE ResetWake BY <1>17, <1>b DEF ResetWake, emuVars, HeadInWork
<1>18. CASE TestEmpty BY <1>18, <1>b DEF TestEmpty, emuVars, HeadInWork, FIFO_EMPTY
<1>19. CASE ExecOther BY <1>19, <1>c DEF ExecOther, emuVars, HeadInWork
<1>20. CASE ExecSwapNow BY <1>20, <1>c DEF ExecSwapNow, emuVars, HeadInWork
<1>21. CASE ExecSwap
  <2>1. CASE Done BY <1>21, <1>c, <2>1 DEF ExecSwap, emuVars, HeadInWork
  <2>2. CASE UNCHANGED <<q, odd>> /\ fifo' \in {"swapped", "lock"} BY <1>21, <1>b, <2>2 DEF ExecSwap, emuVars, HeadInWork
  <2> QED BY <1>21, <2>1, <2>2 DEF ExecSwap, Flags
<1>22. CASE SwapTest
  <2>1. CASE Done BY <1>22, <1>c, <2>1 DEF SwapTest, emuVars, HeadInWork
  <2>2. CASE UNCHANGED <<q, odd>> /\ fifo' \in {"swapped", "lock"} BY <1>22, <1>b, <2>2 DEF SwapTest, emuVars, HeadInWork
  <2> QED BY <1>22, <2>1, <2>2 DEF SwapTest, Flags
<1>23. CASE SwapEarly BY <1>23, <1>c DEF SwapEarly, emuVars, HeadInWork
<1>24. CASE SwapWait BY <1>24, <1>b DEF SwapWait, emuVars, HeadInWork
<1>25. CASE SetEmpty BY <1>25, <1>b DEF SetEmpty, emuVars, HeadInWork
<1>26. CASE ClearBusy BY <1>26, <1>b DEF ClearBusy, emuVars, HeadInWork
<1>27. CASE UNCHANGED vars BY <1>27, <1>a DEF vars
<1> QED BY <1>1, <1>2, <1>3, <1>4, <1>5, <1>6, <1>7, <1>8, <1>9, <1>10, <1>11, <1>12, <1>13, <1>14, <1>15, <1>16, <1>17, <1>18, <1>19, <1>20, <1>21, <1>22, <1>23, <1>24, <1>25, <1>26, <1>27
  DEF Next, EmulationThread, FifoThread, Queueing, Flushing

(* The other two terms of Waiting.                                          *)
Queued == IF emu \in {"queue", "append"} /\ cmd \in Swaps THEN 1 ELSE 0
Left == IF triple /\ pending THEN 1 ELSE 0

LEMMA Leaves ==
  ASSUME NEW x \in Nat, NEW d \in Nat, NEW h \in Nat, NEW n \in Nat, NEW u \in Nat,
         NEW l \in Nat, NEW m \in Nat, d + h + l <= x + m, x <= (n + h) + u + l
  PROVE  d <= n + u + m
OBVIOUS

LEMMA Balance ==
  ASSUME NEW c \in Nat, NEW d \in Nat, NEW o \in Nat, NEW l \in Nat, NEW m \in Nat
  PROVE  /\ d = c - 1 => d + 1 + l <= c + o + l
         /\ d = c - 1 /\ l <= m => d + 1 + l <= c + o + m
         /\ d = c /\ l = 0 /\ m = 1 => d + 1 + l <= c + o + m
         /\ d = c /\ l = 0 /\ o = 1 => d + 1 + l <= c + o + m
OBVIOUS

(* Every step moves the count and the outstanding swaps together.           *)
LEMMA CountStep ==
  ASSUME Entries, Flags, Counted, HeadInWork, RoomKept, [Next]_vars
  PROVE  Counted'
<1> DEFINE n == SwapsIn(q)
<1>1. count \in Nat /\ n \in Nat /\ count + Over <= n + Queued + Left
  BY Numbers DEF Counted, Waiting, Queued, Left
<1>2. Waiting' = SwapsIn(q') + Queued' + Left' BY DEF Waiting, Queued, Left
<1> HIDE DEF n
<1>3. Over \in 0 .. 1 /\ Over' \in 0 .. 1 /\ Left \in 0 .. 1 /\ Left' \in 0 .. 1 /\ Queued' \in 0 .. 1 /\ Queued \in 0 .. 1
  BY DEF Over, Queued, Left
(* The emulation thread, where it leaves the swaps alone. *)
<1>a. ASSUME q' = q, fifo' = fifo, triple' = triple, pending' = pending, count' = count, Queued' = Queued
      PROVE Counted'
  <2>1. Over' = Over /\ Left' = Left BY <1>a DEF Over, Left
  <2> QED BY <1>1, <1>2, <1>a, <2>1 DEF Counted, n
(* The FIFO thread, where it executes nothing. *)
<1>b. ASSUME q' = q, emu' = emu, cmd' = cmd, triple' = triple, pending' = pending, count' = count,
             Over' <= Over
      PROVE Counted'
  <2>1. Queued' = Queued /\ Left' = Left BY <1>b DEF Queued, Left
  <2> QED BY <1>1, <1>2, <1>3, <1>b, <2>1 DEF Counted, n
(* The FIFO thread, where an entry leaves. *)
<1>c. ASSUME Done, q # << >>, emu' = emu, cmd' = cmd, triple' = triple, count' \in Nat,
             \/ count' = 0
             \/ count' + (IF Head(q) \in Swaps THEN 1 ELSE 0) + Left <= count + Over + Left'
      PROVE Counted'
  <2>1. /\ n = SwapsIn(q') + (IF Head(q) \in Swaps THEN 1 ELSE 0)
        /\ SwapsIn(q') \in Nat /\ fifo' = "test"
    BY <1>c, LeavingEntry DEF n
  <2>2. Over' = 0 BY <2>1 DEF Over
  <2>3. Queued' = Queued BY <1>c DEF Queued
  <2>4. CASE count' = 0 BY <1>2, <1>3, <2>1, <2>2, <2>4 DEF Counted
  <2>5. CASE count' + (IF Head(q) \in Swaps THEN 1 ELSE 0) + Left <= count + Over + Left'
    <3> DEFINE h == IF Head(q) \in Swaps THEN 1 ELSE 0
    <3>1. h \in 0 .. 1 /\ n = SwapsIn(q') + h /\ count' + h + Left <= count + Over + Left' BY <2>1, <2>5
    <3>2. /\ count \in Nat /\ count' \in Nat /\ Over \in Nat /\ h \in Nat /\ SwapsIn(q') \in Nat
          /\ Queued \in Nat /\ Left \in Nat /\ Left' \in Nat
      BY <1>1, <1>3, <1>c, <2>1
    <3>3. count + Over <= (SwapsIn(q') + h) + Queued + Left BY <1>1, <3>1
    <3> HIDE DEF h
    <3>4. count' <= SwapsIn(q') + Queued + Left'
      <4> DEFINE x == count + Over
      <4>1. x \in Nat BY <3>2
      <4>2. count' + h + Left <= x + Left' BY <3>1
      <4>3. x <= (SwapsIn(q') + h) + Queued + Left BY <3>3
      <4> HIDE DEF x
      <4> QED BY <3>2, <4>1, <4>2, <4>3, Leaves
    <3>5. count' + Over' <= Waiting' BY <1>2, <2>2, <2>3, <3>2, <3>4
    <3> QED BY <3>2, <3>5 DEF Counted
  <2> QED BY <1>c, <2>4, <2>5
<1>t. Over \in Nat /\ Left \in Nat /\ Left' \in Nat /\ (Left' = Left \/ Left' = 1 => Left <= Left') BY <1>3
<1>d. ASSUME q # << >>, Head(q) \in Swaps PROVE n >= 1 BY <1>d, SwapAtHead DEF Entries, n
<1>4. ASSUME NEW c \in Kinds, Write(c) PROVE Counted'
  <2>1. /\ q' = q /\ fifo' = fifo /\ triple' = triple /\ pending' = pending
        /\ emu = "run" /\ emu' = "queue" /\ cmd' = c
        /\ count' = IF c \in Swaps THEN count + 1 ELSE count
    BY <1>4 DEF Write, fifoVars
  <2>2. Over' = Over /\ Left' = Left BY <2>1 DEF Over, Left
  <2>3. Queued = 0 /\ Queued' = IF c \in Swaps THEN 1 ELSE 0 BY <2>1 DEF Queued
  <2> QED BY <1>1, <1>2, <1>3, <2>1, <2>2, <2>3 DEF Counted, n
<1>5. CASE QueueFull BY <1>5, <1>a DEF QueueFull, fifoVars, swapVars, Queued
<1>6. CASE QueueReset BY <1>6, <1>a DEF QueueReset, fifoVars, swapVars, Queued
<1>7. CASE QueueAppend
  <2>1. /\ q' = Append(q, cmd) /\ emu = "append" /\ emu' \in {"run", "kick"} /\ fifo' = fifo
        /\ cmd \in Kinds /\ pending' = pending /\ triple' = triple /\ count' = count
    BY <1>7 DEF QueueAppend, fifoVars, swapVars, Flags
  <2>2. SwapsIn(q') = n + (IF cmd \in Swaps THEN 1 ELSE 0)
    BY <2>1, SwapsAppend DEF Entries, n
  <2>3. Over' = Over /\ Left' = Left BY <2>1 DEF Over, Left
  <2>4. Queued' = 0 /\ Queued = IF cmd \in Swaps THEN 1 ELSE 0 BY <2>1 DEF Queued
  <2> QED BY <1>1, <1>2, <1>3, <2>1, <2>2, <2>3, <2>4 DEF Counted
<1>8. CASE Kick BY <1>8, <1>a DEF Kick, fifoVars, swapVars, Queued
<1>9. CASE StatusRead BY <1>9, <1>a DEF StatusRead, fifoVars, swapVars, Queued
<1>10. CASE voodoo_wake_timer BY <1>10, <1>a DEF voodoo_wake_timer, fifoVars, swapVars, Queued
<1>11. CASE Retrace
  <2>1. /\ q' = q /\ fifo' = fifo /\ triple' = triple /\ emu' = emu /\ cmd' = cmd
        /\ pending /\ pending' = FALSE /\ CountDown
    BY <1>11 DEF Retrace, fifoVars
  <2>2. count' \in Nat /\ (count' = count - 1 \/ (count = 0 /\ count' = 0)) BY <1>1, <2>1 DEF CountDown
  <2>3. Queued' = Queued /\ Over = 0 /\ Left' = 0 BY <2>1 DEF Over, Queued, Left
  <2>4. CASE triple
    <3>1. Over' = 0 /\ Left = 1 BY <2>1, <2>4 DEF Over, Left
    <3> QED BY <1>1, <1>2, <1>3, <2>1, <2>2, <2>3, <3>1 DEF Counted, n
  <2>5. CASE ~triple
    <3>1. Left = 0 BY <2>5 DEF Left
    <3>2. Over' = 1 => n >= 1
      <4>1. ASSUME Over' = 1 PROVE fifo \in {"swapped", "lock"} BY <2>1, <4>1 DEF Over
      <4> QED BY <1>d, <4>1 DEF HeadInWork, Swaps
    <3> QED BY <1>1, <1>2, <1>3, <2>1, <2>2, <2>3, <3>1, <3>2 DEF Counted, n
  <2> QED BY <2>4, <2>5
<1>12. CASE VideoReset
  <2>1. /\ q' = q /\ fifo' = fifo /\ triple' = triple /\ emu' = emu /\ cmd' = cmd
        /\ pending' = pending /\ count' = 0
    BY <1>12 DEF VideoReset, fifoVars
  <2>2. Queued' = Queued /\ Over' = Over /\ Left' = Left BY <2>1 DEF Over, Queued, Left
  <2> QED BY <1>1, <1>2, <1>3, <2>1, <2>2 DEF Counted, n
<1>13. CASE BeginFlush BY <1>13, <1>a DEF BeginFlush, fifoVars, swapVars, Queued
<1>14. CASE FlushTest BY <1>14, <1>a DEF FlushTest, fifoVars, swapVars, Queued
<1>15. CASE FlushWait BY <1>15, <1>a DEF FlushWait, fifoVars, swapVars, TestAgain, Queued
<1>16. CASE Close BY <1>16, <1>a DEF Close, fifoVars, swapVars, Queued
<1>17. CASE Join BY <1>17, <1>a DEF Join, fifoVars, swapVars, Queued
<1>18. CASE Top
  <2>1. Over' <= Over BY <1>18, <1>3 DEF Top, emuVars, swapVars, Over
  <2> QED BY <1>18, <1>b, <2>1 DEF Top, emuVars, swapVars
<1>19. CASE Sleep
  <2>1. Over' <= Over BY <1>19, <1>3 DEF Sleep, emuVars, swapVars, Over
  <2> QED BY <1>19, <1>b, <2>1 DEF Sleep, emuVars, swapVars
<1>20. CASE ResetWake
  <2>1. Over' <= Over BY <1>20, <1>3 DEF ResetWake, emuVars, swapVars, Over
  <2> QED BY <1>20, <1>b, <2>1 DEF ResetWake, emuVars, swapVars
<1>21. CASE TestEmpty
  <2>1. Over' <= Over BY <1>21, <1>3 DEF TestEmpty, emuVars, swapVars, Over
  <2> QED BY <1>21, <1>b, <2>1 DEF TestEmpty, emuVars, swapVars
<1>22. CASE ExecOther
  <2>1. /\ q # << >> /\ Done /\ Head(q) \notin Swaps /\ emu' = emu /\ cmd' = cmd /\ triple' = triple
        /\ pending' = pending /\ count' = count
    BY <1>22 DEF ExecOther, emuVars, swapVars, HeadInWork, Swaps
  <2>2. Left' = Left BY <2>1 DEF Left
  <2> QED BY <1>1, <1>3, <1>c, <2>1, <2>2
<1>23. CASE ExecSwapNow
  <2>1. /\ q # << >> /\ Done /\ Head(q) \in Swaps /\ emu' = emu /\ cmd' = cmd /\ triple' = triple
        /\ pending' = pending /\ CountDown
    BY <1>23 DEF ExecSwapNow, emuVars, HeadInWork, Swaps
  <2>2. Left' = Left BY <2>1 DEF Left
  <2>3. count' \in Nat /\ (count' = count - 1 \/ count' = 0) BY <1>1, <2>1 DEF CountDown
  <2>4. count' = 0 \/ count' + 1 + Left <= count + Over + Left'
    BY <1>1, <1>t, <2>2, <2>3, Balance
  <2> QED BY <1>c, <2>1, <2>2, <2>3, <2>4
<1>24. CASE ExecSwap
  <2>1. /\ q # << >> /\ Head(q) \in Swaps /\ emu' = emu /\ cmd' = cmd /\ triple' = triple
        /\ fifo = "exec" /\ count' = count
    BY <1>24 DEF ExecSwap, emuVars, HeadInWork, Swaps
  <2>2. Queued' = Queued /\ Over = 0 BY <2>1 DEF Over, Queued
  <2>3. CASE ~triple
    <3>1. pending' = TRUE /\ q' = q BY <1>24, <2>3 DEF ExecSwap
    <3>2. Over' = 0 /\ Left' = 0 /\ Left = 0 BY <2>1, <2>3, <3>1 DEF Over, Left
    <3> QED BY <1>1, <1>2, <2>1, <2>2, <3>1, <3>2 DEF Counted, n
  <2>4. CASE triple /\ pending
    <3>1. pending' = pending /\ q' = q BY <1>24, <2>4 DEF ExecSwap
    <3>2. Over' = 0 BY <2>1, <2>4 DEF Over
    <3> QED BY <1>b, <2>1, <2>2, <3>1, <3>2
  <2>5. CASE triple /\ ~pending
    <3>1. pending' = TRUE /\ Done BY <1>24, <2>5 DEF ExecSwap
    <3>2. Left = 0 /\ Left' = 1 BY <2>1, <2>5, <3>1 DEF Left
    <3> QED BY <1>1, <1>3, <1>c, <2>1, <3>1, <3>2
  <2> QED BY <2>3, <2>4, <2>5 DEF Flags
<1>25. CASE SwapTest
  <2>1. /\ q # << >> /\ Head(q) \in Swaps /\ emu' = emu /\ cmd' = cmd /\ triple' = triple
        /\ fifo = "swapped" /\ count' = count
    BY <1>25 DEF SwapTest, emuVars, HeadInWork, Swaps
  <2>2. CASE pending
    <3>1. pending' = pending /\ q' = q BY <1>25, <2>2 DEF SwapTest
    <3>2. Over' = 0 BY <2>2, <3>1 DEF Over
    <3> QED BY <1>3, <1>b, <2>1, <3>1, <3>2
  <2>3. CASE ~pending
    <3>1. SwapOver /\ Done BY <1>25, <2>3 DEF SwapTest
    <3>2. Left = 0 BY <2>3 DEF Left
    <3>3. triple => Left' = 1 BY <2>1, <3>1 DEF SwapOver, Left
    <3>4. ~triple => Over = 1 BY <2>1, <2>3 DEF Over
    <3>5. count' + 1 + Left <= count + Over + Left' BY <1>1, <1>t, <2>1, <3>2, <3>3, <3>4, Balance
    <3> QED BY <1>1, <1>c, <2>1, <3>1, <3>5
  <2> QED BY <2>2, <2>3
<1>26. CASE SwapEarly
  <2>1. /\ q # << >> /\ Head(q) \in Swaps /\ emu' = emu /\ cmd' = cmd /\ triple' = triple
        /\ CountDown /\ SwapOver /\ Done
    BY <1>26 DEF SwapEarly, emuVars, HeadInWork, Swaps
  <2>2. count' \in Nat /\ (count' = count - 1 \/ count' = 0) BY <1>1, <2>1 DEF CountDown
  <2>3. triple => Left' = 1 BY <2>1 DEF SwapOver, Left
  <2>4. ~triple => Left = 0 /\ Left' = 0 BY <2>1 DEF Left
  <2>5. count' = 0 \/ count' + 1 + Left <= count + Over + Left'
    BY <1>1, <1>t, <2>2, <2>3, <2>4, Balance
  <2> QED BY <1>c, <2>1, <2>2, <2>3, <2>4, <2>5
<1>27. CASE SwapWait
  <2>1. Over' <= Over BY <1>27, <1>3 DEF SwapWait, emuVars, swapVars, Over
  <2> QED BY <1>27, <1>b, <2>1 DEF SwapWait, emuVars, swapVars
<1>28. CASE SetEmpty
  <2>1. Over' <= Over BY <1>28, <1>3 DEF SetEmpty, emuVars, swapVars, Over
  <2> QED BY <1>28, <1>b, <2>1 DEF SetEmpty, emuVars, swapVars
<1>29. CASE ClearBusy
  <2>1. Over' <= Over BY <1>29, <1>3 DEF ClearBusy, emuVars, swapVars, Over
  <2> QED BY <1>29, <1>b, <2>1 DEF ClearBusy, emuVars, swapVars
<1>30. CASE UNCHANGED vars BY <1>30, <1>a DEF vars, swapVars, Queued
<1> QED BY <1>4, <1>5, <1>6, <1>7, <1>8, <1>9, <1>10, <1>11, <1>12, <1>13, <1>14, <1>15, <1>16, <1>17, <1>18, <1>19, <1>20, <1>21, <1>22, <1>23, <1>24, <1>25, <1>26, <1>27, <1>28, <1>29, <1>30
  DEF Next, EmulationThread, FifoThread, Queueing, Flushing

LEMMA StepInv == IInv /\ [Next]_vars => IInv'
<1>1. (Entries /\ Flags /\ Counted => CountNeverAhead)' BY Parts, PTL
<1> QED BY <1>1, Parts, FlagsStep, QueueStep, CountStep DEF IInv

-----------------------------------------------------------------------------
(* The wake-ups: the emulation thread is in no wait once the FIFO thread    *)
(* has been told to end, and that thread ends only then.                    *)
Told ==
  /\ emu \in {"flush", "wait"} => flush
  /\ run <=> emu \notin {"join", "closed"}
  /\ fifo = "ended" => ~run

LEMMA HeardStep ==
  ASSUME Flags, Told, WaiterHeard, [Next]_vars
  PROVE  Told' /\ WaiterHeard'
<1> USE DEF Flags, Told, WaiterHeard
<1>1. ASSUME NEW c \in Kinds, Write(c) PROVE Told' /\ WaiterHeard' BY <1>1 DEF Write, fifoVars
<1>2. CASE QueueFull BY <1>2 DEF QueueFull, voodoo_wake_fifo_thread_now, fifoVars
<1>3. CASE QueueReset BY <1>3 DEF QueueReset, fifoVars
<1>4. CASE QueueAppend BY <1>4 DEF QueueAppend, fifoVars
<1>5. CASE Kick BY <1>5 DEF Kick, fifoVars
<1>6. CASE StatusRead BY <1>6 DEF StatusRead, fifoVars
<1>7. CASE voodoo_wake_timer BY <1>7 DEF voodoo_wake_timer, fifoVars
<1>8. CASE Retrace BY <1>8 DEF Retrace, fifoVars
<1>9. CASE VideoReset BY <1>9 DEF VideoReset, fifoVars
<1>10. CASE BeginFlush BY <1>10 DEF BeginFlush, fifoVars
<1>11. CASE FlushTest BY <1>11 DEF FlushTest, voodoo_wake_fifo_thread_now, fifoVars
<1>12. CASE FlushWait BY <1>12 DEF FlushWait, TestAgain, fifoVars
<1>13. CASE Close BY <1>13 DEF Close, fifoVars
<1>14. CASE Join BY <1>14 DEF Join, fifoVars
<1>15. CASE Top BY <1>15 DEF Top, emuVars
<1>16. CASE Sleep BY <1>16 DEF Sleep, emuVars
<1>17. CASE ResetWake BY <1>17 DEF ResetWake, emuVars
<1>18. CASE TestEmpty BY <1>18 DEF TestEmpty, emuVars
<1>19. CASE ExecOther BY <1>19 DEF ExecOther, Done, emuVars
<1>20. CASE ExecSwapNow BY <1>20 DEF ExecSwapNow, Done, emuVars
<1>21. CASE ExecSwap BY <1>21 DEF ExecSwap, Done, emuVars
<1>22. CASE SwapTest BY <1>22 DEF SwapTest, Done, emuVars
<1>23. CASE SwapEarly BY <1>23 DEF SwapEarly, Done, emuVars
<1>24. CASE SwapWait BY <1>24 DEF SwapWait, emuVars
<1>25. CASE SetEmpty BY <1>25 DEF SetEmpty, emuVars
<1>26. CASE ClearBusy BY <1>26 DEF ClearBusy, emuVars
<1>27. CASE UNCHANGED vars BY <1>27 DEF vars
<1> QED BY <1>1, <1>2, <1>3, <1>4, <1>5, <1>6, <1>7, <1>8, <1>9, <1>10, <1>11, <1>12, <1>13, <1>14, <1>15, <1>16, <1>17, <1>18, <1>19, <1>20, <1>21, <1>22, <1>23, <1>24, <1>25, <1>26, <1>27
  DEF Next, EmulationThread, FifoThread, Queueing, Flushing

-----------------------------------------------------------------------------
(* For a FIFO of any size, swap_count never tells the guest of more swaps   *)
(* than are outstanding, and stays within its type.                         *)
THEOREM CountCorrect == Spec => []CountNeverAhead
<1>1. IInv => CountNeverAhead BY DEF IInv
<1> QED BY <1>1, InitInv, StepInv, PTL DEF Spec

(* For a FIFO of any size, when voodoo_flush or a read of the frame buffer  *)
(* goes on, the FIFO is empty and no entry is still being executed.         *)
THEOREM FlushCorrect == Spec => FlushMeansExecuted
<1> DEFINE A == (emu \in {"flush", "wait"} /\ emu' = "run")
                  => (FIFO_EMPTY /\ fifo \notin {"exec", "swapped", "lock"})
<1>1. ASSUME IInv, [Next]_vars PROVE [A]_vars
  <2> SUFFICES ASSUME emu \in {"flush", "wait"}, emu' = "run"
               PROVE  FIFO_EMPTY /\ fifo \notin {"exec", "swapped", "lock"}
    OBVIOUS
  <2>1. CASE FlushTest BY <1>1, <2>1 DEF FlushTest, FIFO_EMPTY, IInv, HeadInWork
  <2>2. CASE FlushWait BY <2>2 DEF FlushWait, TestAgain
  <2>3. ASSUME NEW c \in Kinds PROVE ~Write(c) BY DEF Write
  <2>4. ~QueueFull /\ ~QueueReset /\ ~QueueAppend /\ ~Kick
    BY DEF QueueFull, QueueReset, QueueAppend, Kick
  <2>5. ~StatusRead /\ ~voodoo_wake_timer /\ ~Retrace /\ ~VideoReset /\ ~BeginFlush /\ ~Close /\ ~Join
    BY DEF StatusRead, voodoo_wake_timer, Retrace, VideoReset, BeginFlush, Close, Join
  <2>6. ~FifoThread
    <3>1. FifoThread => emu' = emu
      BY DEF FifoThread, emuVars, Top, Sleep, ResetWake, TestEmpty, ExecOther, ExecSwapNow, ExecSwap,
             SwapTest, SwapEarly, SwapWait, SetEmpty, ClearBusy
    <3> QED BY <3>1
  <2>7. ~UNCHANGED vars BY DEF vars
  <2> QED BY <1>1, <2>1, <2>2, <2>3, <2>4, <2>5, <2>6, <2>7 DEF Next, EmulationThread, Queueing, Flushing
<1>2. IInv /\ [Next]_vars => [A]_vars BY <1>1
<1>3. FlushMeansExecuted <=> [][A]_vars BY DEF FlushMeansExecuted
<1> HIDE DEF A
<1> QED BY <1>2, <1>3, InitInv, StepInv, PTL DEF Spec
(* For a FIFO of any size, the emulation thread is heard when it waits in   *)
(* voodoo_flush or joins the FIFO thread: no interleaving with the reset of *)
(* wake_fifo_thread and the test for an empty FIFO loses its wake-up.       *)
THEOREM WaitsCorrect == Spec => []WaiterHeard
<1>1. Init => Told /\ WaiterHeard BY DEF Init, Told, WaiterHeard
<1>2. IInv => Flags BY Parts DEF IInv
<1>3. Flags /\ Told /\ WaiterHeard /\ [Next]_vars => Told' /\ WaiterHeard' BY HeardStep
<1> QED BY <1>1, <1>2, <1>3, InitInv, StepInv, PTL DEF Spec
=============================================================================
