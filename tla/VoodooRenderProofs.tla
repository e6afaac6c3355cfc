------------------------- MODULE VoodooRenderProofs -------------------------
(***************************************************************************)
(* Proofs about VoodooRender, for a ring of any size and any number of     *)
(* render threads.  NotOverwritten needs to know that no thread is ever    *)
(* more than a whole ring behind, and that the FIFO thread stores only     *)
(* when every thread has room: what it tested stays true, for the threads  *)
(* only move on.  IdleMeansDrawn needs to know that the queues found empty *)
(* stay empty while the busy flags are tested.  NoLostWakeUp needs to know *)
(* how far behind a thread can be when it will sleep or is waited for.     *)
(***************************************************************************)
EXTENDS VoodooRender, Integers, TLAPS

-----------------------------------------------------------------------------
(* Arithmetic on the ring, without remainders.                              *)

Indexes == 0 .. IDX - 1
Slots == 0 .. PARAM_SIZE - 1

(* How far index a is ahead of index b. *)
Ahead(a, b) == IF a >= b THEN a - b ELSE a + IDX - b
Slot(a) == IF a < PARAM_SIZE THEN a ELSE a - PARAM_SIZE

(* A remainder of a number below twice the divisor takes one subtraction. *)
LEMMA SmallRemainder ==
  ASSUME NEW n \in Nat \ {0}, NEW x \in 0 .. 2 * n - 1
  PROVE  x % n = IF x < n THEN x ELSE x - n
OBVIOUS

(* There is at least one thread and one slot. *)
LEMMA Sizes ==
  /\ PARAM_SIZE \in Nat \ {0} /\ IDX \in Nat \ {0} /\ IDX = 2 * PARAM_SIZE
  /\ RENDER_THREADS \in Nat \ {0}
  /\ Threads = 0 .. RENDER_THREADS - 1 /\ 0 \in Threads
<1>1. PARAM_SIZE \in Nat \ {0} /\ RENDER_THREADS \in Nat \ {0}
  BY VoodooRenderAssumption
<1>2. IDX = 2 * PARAM_SIZE /\ IDX \in Nat \ {0}
  BY <1>1 DEF IDX
<1>3. Threads = 0 .. RENDER_THREADS - 1 /\ 0 \in Threads
  BY <1>1 DEF Threads
<1> QED BY <1>1, <1>2, <1>3

(* PARAM_ENTRIES is how far the write index is ahead of the thread's. *)
LEMMA Entries ==
  ASSUME TypeOK, NEW t \in Threads
  PROVE  PARAM_ENTRIES(t) = Ahead(write, read[t])
<1>1. write \in 0 .. IDX - 1 /\ read[t] \in 0 .. IDX - 1
  BY DEF TypeOK
<1> DEFINE x == write + IDX - read[t]
<1>2. x \in 0 .. 2 * IDX - 1
  BY <1>1, Sizes
<1>3. x % IDX = IF x < IDX THEN x ELSE x - IDX
  BY <1>2, Sizes, SmallRemainder
<1> QED
  BY <1>1, <1>3, Sizes DEF PARAM_ENTRIES, Ahead

(* NextIndex stays in range and wraps at the end. *)
LEMMA NextIndexIs ==
  ASSUME NEW i \in Indexes
  PROVE  /\ NextIndex(i) \in Indexes
         /\ NextIndex(i) = IF i + 1 = IDX THEN 0 ELSE i + 1
<1> DEFINE x == i + 1
<1>1. x \in 0 .. 2 * IDX - 1
  BY Sizes DEF Indexes
<1> HIDE DEF x
<1>2. x % IDX = IF x < IDX THEN x ELSE x - IDX
  BY <1>1, Sizes, SmallRemainder
<1> QED BY <1>2, Sizes DEF NextIndex, Indexes, x

(* Publishing puts the write index one further ahead of every reader, and   *)
(* a reader that moves on is one less behind.                               *)
LEMMA AheadMoves ==
  ASSUME NEW w \in Indexes, NEW r \in Indexes
  PROVE  /\ Ahead(w, r) \in 0 .. IDX - 1
         /\ Ahead(w, r) = 0 <=> w = r
         /\ Ahead(w, r) < PARAM_SIZE => Ahead(NextIndex(w), r) = Ahead(w, r) + 1
         /\ w # r => Ahead(w, NextIndex(r)) = Ahead(w, r) - 1
         /\ Ahead(r, NextIndex(r)) = IDX - 1
<1>1. Ahead(w, r) \in 0 .. IDX - 1 /\ (Ahead(w, r) = 0 <=> w = r)
  BY Sizes DEF Ahead, Indexes
<1> DEFINE w1 == NextIndex(w)
           r1 == NextIndex(r)
<1>n. /\ w1 \in Indexes /\ w1 = IF w + 1 = IDX THEN 0 ELSE w + 1
      /\ r1 \in Indexes /\ r1 = IF r + 1 = IDX THEN 0 ELSE r + 1
  BY NextIndexIs
<1> HIDE DEF w1, r1
<1>2. Ahead(w, r) < PARAM_SIZE => Ahead(w1, r) = Ahead(w, r) + 1
  BY <1>n, Sizes DEF Ahead, Indexes
<1>3. w # r => Ahead(w, r1) = Ahead(w, r) - 1
  BY <1>n, Sizes DEF Ahead, Indexes
<1>4. Ahead(r, r1) = IDX - 1
  BY <1>n, Sizes DEF Ahead, Indexes
<1> USE DEF w1, r1
<1> QED BY <1>1, <1>2, <1>3, <1>4

(* Indexes are told apart by how far they are ahead of a third, and by      *)
(* their slots when both are less than a ring ahead of it.                  *)
LEMMA AheadTells ==
  ASSUME NEW n \in Indexes, NEW w \in Indexes, NEW r \in Indexes
  PROVE  /\ Ahead(n, r) = Ahead(w, r) => n = w
         /\ Ahead(n, r) < Ahead(w, r) /\ Ahead(w, r) < PARAM_SIZE => Slot(n) # Slot(w)
BY Sizes DEF Ahead, Slot, Indexes

(* The slot of an index. *)
LEMMA SlotIs ==
  ASSUME NEW i \in Indexes
  PROVE  i % PARAM_SIZE = Slot(i) /\ Slot(i) \in Slots
<1>1. i \in 0 .. 2 * PARAM_SIZE - 1
  BY Sizes DEF Indexes
<1>2. i % PARAM_SIZE = IF i < PARAM_SIZE THEN i ELSE i - PARAM_SIZE
  BY <1>1, Sizes, SmallRemainder
<1> QED BY <1>1, <1>2, Sizes DEF Slot, Slots

-----------------------------------------------------------------------------
(* The inductive invariant, in parts.                                       *)

LoopCounter == fifo \in {"wait", "empty", "busy", "join"} => k < RENDER_THREADS

(* No thread is more than the ring behind; before a store each has room. *)
Room ==
  \A t \in Threads :
    /\ Ahead(write, read[t]) <= PARAM_SIZE
    /\ fifo \in {"store", "publish"} => Ahead(write, read[t]) < PARAM_SIZE

(* A thread draws only what was queued, and shows itself busy meanwhile. *)
DrawsQueued ==
  \A t \in Threads :
    /\ rend[t] = "next" => ~PARAM_EMPTY(t)
    /\ busy[t] <=> rend[t] \in {"test", "next", "signal", "unbusy"}

(* What a thread has before it is in the ring, as is what is being queued. *)
Kept ==
  \A t \in Threads : \A n \in Indexes :
    Ahead(n, read[t]) < Ahead(write, read[t]) => params[Slot(n)] = n
Stored == fifo = "publish" => params[Slot(write)] = write

(* The queues already found empty by an idle wait are empty. *)
FoundEmpty ==
  \A t \in Threads : \/ fifo = "empty" /\ t < k
                     \/ fifo = "busy"
                     => PARAM_EMPTY(t)

IInv == TypeOK /\ LoopCounter /\ Room /\ DrawsQueued /\ Kept /\ Stored /\ FoundEmpty

-----------------------------------------------------------------------------
(* Types.                                                                   *)

LEMMA TypeStep ==
  ASSUME TypeOK, LoopCounter, [Next]_vars
  PROVE  TypeOK' /\ LoopCounter'
<1> USE Sizes DEF TypeOK, LoopCounter, ringVars, eventVars, fifoVars
<1>1. CASE QueueTriangle BY <1>1 DEF QueueTriangle
<1>2. CASE TestFull
  <2>1. fifo' \in {"room", "store"} /\ k' \in {0, k} /\ notFull' \in [Threads -> BOOLEAN]
    BY <1>2 DEF TestFull
  <2> QED BY <1>2, <2>1 DEF TestFull
<1>3. CASE TestRoom
  <2>1. k = RENDER_THREADS \/ k < RENDER_THREADS
    OBVIOUS
  <2>2. \/ fifo' = "full" /\ k' = 0
        \/ fifo' = "wait" /\ k' = k /\ k < RENDER_THREADS
        \/ fifo' = fifo /\ k' = k + 1 /\ k < RENDER_THREADS
    BY <1>3, <2>1 DEF TestRoom
  <2> QED BY <1>3, <2>2, SMTT(30) DEF TestRoom
<1>4. CASE WaitNotFull BY <1>4 DEF WaitNotFull
<1>5. CASE StoreParams
  <2>1. write \in Indexes BY DEF Indexes
  <2> QED BY <1>5, <2>1, SlotIs DEF StoreParams
<1>6. CASE Publish
  <2>1. write \in Indexes BY DEF Indexes
  <2> QED BY <1>6, <2>1, NextIndexIs DEF Publish, Indexes
<1>7. CASE Kick
  <2>1. wake' \in [Threads -> BOOLEAN]
    BY <1>7 DEF Kick, voodoo_wake_render_thread
  <2> QED BY <1>7, <2>1 DEF Kick
<1>8. CASE BeginIdleWait BY <1>8 DEF BeginIdleWait
<1>9. CASE IdleTest
  <2>1. k < RENDER_THREADS /\ (k + 1 < RENDER_THREADS \/ k + 1 = RENDER_THREADS)
    BY <1>9 DEF IdleTest
  <2>2. /\ fifo' \in {"empty", "busy", "idle"}
        /\ k' = 0 \/ (k' = k + 1 /\ k + 1 < RENDER_THREADS)
        /\ wake' \in [Threads -> BOOLEAN]
    BY <1>9, <2>1 DEF IdleTest, voodoo_wake_render_thread
  <2> QED BY <1>9, <2>1, <2>2 DEF IdleTest
<1>10. CASE Close BY <1>10 DEF Close
<1>11. CASE StopThread
  <2>1. /\ (fifo' = "join" /\ k < RENDER_THREADS) \/ fifo' = "closed"
        /\ wake' \in [Threads -> BOOLEAN] /\ run' \in [Threads -> BOOLEAN]
    BY <1>11 DEF StopThread
  <2> QED BY <1>11, <2>1 DEF StopThread
<1>12. CASE Join BY <1>12 DEF Join
<1>13. ASSUME NEW t \in Threads, RenderThread(t) PROVE TypeOK' /\ LoopCounter'
  <2>1. CASE Top(t) BY <2>1 DEF Top, Go
  <2>2. CASE Wait(t) BY <2>2 DEF Wait, Go
  <2>3. CASE ResetWake(t) BY <2>3 DEF ResetWake, Go
  <2>4. CASE TestEmpty(t) BY <2>4 DEF TestEmpty, Go
  <2>5. CASE Draw(t) BY <2>5 DEF Draw, Go
  <2>6. CASE Advance(t)
    <3>1. read[t] \in Indexes BY DEF Indexes
    <3> QED BY <2>6, <3>1, NextIndexIs DEF Advance, Go, Indexes
  <2>7. CASE Signal(t) BY <2>7 DEF Signal, Go
  <2>8. CASE ClearBusy(t) BY <2>8 DEF ClearBusy, Go
  <2> QED BY <1>13, <2>1, <2>2, <2>3, <2>4, <2>5, <2>6, <2>7, <2>8 DEF RenderThread
<1>14. CASE UNCHANGED vars BY <1>14 DEF vars
<1> QED
  BY <1>1, <1>2, <1>3, <1>4, <1>5, <1>6, <1>7, <1>8, <1>9, <1>10, <1>11, <1>12, <1>13, <1>14
     DEF Next, FifoThread

-----------------------------------------------------------------------------
(* The ring.                                                                *)

RingInv == Room /\ DrawsQueued /\ Kept /\ Stored /\ FoundEmpty

(* An action of the FIFO thread that leaves the ring and the render threads *)
(* alone keeps the invariant unless it claims new room or empty queues.     *)
LEMMA FifoMovesOn ==
  ASSUME RingInv, UNCHANGED <<ringVars, busy, rend>>,
         fifo' \notin {"store", "publish"}, FoundEmpty'
  PROVE  RingInv'
BY DEF RingInv, Room, DrawsQueued, Kept, Stored, PARAM_EMPTY, ringVars

(* A step of a render thread between two looks at the ring. *)
LEMMA RenderMovesOn ==
  ASSUME TypeOK, RingInv, UNCHANGED <<ringVars, fifoVars>>, DrawsQueued'
  PROVE  RingInv'
BY DEF RingInv, Room, Kept, Stored, FoundEmpty, PARAM_EMPTY, ringVars, fifoVars

LEMMA RingStep ==
  ASSUME IInv, [Next]_vars
  PROVE  RingInv'
<1> USE DEF IInv
<1>i. RingInv BY DEF RingInv
<1>r. /\ write \in Indexes /\ \A t \in Threads : read[t] \in Indexes
      /\ read \in [Threads -> Indexes] /\ params \in [Slots -> Indexes]
      /\ busy \in [Threads -> BOOLEAN] /\ DOMAIN rend = Threads
      /\ k \in 0 .. RENDER_THREADS
  BY DEF TypeOK, Indexes, Slots
<1>1. CASE QueueTriangle
  <2>1. FoundEmpty' BY <1>1 DEF QueueTriangle, FoundEmpty
  <2> QED BY <1>1, <1>i, <2>1, FifoMovesOn DEF QueueTriangle
<1>2. CASE TestFull
  <2>1. CASE \E t \in Threads : PARAM_FULL(t)
    <3>1. fifo' = "room" BY <1>2, <2>1 DEF TestFull
    <3>2. FoundEmpty' BY <3>1 DEF FoundEmpty
    <3> QED BY <1>2, <1>i, <3>1, <3>2, FifoMovesOn DEF TestFull
  <2>2. CASE ~ \E t \in Threads : PARAM_FULL(t)
    <3>1. \A t \in Threads : Ahead(write, read[t]) < PARAM_SIZE
      <4>1. \A t \in Threads : Ahead(write, read[t]) \in 0 .. IDX - 1 BY <1>r, AheadMoves
      <4> QED BY <2>2, <4>1, Entries, Sizes DEF PARAM_FULL
    <3>2. fifo' = "store" BY <1>2, <2>2 DEF TestFull
    <3>3. Room' BY <1>2, <1>i, <3>1 DEF TestFull, RingInv, Room, ringVars
    <3> QED BY <1>2, <1>i, <3>2, <3>3
            DEF TestFull, RingInv, DrawsQueued, Kept, Stored, FoundEmpty, PARAM_EMPTY, ringVars
  <2> QED BY <2>1, <2>2
<1>3. CASE TestRoom
  <2>1. fifo' \in {"full", "wait", "room"}
    <3>1. k = RENDER_THREADS \/ k < RENDER_THREADS BY <1>r, Sizes
    <3> QED BY <1>3, <3>1 DEF TestRoom
  <2>2. FoundEmpty' BY <2>1 DEF FoundEmpty
  <2> QED BY <1>3, <1>i, <2>1, <2>2, FifoMovesOn DEF TestRoom
<1>4. CASE WaitNotFull
  <2>1. FoundEmpty' BY <1>4 DEF WaitNotFull, FoundEmpty
  <2> QED BY <1>4, <1>i, <2>1, FifoMovesOn DEF WaitNotFull
<1>5. CASE StoreParams
  <2>1. params' = [params EXCEPT ![Slot(write)] = write] /\ Slot(write) \in Slots
    BY <1>5, <1>r, SlotIs DEF StoreParams
  <2>2. Kept'
    <3> SUFFICES ASSUME NEW t \in Threads, NEW n \in Indexes,
                        Ahead(n, read[t]) < Ahead(write, read[t])
                 PROVE  params'[Slot(n)] = n
      BY <1>5 DEF StoreParams, Kept
    <3>1. Slot(n) # Slot(write)
      BY <1>5, <1>r, <1>i, AheadTells DEF StoreParams, RingInv, Room
    <3>2. params[Slot(n)] = n BY <1>i DEF RingInv, Kept
    <3> QED BY <1>r, <2>1, <3>1, <3>2, SlotIs
  <2>3. Stored' BY <1>5, <1>r, <2>1 DEF StoreParams, Stored
  <2> QED BY <1>5, <1>i, <2>2, <2>3
          DEF StoreParams, RingInv, Room, DrawsQueued, FoundEmpty, PARAM_EMPTY
<1>6. CASE Publish
  <2>1. \A t \in Threads : Ahead(write', read[t]) = Ahead(write, read[t]) + 1
    BY <1>6, <1>r, <1>i, AheadMoves DEF Publish, RingInv, Room
  <2>2. \A t \in Threads : Ahead(write, read[t]) \in 0 .. IDX - 1 BY <1>r, AheadMoves
  <2>3. Room' BY <1>6, <1>i, <2>1, <2>2, Sizes DEF Publish, RingInv, Room
  <2>4. DrawsQueued'
    <3>1. \A t \in Threads : write' # read[t]
      <4>1. write' \in Indexes BY <1>6, <1>r, NextIndexIs DEF Publish
      <4> QED BY <1>r, <2>1, <2>2, <4>1, AheadMoves, Sizes
    <3> QED BY <1>6, <1>i, <3>1 DEF Publish, RingInv, DrawsQueued, PARAM_EMPTY
  <2>5. Kept'
    <3> SUFFICES ASSUME NEW t \in Threads, NEW n \in Indexes,
                        Ahead(n, read[t]) < Ahead(write, read[t]) + 1
                 PROVE  params[Slot(n)] = n
      BY <1>6, <2>1 DEF Publish, Kept
    <3>1. Ahead(n, read[t]) \in 0 .. IDX - 1 BY <1>r, AheadMoves
    <3>2. Ahead(n, read[t]) < Ahead(write, read[t]) \/ Ahead(n, read[t]) = Ahead(write, read[t])
      BY <2>2, <3>1, Sizes
    <3>3. CASE Ahead(n, read[t]) = Ahead(write, read[t])
      <4>1. n = write BY <1>r, <3>3, AheadTells
      <4> QED BY <1>6, <1>i, <4>1 DEF Publish, RingInv, Stored
    <3> QED BY <1>i, <3>2, <3>3 DEF RingInv, Kept
  <2> QED BY <1>6, <2>3, <2>4, <2>5 DEF Publish, RingInv, Stored, FoundEmpty
<1>7. CASE Kick
  <2>1. FoundEmpty' BY <1>7 DEF Kick, FoundEmpty
  <2> QED BY <1>7, <1>i, <2>1, FifoMovesOn DEF Kick
<1>8. CASE BeginIdleWait
  <2>1. FoundEmpty' BY <1>8, Sizes DEF BeginIdleWait, FoundEmpty
  <2> QED BY <1>8, <1>i, <2>1, FifoMovesOn DEF BeginIdleWait
<1>9. CASE IdleTest
  <2>1. k \in Threads /\ (k + 1 < RENDER_THREADS \/ k + 1 = RENDER_THREADS)
    BY <1>9, <1>r, Sizes DEF IdleTest, LoopCounter
  <2> DEFINE idle == IF fifo = "empty" THEN QueueEmpty(k) ELSE ~busy[k]
  <2>b. idle \in BOOLEAN BY <1>r, <2>1 DEF QueueEmpty, PARAM_EMPTY
  <2>c. (k + 1 < RENDER_THREADS) # (k + 1 = RENDER_THREADS) BY <1>r, <2>1, Sizes
  <2>a. /\ ~idle => fifo' = "empty" /\ k' = 0
        /\ idle /\ k + 1 < RENDER_THREADS => k' = k + 1 /\ UNCHANGED <<wake, fifo>>
        /\ idle /\ k + 1 = RENDER_THREADS =>
              fifo' = (IF fifo = "empty" THEN "busy" ELSE "idle") /\ k' = 0
    <3>1. CASE fifo = "empty" BY <1>9, <2>c, <3>1 DEF IdleTest, QueueEmpty, PARAM_EMPTY
    <3>2. CASE fifo = "busy" BY <1>9, <2>c, <3>2, <1>r DEF IdleTest
    <3> QED BY <1>9, <3>1, <3>2 DEF IdleTest
  <2> HIDE DEF idle
  <2>2. fifo' \in {"empty", "busy", "idle"}
    BY <1>9, <2>1 DEF IdleTest
  <2>3. FoundEmpty'
    <3>1. CASE ~idle
      <4>1. fifo' = "empty" /\ k' = 0 BY <2>a, <2>b, <3>1
      <4> QED BY <4>1, Sizes DEF FoundEmpty
    <3>2. CASE idle /\ k + 1 < RENDER_THREADS
      <4>1. k' = k + 1 /\ fifo' = fifo
        BY <1>r, <2>a, <2>b, <3>2, Sizes
      <4>2. \A t \in Threads : t < k + 1 <=> (t < k \/ t = k) BY <2>1, Sizes
      <4> QED BY <1>9, <1>i, <3>2, <4>1, <4>2
              DEF IdleTest, RingInv, FoundEmpty, QueueEmpty, PARAM_EMPTY, ringVars, idle
    <3>3. CASE idle /\ k + 1 = RENDER_THREADS
      <4>1. fifo' = IF fifo = "empty" THEN "busy" ELSE "idle"
        BY <1>r, <2>a, <2>b, <3>3, Sizes
      <4>2. \A t \in Threads : t < k \/ t = k BY <2>1, <3>3, Sizes
      <4> QED BY <1>9, <1>i, <3>3, <4>1, <4>2
              DEF IdleTest, RingInv, FoundEmpty, QueueEmpty, PARAM_EMPTY, ringVars, idle
    <3> QED BY <2>1, <3>1, <3>2, <3>3
  <2> QED BY <1>9, <1>i, <2>2, <2>3, FifoMovesOn DEF IdleTest
<1>10. CASE Close
  <2>1. FoundEmpty' BY <1>10 DEF Close, FoundEmpty
  <2> QED BY <1>10, <1>i, <2>1, FifoMovesOn DEF Close
<1>11. CASE StopThread
  <2>1. fifo' \in {"join", "closed"} BY <1>11 DEF StopThread
  <2>2. FoundEmpty' BY <2>1 DEF FoundEmpty
  <2> QED BY <1>11, <1>i, <2>1, <2>2, FifoMovesOn DEF StopThread
<1>12. CASE Join
  <2>1. FoundEmpty' BY <1>12 DEF Join, FoundEmpty
  <2> QED BY <1>12, <1>i, <2>1, FifoMovesOn DEF Join
<1>13. ASSUME NEW t \in Threads, RenderThread(t) PROVE RingInv'
  <2> USE DEF Go
  <2>1. CASE Top(t)
    <3>1. DrawsQueued' BY <1>r, <1>i, <2>1 DEF Top, RingInv, DrawsQueued, PARAM_EMPTY, ringVars
    <3> QED BY <1>i, <2>1, <3>1, RenderMovesOn DEF Top
  <2>2. CASE Wait(t)
    <3>1. DrawsQueued' BY <1>r, <1>i, <2>2 DEF Wait, RingInv, DrawsQueued, PARAM_EMPTY, ringVars
    <3> QED BY <1>i, <2>2, <3>1, RenderMovesOn DEF Wait
  <2>3. CASE ResetWake(t)
    <3>1. DrawsQueued' BY <1>r, <1>i, <2>3 DEF ResetWake, RingInv, DrawsQueued, PARAM_EMPTY, ringVars
    <3> QED BY <1>i, <2>3, <3>1, RenderMovesOn DEF ResetWake
  <2>4. CASE TestEmpty(t)
    <3>1. DrawsQueued' BY <1>r, <1>i, <2>4 DEF TestEmpty, RingInv, DrawsQueued, PARAM_EMPTY, ringVars
    <3> QED BY <1>i, <2>4, <3>1, RenderMovesOn DEF TestEmpty
  <2>5. CASE Draw(t)
    <3>1. DrawsQueued' BY <1>r, <1>i, <2>5 DEF Draw, RingInv, DrawsQueued, PARAM_EMPTY, ringVars
    <3> QED BY <1>i, <2>5, <3>1, RenderMovesOn DEF Draw
  <2>6. CASE Advance(t)
    <3>1. write # read[t] BY <1>i, <2>6 DEF Advance, RingInv, DrawsQueued, PARAM_EMPTY
    <3>2. /\ read'[t] = NextIndex(read[t]) /\ read'[t] \in Indexes
          /\ \A u \in Threads \ {t} : read'[u] = read[u]
      BY <1>r, <2>6, NextIndexIs DEF Advance
    <3>3. Ahead(write, read'[t]) = Ahead(write, read[t]) - 1
      BY <1>r, <3>1, <3>2, AheadMoves
    <3>4. Ahead(write, read[t]) \in 0 .. IDX - 1 BY <1>r, AheadMoves
    <3>5. Room' 
      <4>1. \A u \in Threads : Ahead(write, read'[u]) <= Ahead(write, read[u])
                               /\ Ahead(write, read'[u]) \in Int /\ Ahead(write, read[u]) \in Int
        <5>1. \A u \in Threads : Ahead(write, read[u]) \in 0 .. IDX - 1 BY <1>r, AheadMoves
        <5> QED BY <3>2, <3>3, <3>4, <5>1, Sizes
      <4> QED BY <1>i, <2>6, <4>1, Sizes DEF Advance, fifoVars, RingInv, Room
    <3>6. DrawsQueued' BY <1>r, <1>i, <2>6, <3>2 DEF Advance, RingInv, DrawsQueued, PARAM_EMPTY
    <3>7. Kept'
      <4> SUFFICES ASSUME NEW u \in Threads, NEW n \in Indexes,
                          Ahead(n, read'[u]) < Ahead(write, read'[u])
                   PROVE  params[Slot(n)] = n
        BY <2>6 DEF Advance, Kept
      <4>1. CASE u # t BY <1>i, <3>2, <4>1 DEF RingInv, Kept
      <4>2. CASE u = t
        <5>1. n # read[t]
          <6>1. Ahead(read[t], read'[t]) = IDX - 1 BY <1>r, <3>2, AheadMoves
          <6> QED BY <3>3, <3>4, <4>2, <6>1, Sizes
        <5>2. Ahead(n, read'[t]) = Ahead(n, read[t]) - 1 BY <1>r, <3>2, <5>1, AheadMoves
        <5>3. Ahead(n, read[t]) \in 0 .. IDX - 1 BY <1>r, AheadMoves
        <5>4. Ahead(n, read[t]) < Ahead(write, read[t])
          BY <3>3, <3>4, <4>2, <5>2, <5>3, Sizes
        <5> QED BY <1>i, <5>4 DEF RingInv, Kept
      <4> QED BY <4>1, <4>2
    <3>8. Stored' BY <1>i, <2>6 DEF Advance, fifoVars, RingInv, Stored
    <3>9. FoundEmpty' BY <1>i, <2>6, <3>1, <3>2 DEF Advance, fifoVars, RingInv, FoundEmpty, PARAM_EMPTY
    <3> QED BY <3>5, <3>6, <3>7, <3>8, <3>9 DEF RingInv
  <2>7. CASE Signal(t)
    <3>1. DrawsQueued' BY <1>r, <1>i, <2>7 DEF Signal, RingInv, DrawsQueued, PARAM_EMPTY, ringVars
    <3> QED BY <1>i, <2>7, <3>1, RenderMovesOn DEF Signal
  <2>8. CASE ClearBusy(t)
    <3>1. DrawsQueued' BY <1>r, <1>i, <2>8 DEF ClearBusy, RingInv, DrawsQueued, PARAM_EMPTY, ringVars
    <3> QED BY <1>i, <2>8, <3>1, RenderMovesOn DEF ClearBusy
  <2> QED BY <1>13, <2>1, <2>2, <2>3, <2>4, <2>5, <2>6, <2>7, <2>8 DEF RenderThread
<1>14. CASE UNCHANGED vars
  BY <1>i, <1>14
     DEF vars, ringVars, fifoVars, RingInv, Room, DrawsQueued, Kept, Stored, FoundEmpty, PARAM_EMPTY
<1> QED
  BY <1>1, <1>2, <1>3, <1>4, <1>5, <1>6, <1>7, <1>8, <1>9, <1>10, <1>11, <1>12, <1>13, <1>14
     DEF Next, FifoThread

LEMMA InitInv == Init => IInv
<1> SUFFICES ASSUME Init PROVE IInv OBVIOUS
<1>1. TypeOK /\ LoopCounter BY Sizes DEF Init, TypeOK, LoopCounter
<1>2. Ahead(0, 0) = 0 BY Sizes DEF Ahead
<1>3. \A n \in Indexes : Ahead(n, 0) \in 0 .. IDX - 1
  <2>1. 0 \in Indexes BY Sizes DEF Indexes
  <2> QED BY <2>1, AheadMoves
<1>4. Room BY <1>2, Sizes DEF Init, Room
<1>5. Kept BY <1>2, <1>3, Sizes DEF Init, Kept
<1> QED BY <1>1, <1>4, <1>5 DEF Init, IInv, DrawsQueued, Stored, FoundEmpty

LEMMA NextInv == IInv /\ [Next]_vars => IInv'
BY TypeStep, RingStep DEF IInv, RingInv

LEMMA Invariance == Spec => []IInv
BY InitInv, NextInv, PTL DEF Spec

-----------------------------------------------------------------------------
(* The wake-ups.                                                            *)

Behind(t) == Ahead(write, read[t])

(* A thread that will sleep has at most the triangle just published before  *)
(* it, which is why waking the threads below two entries is enough.         *)
Sleepers ==
  \A t \in Threads :
    rend[t] \in {"unbusy", "top", "wait"} /\ ~wake[t]
      => Behind(t) = 0 \/ (fifo = "kick" /\ Behind(t) = 1)

(* A thread that is waited for is a whole ring behind until it moves on by  *)
(* one, and then it reports: a slack of two is enough.                      *)
FullWait ==
  fifo = "wait" /\ ~notFull[k]
    => Behind(k) = PARAM_SIZE \/ (rend[k] = "signal" /\ Behind(k) = PARAM_SIZE - 1)

Joined == fifo = "join" => ~run[k] /\ (rend[k] = "wait" => wake[k])

WakeInv == Sleepers /\ FullWait /\ Joined

(* A step of the FIFO thread that queues nothing and may wake threads. *)
LEMMA FifoWakes ==
  ASSUME Sleepers, UNCHANGED <<ringVars, rend>>, fifo # "kick",
         \A t \in Threads : wake[t] => wake'[t]
  PROVE  Sleepers'
BY DEF Sleepers, Behind, ringVars

LEMMA WakeStep ==
  ASSUME IInv, WakeInv, [Next]_vars
  PROVE  WakeInv'
<1>r. /\ write \in Indexes /\ \A t \in Threads : read[t] \in Indexes
      /\ read \in [Threads -> Indexes] /\ rend \in [Threads -> {"top", "wait", "reset", "test", "next",
                                                     "signal", "unbusy", "ended"}]
      /\ wake \in [Threads -> BOOLEAN] /\ notFull \in [Threads -> BOOLEAN]
      /\ run \in [Threads -> BOOLEAN] /\ k \in 0 .. RENDER_THREADS
      /\ WAKE_BELOW \in Nat /\ WAKE_BELOW > 1 /\ SLACK \in Nat /\ SLACK > 1
  BY VoodooRenderAssumption DEF IInv, TypeOK, Indexes
<1>b. \A t \in Threads : Behind(t) \in 0 .. IDX - 1 /\ Behind(t) <= PARAM_SIZE
                         /\ PARAM_ENTRIES(t) = Behind(t) /\ (PARAM_EMPTY(t) <=> Behind(t) = 0)
  <2>1. \A t \in Threads : Behind(t) \in 0 .. IDX - 1 /\ (Behind(t) = 0 <=> write = read[t])
    BY <1>r, AheadMoves DEF Behind
  <2>2. \A t \in Threads : Behind(t) <= PARAM_SIZE BY DEF Behind, IInv, Room
  <2>3. \A t \in Threads : PARAM_ENTRIES(t) = Behind(t) BY Entries DEF Behind, IInv
  <2> QED BY <2>1, <2>2, <2>3 DEF PARAM_EMPTY
<1>k. fifo \in {"wait", "join"} => k \in Threads
  BY <1>r, Sizes DEF IInv, LoopCounter
<1>w. Sleepers /\ FullWait /\ Joined BY DEF WakeInv
<1>1. CASE QueueTriangle
  <2>1. Sleepers' BY <1>1, <1>w, FifoWakes DEF QueueTriangle, eventVars
  <2> QED BY <1>1, <2>1 DEF QueueTriangle, WakeInv, FullWait, Joined
<1>2. CASE TestFull
  <2>1. Sleepers' BY <1>2, <1>w, FifoWakes DEF TestFull
  <2>2. fifo' \in {"room", "store"} BY <1>2 DEF TestFull
  <2> QED BY <2>1, <2>2 DEF WakeInv, FullWait, Joined
<1>3. CASE TestRoom
  <2>1. Sleepers' BY <1>3, <1>w, FifoWakes DEF TestRoom, eventVars
  <2>2. k = RENDER_THREADS \/ k \in Threads BY <1>r, Sizes
  <2>3. \/ fifo' \in {"full", "room"}
        \/ fifo' = "wait" /\ k' = k /\ PARAM_FULL(k) /\ k \in Threads
    <3>1. CASE k = RENDER_THREADS
      <4>1. ~(k < RENDER_THREADS) BY <3>1, Sizes
      <4> QED BY <1>3, <3>1, <4>1 DEF TestRoom
    <3>2. CASE k \in Threads /\ PARAM_FULL(k)
      <4>1. k # RENDER_THREADS /\ k < RENDER_THREADS BY <3>2, Sizes
      <4> QED BY <1>3, <3>2, <4>1 DEF TestRoom
    <3>3. CASE k \in Threads /\ ~PARAM_FULL(k)
      <4>1. k # RENDER_THREADS /\ k < RENDER_THREADS BY <3>3, Sizes
      <4> QED BY <1>3, <3>3, <4>1 DEF TestRoom
    <3> QED BY <2>2, <3>1, <3>2, <3>3
  <2>4. FullWait'
    <3>1. CASE fifo' = "wait"
      <4>1. Behind(k) = PARAM_SIZE BY <1>b, <2>3, <3>1, Sizes DEF PARAM_FULL
      <4>2. Behind(k)' = Behind(k) BY <1>3, <2>3, <3>1 DEF TestRoom, ringVars, Behind
      <4> QED BY <2>3, <3>1, <4>1, <4>2 DEF FullWait
    <3> QED BY <2>3, <3>1 DEF FullWait
  <2> QED BY <2>1, <2>3, <2>4 DEF WakeInv, Joined
<1>4. CASE WaitNotFull
  <2>1. Sleepers' BY <1>4, <1>w, FifoWakes DEF WaitNotFull, eventVars
  <2> QED BY <1>4, <2>1 DEF WaitNotFull, WakeInv, FullWait, Joined
<1>5. CASE StoreParams
  <2>1. Sleepers' BY <1>5, <1>w DEF StoreParams, eventVars, Sleepers, Behind
  <2> QED BY <1>5, <2>1 DEF StoreParams, WakeInv, FullWait, Joined
<1>6. CASE Publish
  <2>1. \A t \in Threads : Behind(t)' = Behind(t) + 1
    BY <1>6, <1>r, AheadMoves DEF Publish, Behind, IInv, Room
  <2>2. Sleepers' BY <1>6, <1>w, <2>1 DEF Publish, eventVars, Sleepers
  <2> QED BY <1>6, <2>2 DEF Publish, WakeInv, FullWait, Joined
<1>7. CASE Kick
  <2>1. CASE NearlyEmpty
    <3>1. \A t \in Threads : wake'[t] BY <1>7, <2>1 DEF Kick, voodoo_wake_render_thread
    <3> QED BY <1>7, <3>1 DEF Kick, WakeInv, Sleepers, FullWait, Joined
  <2>2. CASE ~NearlyEmpty
    <3>1. \A t \in Threads : Behind(t) > 1 BY <1>b, <1>r, <2>2, Sizes DEF NearlyEmpty
    <3>2. \A t \in Threads : Behind(t) # 0 /\ Behind(t) # 1 BY <1>b, <3>1
    <3>3. wake' = wake /\ rend' = rend /\ fifo' = "idle" BY <1>7, <2>2 DEF Kick
    <3> QED BY <1>w, <3>2, <3>3 DEF WakeInv, Sleepers, FullWait, Joined
  <2> QED BY <2>1, <2>2
<1>8. CASE BeginIdleWait
  <2>1. Sleepers' BY <1>8, <1>w, FifoWakes DEF BeginIdleWait, eventVars
  <2> QED BY <1>8, <2>1 DEF BeginIdleWait, WakeInv, FullWait, Joined
<1>9. CASE IdleTest
  <2>1. k + 1 < RENDER_THREADS \/ k + 1 = RENDER_THREADS
    BY <1>9, <1>r, Sizes DEF IdleTest, IInv, LoopCounter
  <2>2. fifo' \in {"empty", "busy", "idle"} /\ (wake' = wake \/ voodoo_wake_render_thread)
    BY <1>9, <2>1 DEF IdleTest
  <2>3. \A t \in Threads : wake[t] => wake'[t] BY <2>2 DEF voodoo_wake_render_thread
  <2>4. Sleepers' BY <1>9, <1>w, <2>3, FifoWakes DEF IdleTest
  <2> QED BY <2>2, <2>4 DEF WakeInv, FullWait, Joined
<1>10. CASE Close
  <2>1. Sleepers' BY <1>10, <1>w, FifoWakes DEF Close, eventVars
  <2> QED BY <1>10, <2>1 DEF Close, WakeInv, FullWait, Joined
<1>11. CASE StopThread
  <2>1. CASE k < RENDER_THREADS
    <3>1. k \in Threads BY <1>r, <2>1, Sizes
    <3>2. /\ run' = [run EXCEPT ![k] = FALSE] /\ wake' = [wake EXCEPT ![k] = TRUE]
          /\ fifo' = "join" /\ k' = k
      BY <1>11, <2>1 DEF StopThread
    <3>3. \A t \in Threads : wake[t] => wake'[t] BY <1>r, <3>2
    <3>4. Sleepers' BY <1>11, <1>w, <3>3, FifoWakes DEF StopThread
    <3>5. ~run'[k] /\ wake'[k] BY <1>r, <3>1, <3>2
    <3> QED BY <3>2, <3>4, <3>5 DEF WakeInv, FullWait, Joined
  <2>2. CASE ~(k < RENDER_THREADS)
    <3>1. fifo' = "closed" /\ wake' = wake BY <1>11, <2>2 DEF StopThread
    <3>2. Sleepers' BY <1>11, <1>w, <3>1, FifoWakes DEF StopThread
    <3> QED BY <3>1, <3>2 DEF WakeInv, FullWait, Joined
  <2> QED BY <2>1, <2>2
<1>12. CASE Join
  <2>1. Sleepers' BY <1>12, <1>w, FifoWakes DEF Join, eventVars
  <2> QED BY <1>12, <2>1 DEF Join, WakeInv, FullWait, Joined
<1>13. ASSUME NEW t \in Threads, RenderThread(t) PROVE WakeInv'
  <2> USE DEF Go
  <2>a. ASSUME UNCHANGED ringVars PROVE \A u \in Threads : Behind(u)' = Behind(u)
    BY <2>a DEF Behind, ringVars
  <2>1. CASE Top(t)
    <3>1. \A u \in Threads : Behind(u)' = Behind(u) BY <2>1, <2>a DEF Top
    <3>2. Sleepers' BY <1>r, <1>w, <2>1, <3>1 DEF Top, fifoVars, Sleepers
    <3>3. FullWait' BY <1>r, <1>k, <1>w, <2>1, <3>1 DEF Top, fifoVars, FullWait
    <3>4. Joined' BY <1>r, <1>k, <1>w, <2>1 DEF Top, fifoVars, Joined
    <3> QED BY <3>2, <3>3, <3>4 DEF WakeInv
  <2>2. CASE Wait(t)
    <3>1. \A u \in Threads : Behind(u)' = Behind(u) BY <2>2, <2>a DEF Wait
    <3>2. Sleepers' BY <1>r, <1>w, <2>2, <3>1 DEF Wait, eventVars, fifoVars, Sleepers
    <3>3. FullWait' BY <1>r, <1>k, <1>w, <2>2, <3>1 DEF Wait, eventVars, fifoVars, FullWait
    <3>4. Joined' BY <1>r, <1>k, <1>w, <2>2 DEF Wait, eventVars, fifoVars, Joined
    <3> QED BY <3>2, <3>3, <3>4 DEF WakeInv
  <2>3. CASE ResetWake(t)
    <3>1. \A u \in Threads : Behind(u)' = Behind(u) BY <2>3, <2>a DEF ResetWake
    <3>2. Sleepers' BY <1>r, <1>w, <2>3, <3>1 DEF ResetWake, fifoVars, Sleepers
    <3>3. FullWait' BY <1>r, <1>k, <1>w, <2>3, <3>1 DEF ResetWake, fifoVars, FullWait
    <3>4. Joined' BY <1>r, <1>k, <1>w, <2>3 DEF ResetWake, fifoVars, Joined
    <3> QED BY <3>2, <3>3, <3>4 DEF WakeInv
  <2>4. CASE TestEmpty(t)
    <3>1. \A u \in Threads : Behind(u)' = Behind(u) BY <2>4, <2>a DEF TestEmpty
    <3>2. Behind(t) = 0 BY <1>b, <2>4 DEF TestEmpty
    <3>3. Sleepers' BY <1>r, <1>w, <2>4, <3>1, <3>2 DEF TestEmpty, eventVars, fifoVars, Sleepers
    <3>4. FullWait' BY <1>r, <1>k, <1>w, <2>4, <3>1 DEF TestEmpty, eventVars, fifoVars, FullWait
    <3>5. Joined' BY <1>r, <1>k, <1>w, <2>4 DEF TestEmpty, eventVars, fifoVars, Joined
    <3> QED BY <3>3, <3>4, <3>5 DEF WakeInv
  <2>5. CASE Draw(t)
    <3>1. \A u \in Threads : Behind(u)' = Behind(u) BY <2>5, <2>a DEF Draw
    <3>2. Sleepers' BY <1>r, <1>w, <2>5, <3>1 DEF Draw, eventVars, fifoVars, Sleepers
    <3>3. FullWait' BY <1>r, <1>k, <1>w, <2>5, <3>1 DEF Draw, eventVars, fifoVars, FullWait
    <3>4. Joined' BY <1>r, <1>k, <1>w, <2>5 DEF Draw, eventVars, fifoVars, Joined
    <3> QED BY <3>2, <3>3, <3>4 DEF WakeInv
  <2>6. CASE Advance(t)
    <3>1. write # read[t] BY <2>6 DEF Advance, IInv, DrawsQueued, PARAM_EMPTY
    <3>2. read'[t] = NextIndex(read[t]) /\ \A u \in Threads \ {t} : read'[u] = read[u]
      BY <1>r, <2>6 DEF Advance
    <3>3. Behind(t)' = Behind(t) - 1
      BY <1>r, <2>6, <3>1, <3>2, AheadMoves DEF Advance, Behind
    <3>4. \A u \in Threads \ {t} : Behind(u)' = Behind(u)
      BY <2>6, <3>2 DEF Advance, Behind
    <3>5. /\ rend[t] = "next" /\ rend'[t] = "signal"
          /\ \A u \in Threads \ {t} : rend'[u] = rend[u]
          /\ UNCHANGED <<wake, notFull, run, fifo, k>>
      BY <1>r, <2>6 DEF Advance, eventVars, fifoVars
    <3>6. Sleepers' BY <1>w, <3>4, <3>5 DEF Sleepers
    <3>7. FullWait' BY <1>k, <1>w, <1>b, <3>3, <3>4, <3>5, Sizes DEF FullWait
    <3>8. Joined' BY <1>k, <1>w, <3>5 DEF Joined
    <3> QED BY <3>6, <3>7, <3>8 DEF WakeInv
  <2>7. CASE Signal(t)
    <3>1. \A u \in Threads : Behind(u)' = Behind(u) BY <2>7, <2>a DEF Signal
    <3>2. Sleepers' BY <1>r, <1>w, <2>7, <3>1 DEF Signal, fifoVars, Sleepers
    <3>3. FullWait'
      <4>1. Behind(t) >= PARAM_SIZE - 1 => RoomToReport(t)
        BY <1>b, <1>r, Sizes DEF RoomToReport
      <4>2. Behind(t) \in {PARAM_SIZE, PARAM_SIZE - 1} => notFull'[t]
        BY <1>r, <2>7, <4>1, Sizes DEF Signal
      <4>3. \A u \in Threads \ {t} : notFull'[u] = notFull[u] /\ rend'[u] = rend[u]
        BY <1>r, <2>7 DEF Signal
      <4>4. fifo' = fifo /\ k' = k /\ (notFull[t] => notFull'[t]) BY <1>r, <2>7 DEF Signal, fifoVars
      <4> QED BY <1>k, <1>w, <3>1, <4>2, <4>3, <4>4 DEF FullWait
    <3>4. Joined' BY <1>r, <1>k, <1>w, <2>7 DEF Signal, fifoVars, Joined
    <3> QED BY <3>2, <3>3, <3>4 DEF WakeInv
  <2>8. CASE ClearBusy(t)
    <3>1. \A u \in Threads : Behind(u)' = Behind(u) BY <2>8, <2>a DEF ClearBusy
    <3>2. Sleepers' BY <1>r, <1>w, <2>8, <3>1 DEF ClearBusy, eventVars, fifoVars, Sleepers
    <3>3. FullWait' BY <1>r, <1>k, <1>w, <2>8, <3>1 DEF ClearBusy, eventVars, fifoVars, FullWait
    <3>4. Joined' BY <1>r, <1>k, <1>w, <2>8 DEF ClearBusy, eventVars, fifoVars, Joined
    <3> QED BY <3>2, <3>3, <3>4 DEF WakeInv
  <2> QED BY <1>13, <2>1, <2>2, <2>3, <2>4, <2>5, <2>6, <2>7, <2>8 DEF RenderThread
<1>14. CASE UNCHANGED vars
  BY <1>w, <1>14 DEF vars, ringVars, eventVars, fifoVars, WakeInv, Sleepers, FullWait, Joined, Behind
<1> QED
  BY <1>1, <1>2, <1>3, <1>4, <1>5, <1>6, <1>7, <1>8, <1>9, <1>10, <1>11, <1>12, <1>13, <1>14
     DEF Next, FifoThread

(* What the invariant means for the code's own tests. *)
LEMMA WakeInvMeans == IInv /\ WakeInv => NoLostWakeUp
<1> SUFFICES ASSUME IInv, WakeInv PROVE NoLostWakeUp OBVIOUS
<1>1. \A t \in Threads : Behind(t) = 0 => PARAM_EMPTY(t)
  BY AheadMoves DEF IInv, TypeOK, Indexes, Behind, PARAM_EMPTY
<1>2. ASSUME fifo = "wait", ~notFull[k], rend[k] # "signal" PROVE PARAM_FULL(k)
  <2>1. k \in Threads BY <1>2, Sizes DEF IInv, TypeOK, LoopCounter
  <2>2. Behind(k) = PARAM_SIZE BY <1>2 DEF WakeInv, FullWait
  <2> QED BY <2>1, <2>2, Entries, Sizes DEF IInv, Behind, PARAM_FULL
<1> QED BY <1>1, <1>2 DEF WakeInv, Sleepers, Joined, NoLostWakeUp

-----------------------------------------------------------------------------
(* The triangles a thread still has to draw, in the terms of Kept. *)
LEMMA PendingAhead ==
  ASSUME TypeOK, NEW t \in Threads, NEW n \in Pending(t)
  PROVE  n \in Indexes /\ Ahead(n, read[t]) < Ahead(write, read[t])
<1>1. PICK j \in 0 .. PARAM_SIZE : j < PARAM_ENTRIES(t) /\ n = (read[t] + j) % IDX
  BY DEF Pending
<1>2. read[t] \in 0 .. IDX - 1 /\ write \in 0 .. IDX - 1 BY DEF TypeOK
<1>3. j < Ahead(write, read[t]) /\ Ahead(write, read[t]) \in 0 .. IDX - 1
  BY <1>1, <1>2, Entries, AheadMoves DEF Indexes
<1> DEFINE x == read[t] + j
<1>4. x \in 0 .. 2 * IDX - 1 BY <1>2, Sizes
<1> HIDE DEF x
<1>5. x % IDX = IF x < IDX THEN x ELSE x - IDX BY <1>4, Sizes, SmallRemainder
<1>6. n = IF x < IDX THEN x ELSE x - IDX BY <1>1, <1>5 DEF x
<1>7. n \in Indexes /\ Ahead(n, read[t]) = j
  BY <1>2, <1>4, <1>6, Sizes, SMTT(30) DEF x, Ahead, Indexes
<1> QED BY <1>3, <1>7

(* Every variable keeps its type: the indexes stay in range although they   *)
(* are only ever incremented, and no loop of voodoo_queue_triangle or       *)
(* voodoo_wait_for_render_thread_idle looks at a thread that is not there.  *)
THEOREM TypeCorrect == Spec => []TypeOK
<1>1. IInv => TypeOK BY DEF IInv
<1> QED BY Invariance, <1>1, PTL

(* voodoo_queue_triangle never overwrites a triangle that some render       *)
(* thread has still to draw, for a ring of any size.                        *)
THEOREM RingCorrect == Spec => []NotOverwritten
<1>1. ASSUME IInv PROVE NotOverwritten
  <2> SUFFICES ASSUME NEW t \in Threads, NEW n \in Pending(t)
               PROVE  params[n % PARAM_SIZE] = n
    BY <1>1 DEF NotOverwritten, IInv
  <2>1. n \in Indexes /\ Ahead(n, read[t]) < Ahead(write, read[t])
    BY <1>1, PendingAhead DEF IInv
  <2>2. params[Slot(n)] = n BY <1>1, <2>1 DEF IInv, Kept
  <2> QED BY <2>1, <2>2, SlotIs
<1> QED BY Invariance, <1>1, PTL

(* When voodoo_wait_for_render_thread_idle returns every queue is empty and *)
(* no thread is drawing: what the first of its two loops found is still     *)
(* true after the second.                                                   *)
THEOREM IdleCorrect == Spec => IdleMeansDrawn
<1>1. IInv => [fifo = "busy" /\ fifo' = "idle"
                 => \A t \in Threads : PARAM_EMPTY(t) /\ rend[t] # "next"]_vars
  BY DEF IInv, FoundEmpty, DrawsQueued
<1> QED BY Invariance, <1>1, PTL DEF IdleMeansDrawn
(* No wake-up between the FIFO thread and the render threads is lost, for a *)
(* ring of any size: voodoo_queue_triangle wakes whoever sleeps over what   *)
(* it queued, a thread that is waited for reports the first slot it frees,  *)
(* and voodoo_card_close joins no sleeping thread.                          *)
THEOREM WakeUpsCorrect == Spec => []NoLostWakeUp
<1>1. Init => WakeInv
  <2> SUFFICES ASSUME Init PROVE WakeInv OBVIOUS
  <2>1. \A t \in Threads : Behind(t) = 0 BY Sizes DEF Init, Behind, Ahead
  <2> QED BY <2>1 DEF Init, WakeInv, Sleepers, FullWait, Joined
<1>2. IInv /\ WakeInv /\ [Next]_vars => WakeInv' BY WakeStep
<1> QED BY Invariance, WakeInvMeans, <1>1, <1>2, PTL DEF Spec
=============================================================================
