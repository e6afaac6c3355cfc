---------------------------- MODULE VoodooRender ----------------------------
(***************************************************************************)
(* The triangle ring of a Voodoo card (video/vid_voodoo_render.c).         *)
(*                                                                         *)
(* The FIFO thread queues triangles, waits for the renderers to be idle    *)
(* before it touches pixels itself, and is finally stopped with them by    *)
(* voodoo_card_close.  Every render thread draws its scan lines of every   *)
(* triangle: there is one ring, one write index and one read index per     *)
(* render thread.  The threads sleep on events that stay set until they    *)
(* are reset.                                                              *)
(*                                                                         *)
(* The indexes run modulo IDX as C's run modulo 2^32.  A triangle is its   *)
(* number; VoodooTexture adds what it is drawn with.                       *)
(***************************************************************************)
EXTENDS Naturals

CONSTANTS
  RENDER_THREADS,  \* render_threads
  PARAM_SIZE,      \* slots of the ring (1024)
  WAKE_BELOW,      \* threads are woken when one has fewer entries (4)
  SLACK            \* and report room above PARAM_SIZE - SLACK entries (10)

ASSUME VoodooRenderAssumption ==
  /\ RENDER_THREADS \in {1, 2, 4}
  /\ PARAM_SIZE \in Nat \ {0}
  /\ WAKE_BELOW \in Nat /\ WAKE_BELOW > 1
  /\ SLACK \in Nat /\ SLACK > 1

Threads == 0 .. RENDER_THREADS - 1
IDX == 2 * PARAM_SIZE

VARIABLES
  params,          \* the ring: the number of the triangle in each slot
  write, read,     \* params_write_idx, params_read_idx[]
  wake, notFull,   \* wake_render_thread[], render_not_full_event[]
  busy, run,       \* render_voodoo_busy[], render_thread_run[]
  fifo, k,         \* where the FIFO thread is and its loop counter
  rend             \* where each render thread is

ringVars == <<params, write, read>>
eventVars == <<wake, notFull>>
fifoVars == <<fifo, k>>
vars == <<ringVars, eventVars, busy, run, fifoVars, rend>>

Init ==
  /\ params = [i \in 0 .. PARAM_SIZE - 1 |-> 0]
  /\ write = 0 /\ read = [t \in Threads |-> 0]
  /\ wake = [t \in Threads |-> FALSE] /\ notFull = [t \in Threads |-> FALSE]
  /\ busy = [t \in Threads |-> FALSE] /\ run = [t \in Threads |-> TRUE]
  /\ fifo = "idle" /\ k = 0
  /\ rend = [t \in Threads |-> "top"]

TypeOK ==
  /\ params \in [0 .. PARAM_SIZE - 1 -> 0 .. IDX - 1]
  /\ write \in 0 .. IDX - 1 /\ read \in [Threads -> 0 .. IDX - 1]
  /\ {wake, notFull, busy, run} \subseteq [Threads -> BOOLEAN]
  /\ fifo \in {"idle", "full", "room", "wait", "store", "publish", "kick",
               "empty", "busy", "close", "join", "closed"}
  /\ k \in 0 .. RENDER_THREADS
  /\ rend \in [Threads -> {"top", "wait", "reset", "test", "next", "signal",
                           "unbusy", "ended"}]

-----------------------------------------------------------------------------
PARAM_ENTRIES(t) == (write + IDX - read[t]) % IDX
NextIndex(i) == (i + 1) % IDX

(* A plausible slip: the last slot is used one entry too long. *)
FullTooLate(t) == PARAM_ENTRIES(t) > PARAM_SIZE
PARAM_FULL(t) == PARAM_ENTRIES(t) >= PARAM_SIZE
PARAM_EMPTY(t) == write = read[t]

(* A plausible slip: only the first thread is woken. *)
WakeFirst == wake' = [wake EXCEPT ![0] = TRUE]
voodoo_wake_render_thread == wake' = [t \in Threads |-> TRUE]

-----------------------------------------------------------------------------
(* The FIFO thread: voodoo_queue_triangle.                                  *)

QueueTriangle ==
  /\ fifo = "idle"
  /\ fifo' = "full"
  /\ UNCHANGED <<ringVars, eventVars, busy, run, k, rend>>

(* While a thread has no room, the events are reset ...                     *)
TestFull ==
  /\ fifo = "full"
  /\ IF \E t \in Threads : PARAM_FULL(t)
     THEN fifo' = "room" /\ k' = 0 /\ notFull' = [t \in Threads |-> FALSE]
     ELSE fifo' = "store" /\ UNCHANGED <<k, notFull>>
  /\ UNCHANGED <<ringVars, wake, busy, run, rend>>

(* ... and every thread without room is waited for in turn.  The test and   *)
(* the wait are two steps: the thread may draw and set its event in between.*)
TestRoom ==
  /\ fifo = "room"
  /\ CASE k = RENDER_THREADS -> fifo' = "full" /\ k' = 0
       [] k < RENDER_THREADS /\ PARAM_FULL(k) -> fifo' = "wait" /\ k' = k
       [] k < RENDER_THREADS /\ ~PARAM_FULL(k) -> fifo' = fifo /\ k' = k + 1
  /\ UNCHANGED <<ringVars, eventVars, busy, run, rend>>

WaitNotFull ==
  /\ fifo = "wait"
  /\ notFull[k]
  /\ fifo' = "room" /\ k' = k + 1
  /\ UNCHANGED <<ringVars, eventVars, busy, run, rend>>

(* The triangle is copied to its slot, and only then published.             *)
StoreParams ==
  /\ fifo = "store"
  /\ params' = [params EXCEPT ![write % PARAM_SIZE] = write]
  /\ fifo' = "publish"
  /\ UNCHANGED <<write, read, eventVars, busy, run, k, rend>>

Publish ==
  /\ fifo = "publish"
  /\ write' = NextIndex(write)
  /\ fifo' = "kick"
  /\ UNCHANGED <<params, read, eventVars, busy, run, k, rend>>

(* A plausible slip: one entry counts as plenty. *)
NeverNear == \E t \in Threads : PARAM_ENTRIES(t) < 1
NearlyEmpty == \E t \in Threads : PARAM_ENTRIES(t) < WAKE_BELOW

Kick ==
  /\ fifo = "kick"
  /\ IF NearlyEmpty THEN voodoo_wake_render_thread ELSE wake' = wake
  /\ fifo' = "idle"
  /\ UNCHANGED <<ringVars, notFull, busy, run, k, rend>>

-----------------------------------------------------------------------------
(* voodoo_wait_for_render_thread_idle, before pixels are read or written:   *)
(* first every queue is found empty, then every thread is found not busy;   *)
(* otherwise all are woken and it begins again.  The one-millisecond waits  *)
(* of a round may always time out and are left out.                         *)

BeginIdleWait ==
  /\ fifo = "idle"
  /\ fifo' = "empty" /\ k' = 0
  /\ UNCHANGED <<ringVars, eventVars, busy, run, rend>>

(* A plausible slip: the queue of the first thread speaks for all. *)
FirstQueueEmpty(t) == PARAM_EMPTY(0)
QueueEmpty(t) == PARAM_EMPTY(t)

IdleTest ==
  /\ fifo \in {"empty", "busy"}
  /\ LET idle == IF fifo = "empty" THEN QueueEmpty(k) ELSE ~busy[k]
     IN  CASE ~idle -> /\ voodoo_wake_render_thread
                       /\ fifo' = "empty" /\ k' = 0
           [] idle /\ k + 1 < RENDER_THREADS ->
                       k' = k + 1 /\ UNCHANGED <<wake, fifo>>
           [] idle /\ k + 1 = RENDER_THREADS ->
                       /\ fifo' = IF fifo = "empty" THEN "busy" ELSE "idle"
                       /\ k' = 0 /\ wake' = wake
  /\ UNCHANGED <<ringVars, notFull, busy, run, rend>>

-----------------------------------------------------------------------------
(* voodoo_card_close, once the FIFO thread has ended: the render threads    *)
(* are stopped and joined one after the other.                              *)

Close ==
  /\ fifo = "idle"
  /\ fifo' = "close" /\ k' = 0
  /\ UNCHANGED <<ringVars, eventVars, busy, run, rend>>

StopThread ==
  /\ fifo = "close"
  /\ IF k < RENDER_THREADS
     THEN /\ run' = [run EXCEPT ![k] = FALSE]
          /\ wake' = [wake EXCEPT ![k] = TRUE]
          /\ fifo' = "join"
     ELSE fifo' = "closed" /\ UNCHANGED <<run, wake>>
  /\ UNCHANGED <<ringVars, notFull, busy, k, rend>>

Join ==
  /\ fifo = "join"
  /\ rend[k] = "ended"
  /\ fifo' = "close" /\ k' = k + 1
  /\ UNCHANGED <<ringVars, eventVars, busy, run, rend>>

FifoThread ==
  \/ QueueTriangle
  \/ TestFull \/ TestRoom \/ WaitNotFull
  \/ StoreParams \/ Publish \/ Kick
  \/ BeginIdleWait \/ IdleTest
  \/ Close \/ StopThread \/ Join

-----------------------------------------------------------------------------
(* render_thread.                                                           *)

Go(t, from, to) == rend[t] = from /\ rend' = [rend EXCEPT ![t] = to]

Top(t) ==
  /\ Go(t, "top", IF run[t] THEN "wait" ELSE "ended")
  /\ notFull' = IF run[t] THEN [notFull EXCEPT ![t] = TRUE] ELSE notFull
  /\ UNCHANGED <<ringVars, wake, busy, run, fifoVars>>

Wait(t) ==
  /\ wake[t]
  /\ Go(t, "wait", "reset")
  /\ UNCHANGED <<ringVars, eventVars, busy, run, fifoVars>>

(* The event is reset before the queue is looked at.                        *)
ResetWake(t) ==
  /\ Go(t, "reset", "test")
  /\ wake' = [wake EXCEPT ![t] = FALSE]
  /\ busy' = [busy EXCEPT ![t] = TRUE]
  /\ UNCHANGED <<ringVars, notFull, run, fifoVars>>

TestEmpty(t) ==
  /\ PARAM_EMPTY(t)
  /\ Go(t, "test", "unbusy")
  /\ UNCHANGED <<ringVars, eventVars, busy, run, fifoVars>>

(* voodoo_triangle draws from the slot; only then the thread moves on.      *)
Draw(t) ==
  /\ ~PARAM_EMPTY(t)
  /\ Go(t, "test", "next")
  /\ UNCHANGED <<ringVars, eventVars, busy, run, fifoVars>>

Advance(t) ==
  /\ Go(t, "next", "signal")
  /\ read' = [read EXCEPT ![t] = NextIndex(@)]
  /\ UNCHANGED <<params, write, eventVars, busy, run, fifoVars>>

(* A plausible slip: the thread reports an empty ring only. *)
ReportEmpty(t) == PARAM_EMPTY(t)
RoomToReport(t) == PARAM_ENTRIES(t) + SLACK > PARAM_SIZE

Signal(t) ==
  /\ Go(t, "signal", "test")
  /\ notFull' = IF RoomToReport(t) THEN [notFull EXCEPT ![t] = TRUE] ELSE notFull
  /\ UNCHANGED <<ringVars, wake, busy, run, fifoVars>>

ClearBusy(t) ==
  /\ Go(t, "unbusy", "top")
  /\ busy' = [busy EXCEPT ![t] = FALSE]
  /\ UNCHANGED <<ringVars, eventVars, run, fifoVars>>

RenderThread(t) ==
  \/ Top(t) \/ Wait(t) \/ ResetWake(t) \/ TestEmpty(t) \/ Draw(t)
  \/ Advance(t) \/ Signal(t) \/ ClearBusy(t)

(* After voodoo_card_close nothing is left to run.                          *)
Next == FifoThread \/ \E t \in Threads : RenderThread(t)

(* The host schedules every thread; what the guest asks of the FIFO thread  *)
(* next is its own affair, but a command begun is carried on.               *)
CarryOn == fifo # "idle" /\ FifoThread
Spec == Init /\ [][Next]_vars /\ WF_vars(CarryOn) /\ \A t \in Threads : WF_vars(RenderThread(t))

-----------------------------------------------------------------------------
(* The triangles thread t has not moved past, as numbers; it may be drawing *)
(* the first.                                                               *)
Pending(t) == {(read[t] + j) % IDX : j \in {i \in 0 .. PARAM_SIZE : i < PARAM_ENTRIES(t)}}

(* No slot of the ring is overwritten before every render thread has drawn  *)
(* the triangle in it: what a thread finds at its read index is the         *)
(* triangle with that number.                                               *)
NotOverwritten ==
  TypeOK /\ \A t \in Threads : \A n \in Pending(t) : params[n % PARAM_SIZE] = n

(* When voodoo_wait_for_render_thread_idle returns, every triangle queued   *)
(* is on the screen and no thread is drawing.                               *)
IdleMeansDrawn ==
  [][fifo = "busy" /\ fifo' = "idle"
       => \A t \in Threads : PARAM_EMPTY(t) /\ rend[t] # "next"]_vars

(* No thread sleeps over its work.  A render thread about to sleep without  *)
(* a wake-up has nothing to draw, except between publishing a triangle and  *)
(* the wake-ups that follow; the FIFO thread waits without its event only   *)
(* for a thread that is a whole ring behind or is about to report; and the  *)
(* thread that is joined does not sleep.                                    *)
NoLostWakeUp ==
  /\ \A t \in Threads :
       rend[t] \in {"unbusy", "top", "wait"} /\ ~wake[t] => PARAM_EMPTY(t) \/ fifo = "kick"
  /\ fifo = "wait" /\ ~notFull[k] => PARAM_FULL(k) \/ rend[k] = "signal"
  /\ fifo = "join" /\ rend[k] = "wait" => wake[k]

(* A triangle is queued in the end however full the ring is, and closing    *)
(* the card joins every thread: no wake-up between the threads is lost.     *)
(* (An idle wait is not claimed to return: its rounds wake the very threads *)
(* they wait for, which show themselves busy with nothing to do, and only   *)
(* the timing of the rounds keeps that from going on.)                      *)
Queueing == fifo \in {"full", "room", "wait", "store", "publish", "kick"}
FifoReturns ==
  /\ Queueing ~> fifo = "idle"
  /\ fifo = "close" ~> fifo = "closed"

(* A queued triangle is drawn by every thread, whatever the guest does      *)
(* next, unless the card is closed.                                         *)
EveryTriangleDrawn ==
  \A t \in Threads : \A n \in 0 .. IDX - 1 :
    (read[t] = n /\ ~PARAM_EMPTY(t)) ~> (read[t] # n \/ ~run[t])
=============================================================================
