----------------------------- MODULE VoodooFifo -----------------------------
(***************************************************************************)
(* The command FIFO of a Voodoo card (video/vid_voodoo_fifo.c) between the *)
(* emulation thread and the FIFO thread.                                   *)
(*                                                                         *)
(*   emulation thread:  the guest's register and memory writes are queued; *)
(*     reading the frame buffer first waits until the FIFO is empty;       *)
(*     reading the status register, and some writes, arm a timer that      *)
(*     wakes the FIFO thread; the display timer shows a pending swap at    *)
(*     the retrace.  Timers run on this thread, so none runs while it      *)
(*     waits for the FIFO.                                                 *)
(*   FIFO thread:  executes the commands in order; a buffer swap waits for *)
(*     the retrace, unless the emulation thread is waiting for the FIFO.   *)
(*                                                                         *)
(* The FIFO is the sequence of the entries between the indexes, its head   *)
(* the entry being executed: it is removed when its execution is over.     *)
(* Waits of a millisecond may always time out and are left out, and with   *)
(* them fifo_not_full_event.  Register packets written through memory      *)
(* (CMDFIFO) and the second card of a pair are not modelled; the render    *)
(* threads are in VoodooRender.                                            *)
(***************************************************************************)
EXTENDS Integers, Sequences, FiniteSets

CONSTANTS FULL_AT,  \* entries of a full FIFO (FIFO_SIZE - 4)
          HIGH      \* more entries than this wake the FIFO thread (0xe000)

ASSUME VoodooFifoAssumption == FULL_AT \in Nat \ {0} /\ HIGH \in Nat

(* What the guest queues: a write to frame buffer or texture memory, a      *)
(* drawing command, a buffer swap at the retrace and one at once.           *)
Kinds == {"memory", "draw", "swap", "swapNow"}
Swaps == {"swap", "swapNow"}

VARIABLES
  q,            \* the entries of the FIFO
  emu, cmd,     \* where the emulation thread is; the command it is queueing
  fifo,         \* where the FIFO thread is
  wake, empty,  \* wake_fifo_thread and fifo_empty_event
  timer,        \* is wake_timer enabled?
  busy, run,    \* voodoo_busy, fifo_thread_run
  flush,        \* the emulation thread waits for an empty FIFO
  pending,      \* swap_pending
  count,        \* swap_count, which the guest reads to pace itself
  triple,       \* TRIPLE_BUFFER, set up by the guest's driver
  odd           \* has an odd number of commands been executed?

swapVars == <<pending, count>>
vars == <<q, emu, cmd, fifo, wake, empty, timer, busy, run, flush, swapVars, triple, odd>>

Init ==
  /\ q = << >> /\ emu = "run" /\ cmd = "memory" /\ fifo = "top"
  /\ wake = FALSE /\ empty = TRUE /\ timer = FALSE
  /\ busy = FALSE /\ run = TRUE /\ flush = FALSE
  /\ pending = FALSE /\ count = 0
  /\ triple \in BOOLEAN /\ odd = FALSE

TypeOK ==
  /\ q \in Seq(Kinds) /\ Len(q) <= FULL_AT /\ cmd \in Kinds
  /\ emu \in {"run", "queue", "append", "kick", "flush", "wait", "join", "closed"}
  /\ fifo \in {"top", "sleep", "reset", "test", "exec", "swapped", "lock", "empty",
               "unbusy", "ended"}
  /\ {wake, empty, timer, busy, run, flush, pending, triple, odd} \subseteq BOOLEAN
  /\ count \in 0 .. FULL_AT + 2

FIFO_FULL == Len(q) >= FULL_AT
FIFO_EMPTY == q = << >>

(* voodoo_wake_fifo_thread: the thread is not woken at once, so that it     *)
(* finds a batch of commands.                                               *)
voodoo_wake_fifo_thread == timer' = TRUE
(* A plausible slip: a thread that shows itself busy is not woken. *)
WakeIdleNow == wake' = (wake \/ ~busy)
voodoo_wake_fifo_thread_now == wake' = TRUE

(* A plausible slip: the count is left to the guest. *)
CountStays == count' = count
(* Every place that completes a swap counts down, but not below zero.       *)
CountDown == count' = IF count > 0 THEN count - 1 ELSE 0

-----------------------------------------------------------------------------
(* The emulation thread.                                                    *)
fifoVars == <<fifo, busy, triple, odd>>

(* A write to the card; a swap is counted before it is queued.              *)
Write(c) ==
  /\ emu = "run"
  /\ cmd' = c
  /\ count' = IF c \in Swaps THEN count + 1 ELSE count
  /\ emu' = "queue"
  /\ UNCHANGED <<q, fifoVars, wake, empty, timer, run, flush, pending>>

(* voodoo_queue_command: while the FIFO is full the FIFO thread is woken;   *)
(* then the event that says it is empty is reset, ...                       *)
QueueFull ==
  /\ emu = "queue"
  /\ FIFO_FULL
  /\ voodoo_wake_fifo_thread_now
  /\ UNCHANGED <<q, emu, cmd, fifoVars, empty, timer, run, flush, swapVars>>

QueueReset ==
  /\ emu = "queue"
  /\ ~FIFO_FULL
  /\ empty' = FALSE
  /\ emu' = "append"
  /\ UNCHANGED <<q, cmd, fifoVars, wake, timer, run, flush, swapVars>>

(* ... the entry is filled and published, ...                               *)
QueueAppend ==
  /\ emu = "append"
  /\ q' = Append(q, cmd)
  /\ IF Len(q') > HIGH THEN voodoo_wake_fifo_thread ELSE timer' = timer
  /\ emu' = IF cmd = "memory" THEN "run" ELSE "kick"
  /\ UNCHANGED <<cmd, fifoVars, wake, empty, run, flush, swapVars>>

(* ... and after a command, not after a write to memory, an idle FIFO       *)
(* thread is woken.                                                         *)
Kick ==
  /\ emu = "kick"
  /\ IF busy THEN timer' = timer ELSE voodoo_wake_fifo_thread
  /\ emu' = "run"
  /\ UNCHANGED <<q, cmd, fifoVars, wake, empty, run, flush, swapVars>>

(* A plausible slip: reading the status wakes nobody. *)
WakeNobody == timer' = timer
WakeIfIdle == IF busy THEN timer' = timer ELSE voodoo_wake_fifo_thread

(* The guest reads the status register.                                     *)
StatusRead ==
  /\ emu = "run"
  /\ WakeIfIdle
  /\ UNCHANGED <<q, emu, cmd, fifoVars, wake, empty, run, flush, swapVars>>

voodoo_wake_timer ==
  /\ emu = "run"
  /\ timer
  /\ timer' = FALSE
  /\ wake' = TRUE
  /\ UNCHANGED <<q, emu, cmd, fifoVars, empty, run, flush, swapVars>>

(* voodoo_callback reaches a retrace at which the pending swap is due.      *)
Retrace ==
  /\ emu = "run"
  /\ pending
  /\ pending' = FALSE
  /\ CountDown
  /\ wake' = TRUE
  /\ UNCHANGED <<q, emu, cmd, fifoVars, empty, timer, run, flush>>

(* The guest resets the video unit (fbiInit1).                              *)
VideoReset ==
  /\ emu = "run"
  /\ count' = 0
  /\ UNCHANGED <<q, emu, cmd, fifoVars, wake, empty, timer, run, flush, pending>>

(* voodoo_flush, and reading the frame buffer.                              *)
BeginFlush ==
  /\ emu = "run"
  /\ flush' = TRUE
  /\ emu' = "flush"
  /\ UNCHANGED <<q, cmd, fifoVars, wake, empty, timer, run, swapVars>>

FlushTest ==
  /\ emu = "flush"
  /\ IF FIFO_EMPTY
     THEN emu' = "run" /\ flush' = FALSE /\ wake' = wake
     ELSE emu' = "wait" /\ flush' = flush /\ voodoo_wake_fifo_thread_now
  /\ UNCHANGED <<q, cmd, fifoVars, empty, timer, run, swapVars>>

(* A plausible slip: the event is taken at its word. *)
TrustEvent == "run"
TestAgain == "flush"

FlushWait ==
  /\ emu = "wait"
  /\ empty
  /\ emu' = TestAgain
  /\ UNCHANGED <<q, cmd, fifoVars, wake, empty, timer, run, flush, swapVars>>

(* voodoo_card_close: no timer runs any more.                               *)
Close ==
  /\ emu = "run"
  /\ run' = FALSE
  /\ wake' = TRUE
  /\ emu' = "join"
  /\ UNCHANGED <<q, cmd, fifoVars, empty, timer, flush, swapVars>>

Join ==
  /\ emu = "join"
  /\ fifo = "ended"
  /\ emu' = "closed"
  /\ UNCHANGED <<q, cmd, fifoVars, wake, empty, timer, run, flush, swapVars>>

Queueing == QueueFull \/ QueueReset \/ QueueAppend \/ Kick
Flushing == FlushTest \/ FlushWait
EmulationThread ==
  \/ \E c \in Kinds : Write(c)
  \/ Queueing
  \/ StatusRead \/ voodoo_wake_timer \/ Retrace \/ VideoReset
  \/ BeginFlush \/ Flushing
  \/ Close \/ Join

-----------------------------------------------------------------------------
(* The FIFO thread: voodoo_fifo_thread.                                     *)
emuVars == <<emu, cmd, timer, run, flush, triple>>

Top ==
  /\ fifo = "top"
  /\ fifo' = IF run THEN "sleep" ELSE "ended"
  /\ UNCHANGED <<emuVars, q, wake, empty, busy, swapVars, odd>>

Sleep ==
  /\ fifo = "sleep"
  /\ wake
  /\ fifo' = "reset"
  /\ UNCHANGED <<emuVars, q, wake, empty, busy, swapVars, odd>>

(* The event is reset before the FIFO is looked at.                         *)
ResetWake ==
  /\ fifo = "reset"
  /\ wake' = FALSE
  /\ busy' = TRUE
  /\ fifo' = "test"
  /\ UNCHANGED <<emuVars, q, empty, swapVars, odd>>

TestEmpty ==
  /\ fifo = "test"
  /\ fifo' = IF FIFO_EMPTY THEN "empty" ELSE "exec"
  /\ UNCHANGED <<emuVars, q, wake, empty, busy, swapVars, odd>>

(* An executed entry leaves the FIFO.                                       *)
Done == q' = Tail(q) /\ fifo' = "test" /\ odd' = ~odd

ExecOther ==
  /\ fifo = "exec"
  /\ Head(q) \in {"memory", "draw"}
  /\ Done
  /\ UNCHANGED <<emuVars, wake, empty, busy, swapVars>>

ExecSwapNow ==
  /\ fifo = "exec"
  /\ Head(q) = "swapNow"
  /\ CountDown
  /\ Done
  /\ UNCHANGED <<emuVars, wake, empty, busy, pending>>

(* With two buffers the swap is made pending and waited for; with three the *)
(* one before is waited for, and this one made pending.                     *)
ExecSwap ==
  /\ fifo = "exec"
  /\ Head(q) = "swap"
  /\ CASE ~triple -> pending' = TRUE /\ fifo' = "swapped" /\ UNCHANGED <<q, odd>>
       [] triple /\ pending -> pending' = pending /\ fifo' = "swapped" /\ UNCHANGED <<q, odd>>
       [] triple /\ ~pending -> pending' = TRUE /\ Done
  /\ UNCHANGED <<emuVars, wake, empty, busy, count>>

(* voodoo_wait_for_swap_complete, with the mutex taken between two tests.   *)
SwapOver == IF triple THEN pending' = TRUE ELSE pending' = FALSE

SwapTest ==
  /\ fifo = "swapped"
  /\ IF pending
     THEN fifo' = "lock" /\ UNCHANGED <<q, odd, pending>>
     ELSE SwapOver /\ Done
  /\ UNCHANGED <<emuVars, wake, empty, busy, count>>

(* A plausible slip: a full FIFO is no reason to go on. *)
SkipForFlushOnly == pending /\ flush
SkipRetrace == (pending /\ flush) \/ FIFO_FULL

SwapEarly ==
  /\ fifo = "lock"
  /\ SkipRetrace
  /\ CountDown
  /\ SwapOver
  /\ Done
  /\ UNCHANGED <<emuVars, wake, empty, busy>>

SwapWait ==
  /\ fifo = "lock"
  /\ ~SkipRetrace
  /\ fifo' = "swapped"
  /\ UNCHANGED <<emuVars, q, wake, empty, busy, swapVars, odd>>

SetEmpty ==
  /\ fifo = "empty"
  /\ empty' = TRUE
  /\ fifo' = "unbusy"
  /\ UNCHANGED <<emuVars, q, wake, busy, swapVars, odd>>

ClearBusy ==
  /\ fifo = "unbusy"
  /\ busy' = FALSE
  /\ fifo' = "top"
  /\ UNCHANGED <<emuVars, q, wake, empty, swapVars, odd>>

FifoThread ==
  \/ Top \/ Sleep \/ ResetWake \/ TestEmpty
  \/ ExecOther \/ ExecSwapNow \/ ExecSwap
  \/ SwapTest \/ SwapEarly \/ SwapWait
  \/ SetEmpty \/ ClearBusy

(* After voodoo_card_close nothing is left to run.                          *)
Next == EmulationThread \/ FifoThread

(* The host schedules both threads.  The emulation thread runs its timers   *)
(* as emulated time goes by, whatever the guest does in between.  The last  *)
(* conjunct is about the guest: a driver with nothing else to do polls the  *)
(* status register.                                                         *)
Fairness ==
  /\ WF_vars(FifoThread)
  /\ WF_vars(Queueing) /\ WF_vars(Flushing) /\ WF_vars(Join)
  /\ SF_vars(voodoo_wake_timer) /\ SF_vars(Retrace)
  /\ WF_vars(StatusRead)

Spec == Init /\ [][Next]_vars /\ Fairness

-----------------------------------------------------------------------------
(* Swaps the guest has asked for that are not on the screen: in the FIFO or *)
(* being queued, less one that is over and about to leave, and with three   *)
(* buffers the pending one that has left already.                           *)
SwapsIn(s) == Cardinality({i \in 1 .. Len(s) : s[i] \in Swaps})
Waiting == SwapsIn(q)
             + (IF emu \in {"queue", "append"} /\ cmd \in Swaps THEN 1 ELSE 0)
             + (IF triple /\ pending THEN 1 ELSE 0)
Over == IF ~triple /\ fifo \in {"swapped", "lock"} /\ ~pending THEN 1 ELSE 0

(* The guest is never told of more swaps than are outstanding, whichever of *)
(* the retrace, the flush and the full FIFO completes them: a driver that   *)
(* waits for the count to fall does not wait for a swap that is over.       *)
CountNeverAhead == TypeOK /\ count + Over <= Waiting

(* When the emulation thread has waited for an empty FIFO, every command    *)
(* has been executed to its end, although fifo_empty_event may be set late, *)
(* by a FIFO thread that saw the FIFO empty before the last command came.   *)
FlushMeansExecuted ==
  [][(emu \in {"flush", "wait"} /\ emu' = "run")
       => (FIFO_EMPTY /\ fifo \notin {"exec", "swapped", "lock"})]_vars

(* The emulation thread is heard wherever the FIFO thread is.  While it     *)
(* waits for an empty FIFO, swaps do not wait for the retrace, and either   *)
(* the event is set, or the FIFO thread is awake or woken before it sleeps; *)
(* and it is not joined asleep.                                             *)
WaiterHeard ==
  /\ emu = "wait" => /\ flush
                     /\ empty \/ wake \/ fifo \notin {"unbusy", "top", "sleep", "ended"}
  /\ emu = "join" /\ fifo = "sleep" => wake

(* A write to the card and a read of the frame buffer end: the two threads  *)
(* never wait for each other, even when the FIFO is full and its head waits *)
(* for a retrace that only the waiting thread could bring about.  Closing   *)
(* the card ends too, unless the FIFO thread is waiting for a retrace then. *)
CardAnswers ==
  /\ emu \in {"queue", "append", "kick"} ~> emu = "run"
  /\ emu \in {"flush", "wait"} ~> emu = "run"
  /\ emu = "join" ~> (emu = "closed" \/ (pending /\ fifo \in {"swapped", "lock"}))

(* Every command is executed while the guest polls the status register or   *)
(* goes on using the card (a command queued just before the FIFO thread     *)
(* goes to sleep is not followed by a wake-up of its own).                  *)
EveryCommandExecuted ==
  \A b \in BOOLEAN : (q # << >> /\ odd = b) ~> (odd # b \/ ~run)
=============================================================================
