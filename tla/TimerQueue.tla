----------------------------- MODULE TimerQueue -----------------------------
(***************************************************************************)
(* timer.c and the inline half of timer.h: the list of enabled timers that *)
(* drives every device of the machine.  The list is a sequence here (its   *)
(* pointers are the subject of TimerList); a step is one call of the API   *)
(* by device code, one instruction or block of the CPU core, or one turn   *)
(* of the loop of timer_process.  Timestamps are exact: whole cycles       *)
(* (ts_integer) and a fraction of FracMod parts (ts_frac).                 *)
(***************************************************************************)
EXTENDS Integers, Sequences, SequencesExt

CONSTANTS
  Timers,        \* the pc_timer_t objects
  Permanent,     \* timers whose callback always re-arms them (RTC, sound poll)
  NullCallback,  \* timers added with a NULL callback
  FracMod,       \* 2^32: parts of a cycle
  SignBit,       \* 2^31: whole-cycle part of a delay from which it is negative
  TIMER_USEC,    \* one microsecond, in parts of a cycle
  MAX_USEC,      \* longest period handed to the list in one piece
  Delays,        \* delays device code asks for, in parts of a cycle
  Periods,       \* periods device code asks for, in microseconds
  MaxBlock,      \* most cycles between two checks of timer_target
  NewTsc,        \* values the guest writes to the TSC
  MaxTs,         \* bound: largest timestamp explored
  None           \* no callback is running

ASSUME TimerConstants ==
  /\ Permanent \subseteq Timers
  /\ NullCallback \subseteq Timers \ Permanent
  /\ \E p, q \in Permanent : p # q
  /\ None \notin Timers \union Int
  /\ FracMod \in Nat \ {0} /\ SignBit \in Nat \ {0} /\ MaxTs \in Nat
  /\ TIMER_USEC \in Nat /\ FracMod <= TIMER_USEC
  /\ MAX_USEC \in Nat \ {0}
  /\ MAX_USEC * TIMER_USEC < SignBit * FracMod
  /\ Delays \subseteq 0..(2 * SignBit * FracMod - 1)
  /\ Periods \subseteq Nat
  /\ MaxBlock \in Nat
  /\ NewTsc \subseteq Nat

VARIABLES
  queue,         \* the list from timer_head: enabled timers, first to expire first
  timer_target,  \* the CPU calls timer_process when tsc reaches it
  tsc,
  ts,            \* ts_integer
  frac,          \* ts_frac
  enabled,       \* timers with TIMER_ENABLED
  split,         \* timers with TIMER_SPLIT
  in_callback,   \* timers with in_callback set
  period,        \* microseconds still to come after this piece of the period
  timer_inited,
  added,         \* timers given to timer_add since timer_init
  pc,            \* "cpu", "process" (loop of timer_process) or "callback"
  cb,            \* the timer whose callback is running
  crashed        \* a NULL pointer was followed, or the deliberate crash taken

stamps == <<ts, frac>>
flags  == <<enabled, split, in_callback, period>>
life   == <<timer_inited, added>>
control == <<pc, cb>>
vars == <<queue, timer_target, tsc, stamps, flags, life, control, crashed>>

-----------------------------------------------------------------------------
(* The list.                                                               *)

Pos(q, t) == CHOOSE i \in 1..Len(q) : q[i] = t
Unlink(q, t) == RemoveAt(q, Pos(q, t))

\* Variant: the walk never finds a later timer.
SlotAtEnd(q, i) == Len(q) + 1

\* Where timer_enable puts a timer with timestamp i: in front of the first
\* node that does not expire before it, else at the end.
Slot(q, i) == CHOOSE k \in 1..(Len(q) + 1) :
                /\ \A j \in 1..(k - 1) : ts[q[j]] < i
                /\ k <= Len(q) => i <= ts[q[k]]

\* Variant: timer_target follows only a timer put on an empty list.
LinkForgetsTarget(q, t, i, f) ==
  /\ ts' = [ts EXCEPT ![t] = i]
  /\ frac' = [frac EXCEPT ![t] = f]
  /\ queue' = InsertAt(q, Slot(q, i), t)
  /\ timer_target' = IF q = <<>> THEN i ELSE timer_target
  /\ enabled' = enabled \union {t}

\* timer_enable on timer t, not in list q, whose timestamp was just set to
\* i + f/FracMod.
Link(q, t, i, f) ==
  LET k == Slot(q, i) IN
  /\ ts' = [ts EXCEPT ![t] = i]
  /\ frac' = [frac EXCEPT ![t] = f]
  /\ queue' = InsertAt(q, k, t)
  /\ timer_target' = IF k = 1 THEN i ELSE timer_target
  /\ enabled' = enabled \union {t}

\* timer_enable as called by device code: an enabled timer is disabled first.
Enable(t, i, f) ==
  /\ i \in (-MaxTs)..MaxTs
  /\ Link(IF t \in enabled THEN Unlink(queue, t) ELSE queue, t, i, f)
  /\ in_callback' = IF t \in enabled THEN in_callback \ {t} ELSE in_callback

-----------------------------------------------------------------------------
(* Delays: 32:32 fixed point, the whole part a signed 32-bit number.       *)

IntDelay(d) == LET i == d \div FracMod
               IN  IF i >= SignBit THEN i - 2 * SignBit ELSE i
FracDelay(d) == d % FracMod

\* timer_set_delay_u64: d from now.
SetDelay(t, d) == Enable(t, tsc + IntDelay(d), FracDelay(d))

\* timer_advance_u64: d from the timer's own timestamp, carrying the fraction.
AdvancedInt(t, d) == ts[t] + IntDelay(d) + (frac[t] + FracDelay(d)) \div FracMod

AdvancedFrac(t, d) == (frac[t] + FracDelay(d)) % FracMod
Advance(t, d) == Enable(t, AdvancedInt(t, d), AdvancedFrac(t, d))

\* The piece of a period of p microseconds that goes on the list now, and what
\* is left of it for later (timer_advance_ex).
Piece(p) == (IF p > MAX_USEC THEN MAX_USEC ELSE p) * TIMER_USEC
Rest(p) == IF p > MAX_USEC THEN p - MAX_USEC ELSE 0
SetPeriod(t, p) ==
  /\ period' = [period EXCEPT ![t] = Rest(p)]
  /\ split' = IF p > MAX_USEC THEN split \union {t} ELSE split \ {t}

-----------------------------------------------------------------------------
(* Calls of the API by device code: from the CPU (I/O handlers, device     *)
(* reset) or from a timer callback, never from the loop of timer_process.  *)

Calling(t) == pc # "process" /\ timer_inited /\ t \in added \ Permanent

\* A permanent timer is only ever advanced, by its own callback.
Advancing(t) == Calling(t) \/ (t \in Permanent /\ pc = "callback" /\ cb = t)

timer_set_delay_u64(t, d) ==
  /\ Calling(t)
  /\ SetDelay(t, d)
  /\ UNCHANGED <<tsc, split, period, life, control, crashed>>

timer_advance_u64(t, d) ==
  /\ Advancing(t)
  /\ Advance(t, d)
  /\ UNCHANGED <<tsc, split, period, life, control, crashed>>

\* timer_enable: the timestamp the timer already has.
timer_enable(t) ==
  /\ Calling(t)
  /\ Enable(t, ts[t], frac[t])
  /\ UNCHANGED <<tsc, split, period, life, control, crashed>>

\* Variant: TIMER_ENABLED is left set.
DetachKeepsFlag(t) ==
  /\ queue' = IF t \in Range(queue) THEN Unlink(queue, t) ELSE queue
  /\ crashed' = (t \in enabled /\ t \notin Range(queue))
  /\ enabled' = enabled

\* timer_disable past its early returns.  A timer marked enabled that is not on
\* the list takes the deliberate crash.  timer_target is left as it is.
Detach(t) ==
  /\ queue' = IF t \in Range(queue) THEN Unlink(queue, t) ELSE queue
  /\ crashed' = (t \in enabled /\ t \notin Range(queue))
  /\ enabled' = enabled \ {t}

\* Devices are closed after timer_close and still cancel their timers then; a
\* call before timer_init does nothing.
Cancelling(t) == /\ pc # "process"
                 /\ t \notin Permanent
                 /\ timer_inited => t \in added

\* Variant: no check of timer_inited.
timer_disable_unchecked(t) ==
  /\ Cancelling(t)
  /\ IF t \in enabled
     THEN Detach(t) /\ in_callback' = in_callback \ {t}
     ELSE UNCHANGED <<queue, enabled, in_callback, crashed>>
  /\ UNCHANGED <<timer_target, tsc, stamps, split, period, life, control>>

\* period and TIMER_SPLIT stay.
timer_disable(t) ==
  /\ Cancelling(t)
  /\ IF timer_inited /\ t \in enabled
     THEN Detach(t) /\ in_callback' = in_callback \ {t}
     ELSE UNCHANGED <<queue, enabled, in_callback, crashed>>
  /\ UNCHANGED <<timer_target, tsc, stamps, split, period, life, control>>

Stop(t) ==
  IF timer_inited
  THEN /\ Detach(t)
       /\ in_callback' = in_callback \ {t}
       /\ period' = [period EXCEPT ![t] = 0]
       /\ split' = split \ {t}
  ELSE UNCHANGED <<queue, flags, crashed>>

timer_stop(t) ==
  /\ Cancelling(t)
  /\ Stop(t)
  /\ UNCHANGED <<timer_target, tsc, stamps, life, control>>

\* timer_on_auto with a period of p microseconds: from now, unless the timer is
\* in its callback or in the middle of a split period; 0 stops the timer.
FromNow(t) == period[t] = 0 /\ t \notin in_callback

timer_on_auto(t, p) ==
  /\ Calling(t)
  /\ \/ /\ p > 0
        /\ IF FromNow(t) THEN SetDelay(t, Piece(p)) ELSE Advance(t, Piece(p))
        /\ SetPeriod(t, p)
        /\ UNCHANGED crashed
     \/ /\ p = 0
        /\ Stop(t)
        /\ UNCHANGED <<timer_target, stamps>>
  /\ UNCHANGED <<tsc, life, control>>

\* timer_add clears the whole structure, then may start the timer; devices never
\* add a timer that is on the list.
timer_add(t, start) ==
  /\ pc = "cpu"
  /\ timer_inited
  /\ t \notin Range(queue)
  /\ t \in Permanent => start
  /\ added' = added \union {t}
  /\ IF start
     THEN Link(queue, t, tsc, 0)
     ELSE /\ ts' = [ts EXCEPT ![t] = 0]
          /\ frac' = [frac EXCEPT ![t] = 0]
          /\ enabled' = enabled \ {t}
          /\ UNCHANGED <<queue, timer_target>>
  /\ split' = split \ {t}
  /\ period' = [period EXCEPT ![t] = 0]
  /\ in_callback' = in_callback \ {t}
  /\ UNCHANGED <<tsc, timer_inited, control, crashed>>

-----------------------------------------------------------------------------
(* Hard reset: timer_close, the devices are closed, timer_init, the        *)
(* devices add their timers again.  The flags of the timers survive.       *)

timer_close ==
  /\ pc = "cpu"
  /\ queue' = <<>>
  /\ timer_inited' = FALSE
  /\ added' = {}
  /\ UNCHANGED <<timer_target, tsc, stamps, flags, control, crashed>>

timer_init ==
  /\ pc = "cpu"
  /\ ~timer_inited
  /\ timer_target' = 0
  /\ tsc' = 0
  /\ timer_inited' = TRUE
  /\ UNCHANGED <<queue, stamps, flags, added, control, crashed>>

-----------------------------------------------------------------------------
(* The CPU.  It runs once every device has been set up.                    *)

Booted == timer_inited /\ Permanent \subseteq added

\* Variant: the CPU waits for the TSC to pass timer_target.
ExecuteLate(n) ==
  /\ pc = "cpu"
  /\ Booted
  /\ tsc + n <= MaxTs
  /\ tsc' = tsc + n
  /\ pc' = IF timer_target < tsc + n /\ queue # <<>> THEN "process" ELSE "cpu"
  /\ UNCHANGED <<queue, timer_target, stamps, flags, life, cb, crashed>>

\* One instruction or block: tsc advances, then timer_target is checked.
Execute(n) ==
  /\ pc = "cpu"
  /\ Booted
  /\ tsc + n <= MaxTs
  /\ tsc' = tsc + n
  /\ pc' = IF timer_target <= tsc + n /\ queue # <<>> THEN "process" ELSE "cpu"
  /\ UNCHANGED <<queue, timer_target, stamps, flags, life, cb, crashed>>

\* An I/O handler calls timer_process itself (PIT gate, port 61h).
Poll ==
  /\ pc = "cpu"
  /\ Booted
  /\ queue # <<>>
  /\ pc' = "process"
  /\ UNCHANGED <<queue, timer_target, tsc, stamps, flags, life, cb, crashed>>

\* WRMSR to the TSC: the timers on the list move with it.
timer_set_new_tsc(new) ==
  /\ pc = "cpu"
  /\ Booted
  /\ \A t \in Range(queue) : new + (ts[t] - tsc) \in (-MaxTs)..MaxTs
  /\ tsc' = new
  /\ ts' = [t \in Timers |->
              IF t \in Range(queue) THEN new + (ts[t] - tsc) ELSE ts[t]]
  /\ timer_target' = IF queue = <<>> THEN timer_target
                     ELSE new + (ts[Head(queue)] - tsc)
  /\ UNCHANGED <<queue, frac, flags, life, control, crashed>>

-----------------------------------------------------------------------------
(* timer_process: the loop takes expired timers off the head of the list.  *)
(* timer_remove_head follows the next pointer of the head it removes, and  *)
(* the loop test follows timer_head: both need another timer on the list.  *)

Expired == /\ pc = "process"
           /\ ts[Head(queue)] <= tsc

\* The next piece of a split period.
ProcessSplit ==
  LET t == Head(queue)
      p == period[t]
  IN
  /\ Expired
  /\ t \in split
  /\ crashed' = (Tail(queue) = <<>>)
  /\ IF p > 0
     THEN Link(Tail(queue), t, AdvancedInt(t, Piece(p)), AdvancedFrac(t, Piece(p)))
     ELSE /\ queue' = Tail(queue)
          /\ enabled' = enabled \ {t}
          /\ UNCHANGED <<timer_target, stamps>>
  /\ SetPeriod(t, p)
  /\ UNCHANGED <<tsc, in_callback, life, control>>

\* timer_remove_head on the way to the callback, if there is one.
ProcessExpired ==
  LET t == Head(queue) IN
  /\ Expired
  /\ t \notin split
  /\ crashed' = (Tail(queue) = <<>>)
  /\ queue' = Tail(queue)
  /\ enabled' = enabled \ {t}
  /\ IF t \in NullCallback
     THEN UNCHANGED <<in_callback, control>>
     ELSE /\ in_callback' = in_callback \union {t}
          /\ pc' = "callback"
          /\ cb' = t
  /\ UNCHANGED <<timer_target, tsc, stamps, split, period, life>>

CallbackReturn ==
  /\ pc = "callback"
  /\ cb \in Permanent => cb \in enabled
  /\ in_callback' = in_callback \ {cb}
  /\ pc' = "process"
  /\ cb' = None
  /\ crashed' = (queue = <<>>)
  /\ UNCHANGED <<queue, timer_target, tsc, stamps, enabled, split, period, life>>

ProcessEnd ==
  /\ pc = "process"
  /\ ts[Head(queue)] > tsc
  /\ timer_target' = ts[Head(queue)]
  /\ pc' = "cpu"
  /\ UNCHANGED <<queue, tsc, stamps, flags, life, cb, crashed>>

-----------------------------------------------------------------------------
Init ==
  /\ queue = <<>>
  /\ timer_target = 0
  /\ tsc = 0
  /\ ts = [t \in Timers |-> 0]
  /\ frac = [t \in Timers |-> 0]
  /\ enabled = {}
  /\ split = {}
  /\ in_callback = {}
  /\ period = [t \in Timers |-> 0]
  /\ timer_inited = FALSE
  /\ added = {}
  /\ pc = "cpu"
  /\ cb = None
  /\ crashed = FALSE

Device(t) ==
  \/ \E d \in Delays : timer_set_delay_u64(t, d) \/ timer_advance_u64(t, d)
  \/ \E p \in Periods : timer_on_auto(t, p)
  \/ timer_enable(t)
  \/ timer_disable(t)
  \/ timer_stop(t)
  \/ \E start \in BOOLEAN : timer_add(t, start)

Cpu ==
  \/ \E n \in 1..MaxBlock : Execute(n)
  \/ \E new \in NewTsc : timer_set_new_tsc(new)
  \/ Poll

Process == ProcessSplit \/ ProcessExpired \/ CallbackReturn \/ ProcessEnd

Next == \/ \E t \in Timers : Device(t)
        \/ Cpu
        \/ Process
        \/ timer_close
        \/ timer_init

Spec == Init /\ [][Next]_vars

-----------------------------------------------------------------------------
TypeOK ==
  /\ queue \in Seq(Timers)
  /\ timer_target \in Int
  /\ tsc \in Nat
  /\ ts \in [Timers -> Int]
  /\ frac \in [Timers -> 0..(FracMod - 1)]
  /\ enabled \subseteq Timers
  /\ split \subseteq Timers
  /\ in_callback \subseteq Timers
  /\ period \in [Timers -> Nat]
  /\ timer_inited \in BOOLEAN
  /\ added \subseteq Timers
  /\ pc \in {"cpu", "process", "callback"}
  /\ cb \in Timers \union {None}
  /\ crashed \in BOOLEAN

\* The list holds exactly the timers whose TIMER_ENABLED flag can be trusted
\* (those added since timer_init), each once: what timer_enable, timer_disable,
\* timer_remove_head and a hard reset keep in step in two places.
ListMatchesFlags ==
  /\ Range(queue) = enabled \intersect added
  /\ \A i, j \in 1..Len(queue) : queue[i] = queue[j] => i = j

\* The list is sorted by timestamp at every moment, also while callbacks run and
\* after the guest moves the TSC: timer_process looks at its head only.
ListSorted == \A i, j \in 1..Len(queue) : i <= j => ts[queue[i]] <= ts[queue[j]]

\* timer_target is never later than the first timer on the list: the CPU checks
\* nothing else (it may be too early, timer_disable does not update it).
TargetNotLate == \A i \in 1..Len(queue) : timer_target <= ts[queue[i]]

\* timer_process and timer_disable never follow a NULL pointer, given two timers
\* whose callbacks re-arm them; no device takes the deliberate crash of
\* timer_disable, although its flag may be left over from before a hard reset.
NoCrash == ~crashed

\* A split period always has time left, and an unsplit timer has none: the early
\* return in timer_advance_ex that disables the timer is never taken.
SplitHasPeriod == \A t \in Timers : t \in split <=> period[t] > 0

\* What is left of a timer, all pieces of its period together.
TimeLeft(t) == IF t \notin Range(queue) THEN None
               ELSE (ts[t] - tsc) * FracMod + frac[t] + period[t] * TIMER_USEC

-----------------------------------------------------------------------------
Service == INSTANCE TimerService WITH
             left <- [t \in Timers |-> TimeLeft(t)],
             dispatching <- (pc # "cpu"),
             Off <- None

\* The list, timer_target and the splitting of periods implement TimerService:
\* callbacks run in deadline order, once per arming, only when due, and time
\* never passes over a due timer.
ImplementsService == Service!Spec
=============================================================================
