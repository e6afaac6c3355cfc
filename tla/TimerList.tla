------------------------------ MODULE TimerList ------------------------------
(***************************************************************************)
(* The list of timer.c as the code keeps it: timer_head and the next and   *)
(* prev pointers of every pc_timer_t, and timestamps that wrap.  The time  *)
(* stamp counter is 64 bits wide and the guest may write any value to it,  *)
(* so it wraps within reach; timestamps are compared by the sign of their  *)
(* difference.  W stands for 2^64.  The bookkeeping of periods, fractions  *)
(* and callbacks is in TimerQueue; here device code calls the list         *)
(* operations in any order, between and during runs of timer_process.      *)
(***************************************************************************)
EXTENDS Tsc, Sequences, FiniteSets, SequencesExt

CONSTANTS
  Timers,    \* the pc_timer_t objects
  Null,      \* the NULL pointer
  Delays,    \* delays device code asks for, in cycles
  NewTsc,    \* values the guest writes to the TSC
  MaxBlock   \* most cycles between two checks of timer_target

ASSUME ListConstants ==
  /\ Null \notin Timers
  /\ IsFiniteSet(Timers)
  /\ W \in Nat \ {0} /\ W % 2 = 0
  /\ NewTsc \subseteq 0..(W - 1)
  /\ MaxBlock \in Nat /\ MaxBlock < W \div 2
  /\ \A d \in Delays : d \in Nat /\ d + MaxBlock < W \div 2

VARIABLES
  heap,          \* [head, next, prev]: timer_head and the pointers of the timers
  ts,            \* ts_integer
  enabled,       \* timers with TIMER_ENABLED
  timer_target,
  timer_inited,
  added,         \* timers given to timer_add since timer_init
  pc,            \* "cpu" or "process"
  fatal,         \* fatal() was called, or the deliberate crash taken
  left           \* history: cycles until each timer on the list really expires

listVars == <<heap, ts, enabled, timer_target, tsc, timer_inited, added, pc, fatal, left>>

\* The sign of a 64-bit difference.
Signed(x) == LET m == x % W IN IF m >= W \div 2 THEN m - W ELSE m
\* Variant: an unsigned comparison.
UnsignedLess(a, b) == a <= b

TIMER_VAL_LESS_THAN_VAL(a, b) == Signed(a - b) <= 0

-----------------------------------------------------------------------------
(* The pointer operations.                                                 *)

\* Sequences of timers without repetition: what a walk along next can visit.
Paths == {s \in SeqOf(Timers, Cardinality(Timers)) : IsInjective(s)}

\* s is what a walk from the head along next visits until it meets NULL.
Follows(h, s) ==
  /\ h.head = IF s = <<>> THEN Null ELSE s[1]
  /\ \A i \in 1..Len(s) : h.next[s[i]] = IF i = Len(s) THEN Null ELSE s[i + 1]

Walk(h) == CHOOSE s \in Paths : Follows(h, s)

\* Variant: the next timer keeps pointing back to the one removed.
UnlinkForgetsPrev(h, t) ==
  LET p == h.prev[t]
      n == h.next[t]
  IN  [head |-> IF p = Null THEN n ELSE h.head,
       next |-> [x \in Timers |-> IF x = t THEN Null
                                  ELSE IF x = p THEN n ELSE h.next[x]],
       prev |-> [h.prev EXCEPT ![t] = Null]]

\* timer_disable's surgery.
Unlink(h, t) ==
  LET p == h.prev[t]
      n == h.next[t]
  IN  [head |-> IF p = Null THEN n ELSE h.head,
       next |-> [x \in Timers |-> IF x = t THEN Null
                                  ELSE IF x = p THEN n ELSE h.next[x]],
       prev |-> [x \in Timers |-> IF x = t THEN Null
                                  ELSE IF x = n THEN p ELSE h.prev[x]]]

\* timer_enable's walk: the first node that the timer with timestamp i does not
\* expire after, Null if it goes to the end.
Successor(h, i) ==
  LET s == Walk(h)
      later == {k \in 1..Len(s) : TIMER_VAL_LESS_THAN_VAL(i, ts[s[k]])}
  IN  IF later = {} THEN Null ELSE s[Min(later)]

InsertBefore(h, t, n) ==
  [head |-> IF h.prev[n] = Null THEN t ELSE h.head,
   next |-> [x \in Timers |-> IF x = t THEN n
                              ELSE IF x = h.prev[n] THEN t ELSE h.next[x]],
   prev |-> [h.prev EXCEPT ![t] = h.prev[n], ![n] = t]]

InsertLast(h, t) ==
  LET tail == Last(Walk(h))
  IN  [h EXCEPT !.next[tail] = t, !.prev[t] = tail]

Insert(h, t, i) ==
  IF h.head = Null
  THEN [h EXCEPT !.head = t, !.next[t] = Null, !.prev[t] = Null]
  ELSE LET n == Successor(h, i)
       IN  IF n = Null THEN InsertLast(h, t) ELSE InsertBefore(h, t, n)

\* What timer_disable takes for a timer that is wrongly marked enabled.
Isolated(t) == heap.next[t] = Null /\ heap.prev[t] = Null /\ heap.head # t

\* timer_enable for a timer whose timestamp was just set to i.  It first calls
\* timer_disable if the timer is enabled.
Enable(t, i) ==
  LET again == t \in enabled /\ timer_inited
      h0 == IF again THEN Unlink(heap, t) ELSE heap
      h  == Insert(h0, t, i)
  IN  /\ ts' = [ts EXCEPT ![t] = i]
      /\ fatal' = \/ again /\ Isolated(t)
                  \/ h0.next[t] # Null \/ h0.prev[t] # Null
      /\ heap' = h
      /\ timer_target' = IF h.head = t THEN i ELSE timer_target
      /\ enabled' = enabled \union {t}

-----------------------------------------------------------------------------
timer_set_delay_u64(t, d) ==
  /\ timer_inited
  /\ t \in added
  /\ Enable(t, (tsc + d) % W)
  /\ left' = [left EXCEPT ![t] = d]
  /\ UNCHANGED <<tsc, timer_inited, added, pc>>

\* Also called while the devices are closed, after timer_close.
timer_disable(t) ==
  /\ timer_inited => t \in added
  /\ IF timer_inited /\ t \in enabled
     THEN /\ fatal' = Isolated(t)
          /\ heap' = Unlink(heap, t)
          /\ enabled' = enabled \ {t}
          /\ left' = [left EXCEPT ![t] = 0]
     ELSE UNCHANGED <<heap, enabled, fatal, left>>
  /\ UNCHANGED <<ts, timer_target, tsc, timer_inited, added, pc>>

\* memset; devices never add a timer that is on the list.
timer_add(t) ==
  /\ timer_inited
  /\ ~(t \in added /\ t \in enabled)
  /\ heap' = [heap EXCEPT !.next[t] = Null, !.prev[t] = Null]
  /\ ts' = [ts EXCEPT ![t] = 0]
  /\ enabled' = enabled \ {t}
  /\ added' = added \union {t}
  /\ UNCHANGED <<timer_target, tsc, timer_inited, pc, fatal, left>>

\* The loop of timer_close reads r->next after clearing it, so it stops at the
\* first timer of the list.
timer_close ==
  /\ pc = "cpu"
  /\ heap' = IF heap.head = Null THEN heap
             ELSE [head |-> Null,
                   next |-> [heap.next EXCEPT ![heap.head] = Null],
                   prev |-> [heap.prev EXCEPT ![heap.head] = Null]]
  /\ timer_inited' = FALSE
  /\ added' = {}
  /\ left' = [t \in Timers |-> 0]
  /\ UNCHANGED <<ts, enabled, timer_target, tsc, pc, fatal>>

timer_init ==
  /\ ~timer_inited
  /\ timer_target' = 0
  /\ tsc' = 0
  /\ timer_inited' = TRUE
  /\ UNCHANGED <<heap, ts, enabled, added, pc, fatal, left>>

\* The list, in order, and the timers whose enabled flag can be trusted.
Chain == Walk(heap)
Listed == enabled \intersect added

\* WRMSR to the TSC moves every timer on the list.
timer_set_new_tsc(new) ==
  /\ pc = "cpu"
  /\ timer_inited
  /\ tsc' = new
  /\ timer_target' = IF heap.head = Null THEN timer_target
                     ELSE (new + Signed(ts[heap.head] - tsc)) % W
  /\ ts' = [t \in Timers |-> IF t \in ToSet(Chain)
                             THEN (new + Signed(ts[t] - tsc)) % W ELSE ts[t]]
  /\ UNCHANGED <<heap, enabled, timer_inited, added, pc, fatal, left>>

\* An instruction or block, then the check of timer_target.
Execute(n) ==
  /\ pc = "cpu"
  /\ timer_inited
  /\ tsc' = (tsc + n) % W
  /\ left' = [t \in Timers |-> IF t \in Listed THEN left[t] - n ELSE 0]
  /\ pc' = IF TIMER_VAL_LESS_THAN_VAL(timer_target, tsc') /\ heap.head # Null
           THEN "process" ELSE "cpu"
  /\ UNCHANGED <<heap, ts, enabled, timer_target, timer_inited, added, fatal>>

\* timer_remove_head on an expired timer.  It follows the next pointer, so there
\* must be another timer on the list (TimerQueue shows there is).
ProcessHead ==
  LET t == heap.head IN
  /\ pc = "process"
  /\ Len(Chain) > 1
  /\ TIMER_VAL_LESS_THAN_VAL(ts[t], tsc)
  /\ heap' = [head |-> heap.next[t],
              next |-> [heap.next EXCEPT ![t] = Null],
              prev |-> [heap.prev EXCEPT ![t] = Null, ![heap.next[t]] = Null]]
  /\ enabled' = enabled \ {t}
  /\ left' = [left EXCEPT ![t] = 0]
  /\ UNCHANGED <<ts, timer_target, tsc, timer_inited, added, pc, fatal>>

ProcessEnd ==
  /\ pc = "process"
  /\ heap.head # Null
  /\ ~TIMER_VAL_LESS_THAN_VAL(ts[heap.head], tsc)
  /\ timer_target' = ts[heap.head]
  /\ pc' = "cpu"
  /\ UNCHANGED <<heap, ts, enabled, tsc, timer_inited, added, fatal, left>>

ListInit ==
  /\ heap = [head |-> Null, next |-> [t \in Timers |-> Null],
             prev |-> [t \in Timers |-> Null]]
  /\ ts = [t \in Timers |-> 0]
  /\ enabled = {}
  /\ timer_target = 0
  /\ tsc = 0
  /\ timer_inited = FALSE
  /\ added = {}
  /\ pc = "cpu"
  /\ fatal = FALSE
  /\ left = [t \in Timers |-> 0]

ListNext ==
  \/ \E t \in Timers : \/ \E d \in Delays : timer_set_delay_u64(t, d)
                       \/ timer_disable(t)
                       \/ timer_add(t)
  \/ \E new \in NewTsc : timer_set_new_tsc(new)
  \/ \E n \in 1..MaxBlock : Execute(n)
  \/ ProcessHead \/ ProcessEnd \/ timer_close \/ timer_init

ListSpec == ListInit /\ [][ListNext]_listVars

-----------------------------------------------------------------------------
\* Follows, and the pointers back.
Links(h, s) ==
  /\ Follows(h, s)
  /\ \A i \in 1..Len(s) : h.prev[s[i]] = IF i = 1 THEN Null ELSE s[i - 1]

\* The pointers form one doubly linked list of exactly the timers whose enabled
\* flag can be trusted, whatever stale pointers timer_close left in the others,
\* and neither fatal() of timer.c is ever reached.
WellLinked ==
  /\ ~fatal
  /\ \E s \in Paths : Links(heap, s) /\ ToSet(s) = Listed

\* Although timestamps wrap, their signed distance to the TSC is the time really
\* left, so the list stays in deadline order, the head expires first and
\* timer_target does not lie after it; also after the guest wrote the TSC.
DeadlinesSurviveWrap ==
  /\ \A t \in Listed : Signed(ts[t] - tsc) = left[t]
  /\ \A i \in 1..(Len(Chain) - 1) : left[Chain[i]] <= left[Chain[i + 1]]
  /\ Chain # <<>> => TIMER_VAL_LESS_THAN_VAL(timer_target, ts[Head(Chain)])
=============================================================================
