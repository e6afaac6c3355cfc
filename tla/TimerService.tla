---------------------------- MODULE TimerService ----------------------------
(***************************************************************************)
(* What the timer API of timer.h promises the rest of the emulator, with   *)
(* no list, no target and no timestamps: every timer is off or has an      *)
(* amount of time left; a callback runs only when its timer has no whole   *)
(* cycle left, the most overdue timer first, once per arming; and emulated *)
(* time stands still from the moment a timer is found due until every due  *)
(* timer has been served.                                                  *)
(***************************************************************************)
EXTENDS Integers

CONSTANTS Timers,   \* the pc_timer_t objects of the machine
          FracMod,  \* fractions of a cycle per cycle (2^32 in the code)
          Off,      \* a timer that is not running
          None      \* no callback is running

VARIABLES left,         \* time left of each timer, in 1/FracMod of a cycle
          dispatching,  \* due timers are being served
          cb            \* the timer whose callback is running

vars == <<left, dispatching, cb>>

Running == {t \in Timers : left[t] # Off}

\* Whole cycles left; a timer is due when there is none.
Cycles(t) == left[t] \div FracMod
Due == {t \in Running : Cycles(t) <= 0}

Init == /\ left = [t \in Timers |-> Off]
        /\ dispatching = FALSE
        /\ cb = None

\* Device code arms, re-arms or cancels one timer, from a callback or not; the
\* dispatcher itself never does.
Program(t) == /\ ~dispatching \/ cb # None
              /\ left' = [left EXCEPT ![t] = left'[t]]
              /\ UNCHANGED <<dispatching, cb>>

\* A hard reset drops every timer.
Reset == /\ ~dispatching
         /\ left' = [t \in Timers |-> Off]
         /\ UNCHANGED <<dispatching, cb>>

\* The CPU executes for some cycles; a timer this makes due is served now.
Elapse(n) == /\ ~dispatching
             /\ left' = [t \in Timers |->
                           IF t \in Running THEN left[t] - n * FracMod ELSE Off]
             /\ dispatching' \in BOOLEAN
             /\ Due' # {} => dispatching'
             /\ UNCHANGED cb

Dispatch == /\ ~dispatching
            /\ dispatching' = TRUE
            /\ UNCHANGED <<left, cb>>

Fire(t) == /\ dispatching
           /\ cb = None
           /\ t \in Due
           /\ \A u \in Running : Cycles(t) <= Cycles(u)
           /\ left' = [left EXCEPT ![t] = Off]
           /\ cb' \in {t, None}    \* None: its callback is NULL
           /\ UNCHANGED dispatching

Return == /\ cb # None
          /\ cb' = None
          /\ UNCHANGED <<left, dispatching>>

EndDispatch == /\ dispatching
               /\ cb = None
               /\ Due = {}
               /\ dispatching' = FALSE
               /\ UNCHANGED <<left, cb>>

CONSTANT MaxBlock   \* longest stretch of cycles between two timer checks

Next == \/ \E t \in Timers : Program(t) \/ Fire(t)
        \/ \E n \in 1..MaxBlock : Elapse(n)
        \/ Reset \/ Dispatch \/ Return \/ EndDispatch

Spec == Init /\ [][Next]_vars
=============================================================================
