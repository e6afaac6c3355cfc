---------------------------- MODULE MCTimerQueue ----------------------------
(***************************************************************************)
(* A small machine for TimerQueue: two permanent timers and the timer of   *)
(* one device, which may be a device that gives timer_add no callback.     *)
(***************************************************************************)
EXTENDS TimerQueue

\* The two permanent timers are interchangeable.
PermanentSymmetry == Permutations(Permanent)

Unused(t) == /\ t \notin added \union enabled \union split \union in_callback
             /\ ts[t] = 0 /\ frac[t] = 0 /\ period[t] = 0

\* The machine has one of its possible devices.
OneDevice == Cardinality({t \in Timers \ Permanent : ~Unused(t)}) <= 1
=============================================================================
