---------------------------- MODULE MCTimerList ----------------------------
(***************************************************************************)
(* TimerList for TLC: three interchangeable timers, a TSC of eight         *)
(* values.                                                                 *)
(***************************************************************************)
EXTENDS TimerList

TimerSymmetry == Permutations(Timers)
=============================================================================
