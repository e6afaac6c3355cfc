--------------------------------- MODULE Tsc ---------------------------------
(***************************************************************************)
(* The time stamp counter of the emulated CPU: the clock that BlockClock   *)
(* advances and against which TimerList keeps its timestamps.              *)
(***************************************************************************)
EXTENDS Integers

CONSTANT
  W          \* number of values of the TSC, and of a timestamp (2^64)

VARIABLE
  tsc        \* cycles, modulo W
=============================================================================
