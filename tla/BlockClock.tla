----------------------------- MODULE BlockClock -----------------------------
(***************************************************************************)
(* How exec386_dynarec keeps the time stamp counter.  A recompiled block   *)
(* counts its cycles in `cycles`; the TSC is brought up to date when the   *)
(* block ends and, before that, by update_tsc whenever an instruction of   *)
(* the block needs the time.  Both add only what the other has not added   *)
(* yet, which they infer from how far the TSC has moved since the block    *)
(* began.  A WRMSR moves the TSC too.                                      *)
(***************************************************************************)
EXTENDS Tsc

CONSTANTS
  C,         \* number of values of an int cycle count (2^32)
  MaxCycles, \* bound: most cycles in one block
  Writes     \* values the guest writes to the TSC

\* An int is narrower than the TSC, and a block is short enough for one.
ASSUME ClockConstants ==
  /\ W \in Nat \ {0} /\ C \in Nat \ {0} /\ C % 2 = 0 /\ W % C = 0
  /\ MaxCycles \in Nat /\ MaxCycles < C \div 2
  /\ Writes \subseteq 0..(W - 1)

VARIABLES
  tsc_old,   \* tsc when the block began (also oldtsc)
  used,      \* cycles_old - cycles: cycles the block has used
  running,   \* a block is being executed
  written,   \* the guest wrote the TSC in this block
  real       \* history: what the TSC should be, every cycle of the block counted
             \* once from tsc_old

blockVars == <<tsc, tsc_old, used, running, written, real>>

\* A 64-bit value assigned to an int.
ToInt(x) == LET m == x % C IN IF m >= C \div 2 THEN m - C ELSE m

\* Variant: what update_tsc has already added is added again.
MissingAll == used

\* Cycles still to be added: both places subtract the movement of the TSC.
Missing == LET delta == (tsc - tsc_old) % W
           IN  IF delta > 0 THEN ToInt(used - delta) ELSE used

UpToDate == IF Missing > 0 THEN (tsc + Missing) % W ELSE tsc

BlockStart ==
  /\ ~running
  /\ running' = TRUE
  /\ tsc_old' = tsc
  /\ used' = 0
  /\ written' = FALSE
  /\ real' = tsc
  /\ UNCHANGED tsc

Instruction(n) ==
  /\ running
  /\ used + n <= MaxCycles
  /\ used' = used + n
  /\ real' = (real + n) % W
  /\ UNCHANGED <<tsc, tsc_old, running, written>>

update_tsc ==
  /\ running
  /\ tsc' = UpToDate
  /\ UNCHANGED <<tsc_old, used, running, written, real>>

\* timer_set_new_tsc, from WRMSR: update_tsc, then the value written.
wrmsr_tsc(new) ==
  /\ running
  /\ tsc' = new
  /\ written' = TRUE
  /\ UNCHANGED <<tsc_old, used, running, real>>

BlockEnd ==
  /\ running
  /\ running' = FALSE
  /\ tsc' = UpToDate
  /\ UNCHANGED <<tsc_old, used, written, real>>

BlockInit ==
  /\ tsc = 0
  /\ tsc_old = 0
  /\ used = 0
  /\ running = FALSE
  /\ written = FALSE
  /\ real = 0

BlockNext ==
  \/ BlockStart
  \/ \E n \in 1..MaxCycles : Instruction(n)
  \/ update_tsc
  \/ \E new \in Writes : wrmsr_tsc(new)
  \/ BlockEnd

BlockSpec == BlockInit /\ [][BlockNext]_blockVars

-----------------------------------------------------------------------------
\* Within a block what is missing from the TSC is what update_tsc would add, and
\* when it ends every cycle has been added exactly once, however often update_tsc
\* ran and although the TSC wraps.  Blocks in which the guest writes the TSC are
\* excepted: the end of the block takes the jump for cycles already added, so
\* the value written is lost or cycles are.
EveryCycleOnce ==
  ~written => IF running THEN (real - tsc) % W = Missing ELSE tsc = real
=============================================================================
