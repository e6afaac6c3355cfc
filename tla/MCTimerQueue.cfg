SPECIFICATION Spec
CONSTANTS
  Timers = {rtc, poll, dev, nop}
  Permanent = {rtc, poll}
  NullCallback = {nop}
  FracMod = 2
  SignBit = 4
  TIMER_USEC = 3
  MAX_USEC = 1
  Delays = {0, 3, 15}
  Periods = {0, 1, 2}
  MaxBlock = 2
  NewTsc = {0}
  MaxTs = 3
  None = None
INVARIANTS ListMatchesFlags ListSorted TargetNotLate NoCrash
PROPERTY ImplementsService
SYMMETRY PermanentSymmetry
CONSTRAINT OneDevice
