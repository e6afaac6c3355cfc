SPECIFICATION ListSpec
CONSTANTS
  Timers = {a, b, c}
  Null = Null
  W = 8
  Delays = {0, 2}
  NewTsc = {7}
  MaxBlock = 1
SYMMETRY TimerSymmetry
INVARIANTS WellLinked DeadlinesSurviveWrap
