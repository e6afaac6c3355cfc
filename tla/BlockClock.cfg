SPECIFICATION BlockSpec
CONSTANTS
  W = 16
  C = 8
  MaxCycles = 3
  Writes = {0, 5}
INVARIANTS EveryCycleOnce
