SPECIFICATION Spec
CONSTANTS
  RENDER_THREADS = 2
  PARAM_SIZE = 2
  WAKE_BELOW = 2
  SLACK = 2
INVARIANTS NotOverwritten NoLostWakeUp
PROPERTY IdleMeansDrawn FifoReturns EveryTriangleDrawn
CHECK_DEADLOCK FALSE
