SPECIFICATION BlitSpec
CONSTANT FRAMES = 4
INVARIANTS NoTearing BlitHeard
PROPERTIES FramesInOrder FrameTaken WaitsEnd
CHECK_DEADLOCK FALSE
