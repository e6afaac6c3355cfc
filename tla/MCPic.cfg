SPECIFICATION Spec
CONSTANTS
  LINES = 3
  CASCADE = 1
  EdgeIrqs <- MCEdgeIrqs
  Cards = {c1, c2}
  LINE_COUNT = 3
  Routes = {1, 2}
  Masks <- MCMasks
  AutoEoi = {"m"}
  Rotate = {"m"}
  Special = {"s"}
SYMMETRY CardSymmetry
INVARIANTS NoPhantom LevelFollowsCards
PROPERTIES EdgeKept Nested
CONSTRAINT OneThingAtATime
