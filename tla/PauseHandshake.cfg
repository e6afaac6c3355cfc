\* The Qt main loop with everything the guest may do.
SPECIFICATION PauseSpec
CONSTANTS
  Qt = TRUE
  Suspends = TRUE
  Warnings = TRUE
INVARIANT HandshakeInv
PROPERTIES RequestsServed PauseStops
\* A warning may leave both threads waiting for each other.
CHECK_DEADLOCK FALSE
