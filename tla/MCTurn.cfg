SPECIFICATION Spec
CONSTANTS
  MaxModeRetries = 1
  MaxRouteRetries = 2
INVARIANT
  RightPath
CHECK_DEADLOCK FALSE
