SPECIFICATION Spec
CONSTANTS
  Width = 4
  Height = 4
  Window = 30
  MaxObstacles = 4
  Maps <- MCMaps
  Starts <- MCStarts
CHECK_DEADLOCK FALSE
INVARIANTS
  RouteIsReachable
  NothingTwice
