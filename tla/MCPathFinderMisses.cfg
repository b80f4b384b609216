\* One map of 8 by 5 tiles with three obstacles, to every destination.
SPECIFICATION Spec
CONSTANTS
  Width = 8
  Height = 5
  Window = 30
  Maps <- MCMaps
  Starts <- MCStarts
CHECK_DEADLOCK FALSE
INVARIANT
  FindsWhatIsReachable
