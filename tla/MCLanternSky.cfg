\* Three lanterns, six in all sessions, on a grid of three by two.
SPECIFICATION Spec
CONSTANTS
  Depth = 2
  Width = 1
  MaxLanterns = 3
  MaxSpawned = 6
INVARIANTS
  SkyListed
  NeighborsTouch
  PairsSettled
PROPERTIES
  LoadedAsSaved
CHECK_DEADLOCK FALSE
