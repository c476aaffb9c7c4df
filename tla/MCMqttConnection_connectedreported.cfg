SPECIFICATION ConnectionSpec
CONSTANTS
  MaxEvents = 4
  MaxFailures = 0
  MaxLosses = 1
  MaxSent = 0
INVARIANTS
  ConnectedReported
CHECK_DEADLOCK FALSE
