SPECIFICATION ConnectionSpec
CONSTANTS
  MaxEvents = 3
  MaxFailures = 2
  MaxLosses = 2
  MaxSent = 0
INVARIANTS
  ReconnectUnderWay
  SubscribeUnderWay
PROPERTIES
  EventuallyOnline
CHECK_DEADLOCK FALSE
