\* Two publications forwarded and up to three of our own, two partial writes, two ids.
SPECIFICATION Spec
CONSTANTS
  MaxMsgId = 2
  Qos <- MCQos
  MaxIn = 2
  MaxOut = 3
  MaxPartial = 2
  MaxLosses = 1
CONSTRAINT
  ThirdAsFirst
INVARIANTS
  TypeOK
  NothingDropped
  InboundGoesOn
  CompletedWhenPublished
PROPERTIES
  ForgottenWhenReceived
  ImplementsDelivery
  ExchangesEnd
CHECK_DEADLOCK FALSE
