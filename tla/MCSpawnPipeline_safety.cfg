\* Every message shape, every way a request can end, no operator spawns.
SPECIFICATION Spec
CONSTANTS
  Forms <- AllForms
  MaxMessages = 3
  MaxLanterns = 2
  SpawnCoolDown = 1
  ImageOutcomes <- AllImageOutcomes
  CallbackOutcomes <- AllCallbackOutcomes
  OperatorSpawns = 0
INVARIANTS
  TypeOK
  CallbacksMatch
  StalledIffImageFailed
PROPERTIES
  OwnNameWhenCurrent
  ImplementsDisplay
CHECK_DEADLOCK FALSE
