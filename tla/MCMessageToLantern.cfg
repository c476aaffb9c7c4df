\* Two messages over connections that one loss may break.
SPECIFICATION ProgramSpec
CONSTANTS
  MaxEvents = 2
  MaxFailures = 0
  MaxLosses = 1
  MaxSent = 2
  MaxMessages = 2
  Forms <- MCForms
  MaxLanterns = 1
  SpawnCoolDown = 0
  ImageOutcomes <- MCImageOutcomes
  CallbackOutcomes <- MCCallbackOutcomes
  OperatorSpawns = 0
INVARIANTS
  ConnectionTypeOK
  NothingMissed
PROPERTIES
  ImplementsService
  HeardIsShown
CHECK_DEADLOCK FALSE
