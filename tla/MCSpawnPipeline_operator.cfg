\* The level Blueprint also spawns lanterns and clears the sky.
SPECIFICATION Spec
CONSTANTS
  Forms <- FullForms
  MaxMessages = 3
  MaxLanterns = 2
  SpawnCoolDown = 1
  ImageOutcomes <- ImageOnly
  CallbackOutcomes <- Answered
  OperatorSpawns = 1
INVARIANTS
  NoEarlierData
  NewestLanternsKept
CHECK_DEADLOCK FALSE
