\* Every configuration and level, two toasts, a ring of three files.
SPECIFICATION InstallationSpec
CONSTANTS
  NumFiles = 3
  FileSize = 2
  MaxLines = 8
  MaxCrashes = 2
  MaxFailures = 1
  Configs <- MCConfigs
  Levels <- MCLevels
  NumPawnTypes = 2
  Responses <- MCResponses
  ToastTime = 2
  MaxToasts = 2
INVARIANTS
  InstallationTypeOK
  NewestKept
  OpenFileIsNewest
  FilesBounded
  OneType
  SetupSafe
PROPERTIES
  ToastKeepsItsTime
  ToastEnds
  StartupEnds
  LogSpec
CHECK_DEADLOCK FALSE
