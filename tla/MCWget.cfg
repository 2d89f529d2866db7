CONSTANTS
  MaxDownloads = 3
  MaxTouches = 2
  MaxFaults = 2
SPECIFICATION Spec
INVARIANTS
  ExitCodeHonest
  StagingClean
PROPERTIES
  NothingLost
  OldOrNew
CHECK_DEADLOCK FALSE
