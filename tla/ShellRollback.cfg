SPECIFICATION Spec
CONSTANTS
  Names <- MCNames
  NameLength <- MCNameLength
  CombinedSize = 20
  MaxSegments = 4
  Fold <- MCFold
  Places <- MCPlaces
  Inputs <- TwoFiles
  MoreInputs = {}
  Chunks = {"x", "y", "z"}
  Texts = {}
  PathSize = 20
  CwdSize = 10
  MaxCommands = 4
  MaxFaults = 1
  Images <- ThreeImages
  Crashing <- MCCrashing
  Capacity = 2
  FilesAtStart <- BothUpdates
PROPERTIES
  RollbackIsPrevious
CHECK_DEADLOCK FALSE
