SPECIFICATION FairSpec
CONSTANTS
  Names <- MCNames
  NameLength <- MCNameLength
  CombinedSize = 20
  MaxSegments = 4
  Fold <- MCFold
  Places <- MCPlaces
  Inputs <- MCInputs
  MoreInputs <- MCMoreInputs
  Chunks = {"x", "y", "z"}
  Texts <- MCTexts
  PathSize = 20
  CwdSize = 10
  MaxCommands = 3
  MaxFaults = 1
  Images <- TwoImages
  Crashing <- MCCrashing
  Capacity = 2
  FilesAtStart <- MCFilesAtStart
INVARIANTS
  KeepsAGood
PROPERTIES
  ResolvesRight
  OnlyWhatIsNamed
  TrialEnds
CHECK_DEADLOCK FALSE
