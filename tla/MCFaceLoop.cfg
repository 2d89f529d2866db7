CONSTANTS
  l1 = l1
  l2 = l2
  w1 = w1
  Loops <- TwoLoops
  Writers <- OneWriter
  WordsUsed <- AllWords
  Samples <- HoldOnly
  Cuts = {1}
  MaxWrites = 2
  MaxStarts = 2
SPECIFICATION FairSpec
INVARIANTS
  TypeOK
  StaleQuitHarmless
  PresetOnce
PROPERTIES
  OnePressOneAction
  QuitStops
  SettlesOnWord
CHECK_DEADLOCK FALSE
