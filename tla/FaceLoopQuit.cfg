CONSTANTS
  l1 = l1
  l2 = l2
  w1 = w1
  Loops <- TwoLoops
  Writers <- OneWriter
  WordsUsed <- StateWords
  Samples <- HoldOnly
  Cuts = {1}
  MaxWrites = 1
  MaxStarts = 2
SPECIFICATION Spec
INVARIANT QuitReachesEveryLoop
CHECK_DEADLOCK FALSE
