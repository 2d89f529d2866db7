CONSTANTS
  h1 = h1
  h2 = h2
  Hooks <- MCHooks
  Events <- MCEvents
  MaxEvents = 3
  MaxFaults = 1
SPECIFICATION FairSpec
INVARIANTS
  OneTalker
  SpoolWhole
  StaleOnlyIfRaced
PROPERTIES
  NeverOlder
  CoveredWordShown
CHECK_DEADLOCK FALSE
