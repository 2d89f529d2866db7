CONSTANTS
  Ssids = {home, cafe}
  Passwords = {none, secret}
  Open = none
  NoString = nostring
  MaxCommands = 2
  MaxFaults = 1
  Requests = 2
  MaxPings = 1
SPECIFICATION NetFairSpec
INVARIANTS
  NoOldToken
  FlagSettles
  SavedPairWorked
  GivesLiving
  PingLeavesNothing
PROPERTY CommandEnds
CHECK_DEADLOCK FALSE
