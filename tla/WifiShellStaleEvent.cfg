CONSTANTS
  Ssids = {home, cafe}
  Passwords = {none, secret}
  Open = none
  NoString = nostring
  MaxCommands = 3
  MaxFaults = 1
SPECIFICATION Spec
INVARIANT SuccessIsOwn
CHECK_DEADLOCK FALSE
