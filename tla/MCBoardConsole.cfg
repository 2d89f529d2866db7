CONSTANTS
  c1 = c1
  c2 = c2
  Callers <- MCCallers
  Calls = {"nsh", "face", "quit"}
  Nobody = nobody
  Terminal = terminal
  MaxCalls = 2
  MaxFaults = 1
SYMMETRY CallerSymmetry
SPECIFICATION Spec
INVARIANTS
  NobodyCollides
  QuietBetween
  ReplyIsOwn
  SecondLoopExplained
CHECK_DEADLOCK FALSE
