SPECIFICATION Spec
CONSTANTS
  FACE_UNIT = 2
  FACE_BLEND_MS = 3
  BLINK_PERIOD_MS = 6
  BLINK_MS = 3
  BLINK_CLOSE_MS = 1
  BLINK_OFFSET_MS = 2
  QuarterSin <- MCQuarterSin
  SineEntries = 1
  SineStep = 1
  ClockSize = 6
  FaceStates <- MCStates
  Fields <- MCFields
  Rest <- MCRest
  Swing <- MCSwing
  Period <- MCPeriod
  Width = 4
  Height = 2
  Colours = {0, 1}
  Trackable = TRUE
  Loops = {"l1", "l2"}
  Benches = {"b1"}
  Wanted <- MCWanted
  Passed <- MCPassed
  Looks = {"plain"}
  Plain = "plain"
  Render <- MCRender
  AtPowerOn <- MCAtPowerOn
  BENCH_FRAMES = 2
  MaxStarts = 2
  MaxFaults = 1
INVARIANTS
  TypeOK
  PanelFollows
  Blended
PROPERTIES
  PushesNoMore
  NoSnap
CHECK_DEADLOCK FALSE
