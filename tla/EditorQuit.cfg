CONSTANTS
  Letters = {"x"}
  TextFiles <- OneLine
  ScreenRows = 2
  ScreenCols = 2
  ChunkSize = 2
  MaxSize = 3
SPECIFICATION Spec
PROPERTY AsksBeforeLoss
