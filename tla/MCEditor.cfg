CONSTANTS
  Letters = {"x"}
  TextFiles <- MCTextFiles
  ScreenRows = 2
  ScreenCols = 2
  ChunkSize = 2
  MaxSize = 3
SPECIFICATION Spec
INVARIANTS
  IndexesInside
  CursorVisible
  CleanMeansSaved
PROPERTIES
  LoadsTheLines
  EditsAtCursor
