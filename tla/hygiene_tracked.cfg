\* A clean among tracked files with nobody else at work.
SPECIFICATION MCSpec
CONSTANTS
  Paths <- MCPaths
  Markers <- MCMarkers
  NoCache = ""
  MaxEdits = 0
PROPERTIES
  CleanRemovesOnlyUntracked
