\* A clean that races with a user, meets paths it cannot remove, and is interrupted.
SPECIFICATION MCSpec
CONSTANTS
  Paths <- MCPaths
  Markers <- MCMarkers
  NoCache = ""
  MaxEdits = 1
INVARIANTS
  TypeOK
  ZeroMeansNoIssues
  BaselineIsComplete
  CleanRemovesClutter
PROPERTIES
  TrackedSurvives
