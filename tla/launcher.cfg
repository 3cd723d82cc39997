\* Two signals at any point, the second also on top of the first one's handler.
SPECIFICATION FairSpec
CONSTANTS
  Signals <- MCSignals
  MaxSignals = 2
INVARIANTS
  TypeOK
  NoGroupMemberSurvives
  StoppedIsReported
PROPERTIES
  StopEndsLauncher
\* The launcher ends.
CHECK_DEADLOCK FALSE
