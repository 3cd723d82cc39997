SPECIFICATION FairSpec
CONSTANTS
  Hops <- OneHop
  RequireAllHops = TRUE
  LaunchFunkydns = TRUE
  StaleAfter = 0
  BlockStart = TRUE
  MaxBackoff = 2
  KillPrompt = TRUE
  MaxSignals = 1
INVARIANTS
  TypeOK
  StartOnlyThroughGate
  PproxyTracked
  NoOrphanAtExit
  BackoffOnlyAfterFailedStarts
  ReadyAgreesWithGate
PROPERTIES
  FunkydnsDownIsFinal
  KeepsChainGate
  SafeSignalExits
  FunkydnsExitReported
  ReadyFlagConverges
  KeepsRestarting
