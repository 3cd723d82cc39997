SPECIFICATION FairSpec
CONSTANTS
  Hops <- OneHop
  RequireAllHops = TRUE
  LaunchFunkydns = FALSE
  StaleAfter = 0
  BlockStart = FALSE
  MaxBackoff = 1
  KillPrompt = TRUE
  MaxSignals = 1
PROPERTIES
  StartingSignalExits
