SPECIFICATION FairSpec
CONSTANTS
  Hops <- TwoHops
  NumHops = 2
  RequireAllHops = TRUE
  LaunchFunkydns = FALSE
  StaleAfter = 6
  ProbeMax = 2
  Interval = 1
INVARIANTS
  TypeOK
  ReadyIsHonest
  DownHopNoticed
  NeverStale
PROPERTIES
  GoodChainBecomesReady
