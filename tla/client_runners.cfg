\* Serve and an executed process configure the firewall at the same time, across a restart.
SPECIFICATION FairSpec
CONSTANTS
  Serve = serve
  Runs = {run}
  MaxAttempts = 2
  ReadyDest = "health"
  ResolverDest = "lo"
  MaxStarts = 2
INVARIANTS
  TypeOK
  ExecLockedDown
  CompleteWhenQuiet
PROPERTIES
  EveryProcessGetsThrough
