\* What status reports about the firewall, across a restart of the container.
SPECIFICATION Spec
CONSTANTS
  Serve = serve
  Runs = {run}
  MaxAttempts = 2
  ReadyDest = "health"
  ResolverDest = "lo"
  MaxStarts = 2
INVARIANTS
  MarkerTellsTheTruth
