\* The README's promise that run executes the command in the running client.
SPECIFICATION FairSpec
CONSTANTS
  Serve = serve
  Runs = {run}
  MaxAttempts = 2
  ReadyDest = "health"
  ResolverDest = "lo"
  MaxStarts = 1
PROPERTIES
  RunExecutes
