SPECIFICATION Spec
CONSTANTS
  Hops <- TwoHops
  RequireAllHops = FALSE
  LaunchFunkydns = FALSE
  StaleAfter = 1
  BlockStart = FALSE
  MaxBackoff = 3
  KillPrompt = FALSE
  MaxSignals = 2
INVARIANTS
  AtMostOnePproxy
  SafeSignalIsFinal
  OnlyStartingLeavesPproxy
  StrictImpliesRelaxed
PROPERTIES
  KeepsChainGate
