SPECIFICATION FairSpec
CONSTANTS
  Raws <- Configurations
INVARIANTS
  TypeOK
  AcceptedRuns
  RelayIsTheWrittenChain
  GatedCanaryAllowed
PROPERTIES
  AcceptedComesUp
