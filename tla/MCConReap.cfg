SPECIFICATION FairSpec
CONSTANTS
  Builds <- MCBuilds
INVARIANTS
  FaultNamed
  Discriminates
PROPERTIES
  PassIsEvidence
  EveryCloseReaped
