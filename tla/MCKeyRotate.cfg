SPECIFICATION Spec
CONSTANTS
  Builds <- MCBuilds
INVARIANTS
  RevokedKeyLogsIn
  Discriminates
PROPERTIES
  PassIsEvidence
