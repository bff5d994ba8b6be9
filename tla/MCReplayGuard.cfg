SPECIFICATION FairSpec
CONSTANTS
  Builds <- MCBuilds
INVARIANTS
  EvidenceIsOwn
  Discriminates
PROPERTIES
  PassIsEvidence
  Returns
