SPECIFICATION Spec
CONSTANTS
  Builds <- MCBuilds
  Burst = 3
INVARIANTS
  NothingLost
  Discriminates
PROPERTIES
  PassIsEvidence
  ClosedEventsStayUnset
