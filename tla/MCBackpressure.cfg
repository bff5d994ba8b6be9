SPECIFICATION Spec
CONSTANTS
  Builds <- MCBuilds
  Batch = 2
  Low = 1
  High = 6
  Parks = 6
INVARIANTS
  NeverHeldIsTrue
  HeldOnce
  Discriminates
  ParkedThreadGone
PROPERTIES
  PassIsEvidence
