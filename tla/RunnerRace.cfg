SPECIFICATION Spec
CONSTANTS
  Pumps = {"pumpA"}
  MaxCases = 2
  MaxHits = 5
INVARIANTS
  CaseCountAtLeast
