CONSTANTS
    Table <- AllHarnesses
    MaxTrouble = 2
SPECIFICATION Spec
INVARIANTS Discriminates SightIsProof EvidenceIsOwn
PROPERTIES PassIsEvidence
