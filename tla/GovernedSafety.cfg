SPECIFICATION Spec
CONSTANTS
  Calls = {c1, c2, c3}
  FailureThreshold = 2
  HalfOpenSuccesses = 2
  OpenMs = 1
  Burst = 2
  MaxConcurrent = 2
  MaxRetries = 1
SYMMETRY CallSymmetry
INVARIANTS TypeOK ProbeSlotOwned PermitsConserved
PROPERTY ImplementsContract
