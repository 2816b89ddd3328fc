SPECIFICATION FairSpec
CONSTANTS
  Calls = {c1, c2, c3}
  FailureThreshold = 1
  HalfOpenSuccesses = 2
  OpenMs = 1
  Burst = 1
  MaxConcurrent = 1
  MaxRetries = 1
PROPERTY CallsFinish
