SPECIFICATION MoaSpec
CONSTANTS
  Calls <- MCCalls
  other = other
  FailureThreshold = 2
  HalfOpenSuccesses = 1
  OpenMs = 1
  Burst = 1
  MaxConcurrent = 1
  MaxRetries = 1
  N = 2
  Quorum = 1
  ArmTimeout = 2
  RequestTimeout = 3
  Priced = {}
  Usages <- MCUsages
  MayBeUnresolved = FALSE
  Null = Null
CHECK_DEADLOCK FALSE
INVARIANT NothingHeldBehind
PROPERTY RunSettles
