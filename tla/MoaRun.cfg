SPECIFICATION Spec
CONSTANTS
  N = 3
  Quorum = 2
  ArmTimeout = 2
  RequestTimeout = 3
  Priced = {0, 1}
  Null = Null
  MayBeUnresolved = TRUE
  Usages <- MCUsages
CHECK_DEADLOCK FALSE
INVARIANTS TypeOK FailsClosed CandidatesInRecipeOrder EveryArmBooked CostOnlyIfOk ReplyMatchesLedger WithinDeadline
