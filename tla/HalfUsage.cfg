SPECIFICATION Spec
CONSTANTS
  None = None
  NotJson = NotJson
  Null = Null
  NoUsage = NoUsage
  NullUsage = NullUsage
  Mtok = 10
  MaxI64 = 50
  MaxRetries = 2
  MaxChunk = 8
  Usages <- MCUsages
  Prices <- MCPrices
  Messages <- MCMessages
CHECK_DEADLOCK FALSE
INVARIANT UnmeasuredIsNotZero
