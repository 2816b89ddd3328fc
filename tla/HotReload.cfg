SPECIFICATION FairSpec
CONSTANTS
  m1 = m1
  m2 = m2
  u1 = u1
  u2 = u2
  k1 = k1
  NoEntry = NoEntry
  Models = {m1, m2}
  Upstreams = {u1, u2}
  CallerKeys = {k1}
  Requests = {r1}
  Configs <- MCConfigs
  MaxReloads = 3
  GcDelay = 1
INVARIANTS TypeOK RuntimesGoverned ProvidersUseMappedSlots BuildFindsItsSlots LimitedKeysHaveLimiters
PROPERTIES StatePreserved LimitersPreserved OrphansCollected
