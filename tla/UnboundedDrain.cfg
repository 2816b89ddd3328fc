SPECIFICATION FairSpec
CONSTANTS
  r1 = r1
  r2 = r2
  Absent = Absent
  NaN = NaN
  MaxI64 = 7
  Env <- MCEnv
  Docs <- MCDocs
  Requests = {r1}
  Tokens = {"t1", "t2", "t3"}
  Hash <- MCHash
  Bodies <- MCBodies
  MoaTarget <- MCMoaTarget
CHECK_DEADLOCK FALSE

PROPERTY DrainBounded
