SPECIFICATION FairSpec
CONSTANTS
  Request = {r1, r2}
  NumKeys = 3
  InitFiles = 2
  MaxFile = 2
  MaxContent = 2
  Hash <- HashInjective
  PoolSize = 3
  Ops = {"move"}
  SameFile = TRUE
  MaxFaults = 1
  Disturbances = {}
INVARIANTS NoLostData RowLeadsToBytes NoLockCycle
PROPERTIES RequestsFinish
