SPECIFICATION Spec
CONSTANTS
  Request = {r1, r2, r3}
  NumKeys = 4
  InitFiles = 2
  MaxFile = 2
  MaxContent = 2
  Hash <- HashInjective
  PoolSize = 4
  Ops = {"move"}
  SameFile = TRUE
  MaxFaults = 0
  Disturbances = {}
SYMMETRY RequestSymmetry
INVARIANTS NoLostData
