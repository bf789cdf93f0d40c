SPECIFICATION Spec
CONSTANTS
  Request = {r1, r2, r3}
  NumKeys = 4
  InitFiles = 3
  MaxFile = 3
  MaxContent = 3
  Hash <- HashInjective
  PoolSize = 4
  Ops = {"move"}
  SameFile = FALSE
  MaxFaults = 1
  Disturbances = {}
SYMMETRY RequestSymmetry
INVARIANTS NoLostData RowLeadsToBytes MovesExclude NotWedged
