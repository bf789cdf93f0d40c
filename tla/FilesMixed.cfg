SPECIFICATION Spec
CONSTANTS
  Request = {r1, r2}
  NumKeys = 3
  InitFiles = 1
  MaxFile = 2
  MaxContent = 2
  Hash <- HashColliding
  PoolSize = 2
  Ops = {"move", "delete", "upload"}
  SameFile = TRUE
  MaxFaults = 1
  Disturbances = {"lostCommit", "unlock"}
SYMMETRY RequestSymmetry
VIEW WithoutBytes
INVARIANTS MovesExclude NothingLeaks WedgedOnlyByPool
CHECK_DEADLOCK FALSE
