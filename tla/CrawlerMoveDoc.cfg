SPECIFICATION Spec
CONSTANTS
  NumKeys = 2
  NumIds = 3
  Client = {c1}
  BatchSize = 1
  Ops = {"put", "move"}
  SlowTx = FALSE
  MaxClock = 2
  MaxFaults = 0
SYMMETRY ClientSymmetry
INVARIANTS SweepsOnlyGone
