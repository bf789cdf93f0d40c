SPECIFICATION FairSpec
CONSTANTS
  NumKeys = 3
  NumIds = 4
  Client = {c1}
  BatchSize = 2
  Ops = {"put", "remove", "upload", "move", "delete"}
  SlowTx = TRUE
  MaxClock = 3
  MaxFaults = 1
INVARIANTS SweepsOnlyGoneOrSlipped
PROPERTIES EventuallyInSync
