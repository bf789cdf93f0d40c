SPECIFICATION Spec
CONSTANTS
  Key <- NestedKeys
  NumFiles = 3
  InitKeys <- IndexedKeys
  Client = {c1, c2}
  c1 = c1
  c2 = c2
  Ops <- AnyOps
  OutOfBand = TRUE
  MaxOps = 2
  MaxFaults = 1
SYMMETRY ClientSymmetry
INVARIANTS TypeOK MissingOnlyAfterRace OrphanOnlyAfterRace
