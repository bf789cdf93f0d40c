SPECIFICATION FairSpec
CONSTANTS
  Key <- MarkerKeys
  NumFiles = 3
  InitKeys <- IndexedKey
  Client = {c1, c2}
  c1 = c1
  c2 = c2
  Ops <- SplitOps
  OutOfBand = TRUE
  MaxOps = 2
  MaxFaults = 1
INVARIANTS MissingOnlyAfterRace OrphanOnlyAfterRace
PROPERTIES EventuallyExact
