SPECIFICATION Spec
CONSTANTS
  Worker = {w1}
  Key = {k1}
  MaxId = 1
  MaxClock = 2
  MaxFaults = 0
  BatchSize = 1
  MaxAttempts = 2
  StatusWriteTries = 2
  SkippedContents = {}
  Disturbances = {}
INVARIANT MarkMatchesResult
