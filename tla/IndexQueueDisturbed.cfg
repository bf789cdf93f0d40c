SPECIFICATION FairSpec
CONSTANTS
  Worker = {w1, w2}
  Key = {k1}
  MaxId = 1
  MaxClock = 2
  MaxFaults = 1
  BatchSize = 1
  MaxAttempts = 1
  StatusWriteTries = 2
  SkippedContents = {}
  Disturbances = {"slow", "lostAck"}
INVARIANTS MarkNeverAhead DoneHasResult
PROPERTIES EventuallySettled
