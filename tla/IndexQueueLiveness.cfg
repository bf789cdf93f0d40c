SPECIFICATION FairSpec
CONSTANTS
  Worker = {w1, w2}
  Key = {k1, k2}
  MaxId = 1
  MaxClock = 2
  MaxFaults = 1
  BatchSize = 1
  MaxAttempts = 2
  StatusWriteTries = 2
  SkippedContents = {}
  Disturbances = {"move"}
INVARIANTS TypeOK ExclusiveClaim ParkedOnlyAfterMaxAttempts
PROPERTIES ResultNeverGoesBack FollowsLifecycle ErrorStaysParked StaleIsReindexed
