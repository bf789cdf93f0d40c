SPECIFICATION Spec
CONSTANTS
  Worker = {w1, w2}
  Key = {k1, k2}
  MaxId = 2
  MaxClock = 2
  MaxFaults = 1
  BatchSize = 2
  MaxAttempts = 2
  StatusWriteTries = 2
  SkippedContents = {}
  Disturbances = {"move"}
SYMMETRY WorkerSymmetry
INVARIANTS TypeOK MarkNeverAhead DoneHasResult ExclusiveClaim ParkedOnlyAfterMaxAttempts
PROPERTIES ResultNeverGoesBack FollowsLifecycle ErrorStaysParked
