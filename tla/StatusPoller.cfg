CONSTANTS
    Files = {1}
    Kinds = {"image", "unsupported", "other"}
    NewKinds = {"image"}
    MaxPolls = 2
    MaxAttempts = 2
    MaxFetches = 1
    MaxUpsets = 1
SPECIFICATION PollerFairSpec
INVARIANTS ReadyShowsThumbnail NoneOnlyAfterRace
PROPERTIES EventuallyShowsOutcome
CHECK_DEADLOCK FALSE
