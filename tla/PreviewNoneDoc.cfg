CONSTANTS
    Files = {1}
    Kinds = {"image", "unsupported", "other"}
    NewKinds = {"image"}
    MaxPolls = 2
    MaxAttempts = 2
    MaxFetches = 1
    MaxUpsets = 0
SPECIFICATION PollerSpec
INVARIANT NoneMeansNoPreview
CHECK_DEADLOCK FALSE
