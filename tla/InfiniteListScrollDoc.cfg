SPECIFICATION FairSpec
CHECK_DEADLOCK FALSE
CONSTANTS
    Views = {"files", "directory", "photos"}
    Dirs = {1, 2, 3}
    Files = {1, 2, 3}
    MaxRank = 2
    PAGE_SIZE = 2
    MaxChanges = 1
    MaxEdits = 1
    MaxFaults = 1

PROPERTIES ScrollAlwaysReachesEnd
