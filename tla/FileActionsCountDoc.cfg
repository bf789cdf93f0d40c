CONSTANTS
    Files = {"f", "g"}
    Start <- MCStart
    Root = "root"
    Subfolders = {"a"}
    MaxOps = 1
    MaxDetours = 1
SPECIFICATION Spec
PROPERTY ConfirmWaitsForCount
CHECK_DEADLOCK FALSE
