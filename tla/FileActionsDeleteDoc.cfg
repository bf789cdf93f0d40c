CONSTANTS
    Files = {"f", "g"}
    Start <- MCStart
    Root = "root"
    Subfolders = {"a"}
    MaxOps = 1
    MaxDetours = 3
SPECIFICATION Spec
PROPERTY DeleteInvalidatesItsListing
CHECK_DEADLOCK FALSE
