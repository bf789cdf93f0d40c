CONSTANTS
    Files = {"f", "g"}
    Start <- MCStart
    Root = "root"
    Subfolders = {"a"}
    MaxOps = 2
    MaxDetours = 2
SPECIFICATION Spec
INVARIANTS ToldIsGone CountIsOfThisOpening
PROPERTY RepliesReachTheirDialog
CHECK_DEADLOCK FALSE
