SPECIFICATION Spec
CONSTANTS
  File = {1}
  Day = {1, 2}
  MaxWrites = 2
INVARIANTS KeptInSync
CHECK_DEADLOCK FALSE
