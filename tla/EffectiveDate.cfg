SPECIFICATION Spec
CONSTANTS
  File = {1, 2, 3}
  Day = {1, 2}
  MaxWrites = 4
INVARIANTS TypeOK StaleOnlyAfterOverlap OneHeadingPerDay
CHECK_DEADLOCK FALSE
