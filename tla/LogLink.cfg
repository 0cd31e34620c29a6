SPECIFICATION FairSpec
CONSTANTS
  Tasks = {"t1", "t2"}
  LENGTH = 2
  MIN_COUNT = 1
  COUNT_RANGE = 8
  CALLS = 3
  Nothing = Nothing
  Scenarios <- Courses
CHECK_DEADLOCK FALSE
INVARIANTS TypeOK CountTrue NeverWild InOrder
PROPERTIES Drains
