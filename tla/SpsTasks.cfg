SPECIFICATION FairSpec
CONSTANTS
  SIZE = 8
  LOW = 1
  HIGH = 4
  PREEMPT = 3
  ON_AIR = 3
  Msg = {"m"}
CHECK_DEADLOCK FALSE
INVARIANTS TypeOK NeverFull NeverStuck HeldBack
PROPERTIES Reopens
