SPECIFICATION FairSpec
CONSTANTS
  TX_SIZE = 2
  TX_LOW = 0
  TX_HIGH = 1
  RX_SIZE = 4
  RX_LOW = 0
  RX_HIGH = 1
  K = 2
  None = None
  AIR = 0
  Scenarios <- BothTalk
CHECK_DEADLOCK FALSE
INVARIANTS HeldOff
