SPECIFICATION TakenSpec
CONSTANTS
  TX_SIZE = 3
  TX_LOW = 0
  TX_HIGH = 1
  RX_SIZE = 4
  RX_LOW = 0
  RX_HIGH = 1
  K = 3
  None = None
  AIR = 1
  Scenarios <- OneTalks
CHECK_DEADLOCK FALSE
INVARIANTS TypeOK HeldOff NeverHalts
PROPERTIES ImplementsCable Progress
