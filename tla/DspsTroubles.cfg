SPECIFICATION FairSpec
CONSTANTS
  TX_SIZE = 2
  TX_LOW = 0
  TX_HIGH = 1
  RX_SIZE = 2
  RX_LOW = 0
  RX_HIGH = 1
  K = 4
  None = None
  AIR = 0
  Scenarios <- Troubles
CHECK_DEADLOCK FALSE
PROPERTIES ImplementsCable TxDoneUnlessRefused
