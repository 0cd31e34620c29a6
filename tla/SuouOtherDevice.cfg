SPECIFICATION FairSpec
CONSTANTS
  HDR = 2
  BUF = 3
  SECTOR = 4
  PART_SIZE = 8
  TRIES = 2
  U16 = 16
  U32 = 32
  Slots = {"slot1", "slot2"}
  None = "none"
  Byte <- MCByte
  Zero = "zero"
  Erased = "erased"
  Garbage = "garbage"
  Flip = "flip"
  ParseHeader <- MCParseHeader
  Lines <- WholeLines
  PatchLens = {0, 3}
  OtherDevs = TRUE
  Statuses = {}
  FactoryFlash <- MCFactoryFlash
  FactoryHeader <- MCFactoryHeader
  MaxTotal = 7
  MaxFaults = 2
  MaxResets = 0
CHECK_DEADLOCK FALSE
INVARIANTS BufferBounded
PROPERTIES RunningSlotKept CommandAnswered
