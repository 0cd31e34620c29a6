SPECIFICATION Spec
CONSTANTS
  HDR = 2
  BUF = 3
  SECTOR = 4
  PART_SIZE = 8
  TRIES = 2
  U16 = 16
  U32 = 32
  Slots = {"slot1", "slot2"}
  None = "none"
  Byte <- MCByte
  Zero = "zero"
  Erased = "erased"
  Garbage = "garbage"
  Flip = "flip"
  ParseHeader <- MCParseHeader
  Lines <- CutLines
  PatchLens = {3}
  OtherDevs = FALSE
  Statuses = {1}
  FactoryFlash <- MCFactoryFlash
  FactoryHeader <- MCFactoryHeader
  MaxTotal = 8
  MaxFaults = 0
  MaxResets = 0
CHECK_DEADLOCK FALSE
INVARIANTS TypeOK BufferBounded ImageInPlace ErasedAhead
PROPERTIES SwitchOnlyComplete CmpOkMeansSwitched
