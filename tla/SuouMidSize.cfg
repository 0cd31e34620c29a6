SPECIFICATION Spec
CONSTANTS
  CHUNK = 2
  Sizes = {3}
  Numbers = {}
  MaxFaults = 0
PROPERTIES Passes
