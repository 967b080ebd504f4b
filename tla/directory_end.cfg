SPECIFICATION Spec
CONSTANTS
  Names = {a, b}
  ENTRIES = 2
  ROOM = 2
  ROOT_START = 1
  MAX_POS = 3
  Offsets = {0}
INVARIANT
  NothingBehindEnd
