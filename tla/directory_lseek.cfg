SPECIFICATION FairSpec
CONSTANTS
  Names = {a, b}
  ENTRIES = 2
  ROOM = 2
  ROOT_START = 1
  MAX_POS = 3
  Offsets = {1}
PROPERTY
  LseekMoves
