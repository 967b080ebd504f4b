SPECIFICATION FairSpec
CONSTANTS
  Names = {a, b}
  ENTRIES = 3
  ROOM = 2
  ROOT_START = 1
  MAX_POS = 4
  Offsets = {0}
INVARIANTS
  TypeOK
  ListingCorrect
  SearchCorrect
PROPERTY
  DirectoryEnds
