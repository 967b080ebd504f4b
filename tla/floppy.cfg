SPECIFICATION FairSpec
CONSTANTS
  SECTOR = 4
  SECTORS = 3
  HEADS = 2
  CYLINDERS = 2
  MaxCount = 9
  BYTE = 3
  MaxPos = 80
INVARIANTS
  TypeOK
  ReadCorrect
  AddressFollowsMap
  AddressExists
PROPERTIES
  WritesInBuffer
  ReadEnds
