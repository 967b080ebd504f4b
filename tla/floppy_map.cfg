SPECIFICATION Spec
CONSTANTS
  SECTOR = 2
  SECTORS = 3
  HEADS = 2
  CYLINDERS = 2
  MaxCount = 2
  BYTE = 3
  MaxPos = 24
INVARIANT
  SectorMapFollowed
