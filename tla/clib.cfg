SPECIFICATION FairSpec
CONSTANTS
  NAME = 4
  EXT = 2
  TEMPLATE = 5
  DIGITS = 2
  DATA = 4
  MaxNumber = 1100
INVARIANTS
  TypeOK
  ExtractRight
  ExtractWithin
  PrintfRight
  PrintfWithin
  ItoaRight
  OpenRight
PROPERTY
  LibraryReturns
