SPECIFICATION FairSpec
CONSTANTS
  LAST = 5
  SLOTS = 2
  DATA_START = 17
  PER_CLUSTER = 8
  SECTORS = 18
  STALE = {2, 4088}
INVARIANTS
  TypeOK
  LoadCorrect
  StaysOnChain
PROPERTY
  LoadEnds
