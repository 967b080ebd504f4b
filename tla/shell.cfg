SPECIFICATION FairSpec
CONSTANTS
  LINE = 5
  CCC = 2
  DAY = 24
  FIRST = 47992
  LAST = 48022
INVARIANTS
  TypeOK
  EchoMatches
  CommandIsLine
  NeverAhead
PROPERTY
  PromptComesBack
