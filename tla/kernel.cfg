SPECIFICATION FairSpec
CONSTANTS
  init = init
  shell = shell
  typo = typo
  root = root
  data = data
  NUM_SEG = 4
  NUM_PROCESSES = 3
  USER_STACKS = 4
  MaxNest = 2
  KSTACK = 4
  StackOffsets = {1, 2}
  STACK_TOP = 2
  ProcNames <- OneName
  Files <- OneFile
  InitProgram = init
  ROOT = root
  Fds <- StrayFds
  Offsets <- ZeroOrOne
  Words <- MCWords
  Data = data
INVARIANTS
  TypeOK
  SegmentsExclusive
  NoSegmentLeak
  ProcTree
  OneRunning
  StacksBalanced
  ContextRestored
  ServedWithInterruptsOff
PROPERTIES
  CallsImplemented
  KernelReturns
  InitComesBack
