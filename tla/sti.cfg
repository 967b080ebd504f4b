SPECIFICATION FairSpec
CONSTANTS
  init = init
  shell = shell
  typo = typo
  root = root
  data = data
  NUM_SEG = 5
  NUM_PROCESSES = 4
  USER_STACKS = 5
  MaxNest = 3
  KSTACK = 6
  StackOffsets = {1}
  STACK_TOP = 1
  ProcNames <- OneName
  Files <- OneFile
  InitProgram = init
  ROOT = root
  Fds <- FewFds
  Offsets <- ZeroOrOne
  Words <- MCWords
  Data = data
PROPERTY
  InterruptsOnAfterCall
