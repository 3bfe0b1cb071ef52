SPECIFICATION FairSpec
CONSTANTS
  Procs = {p1, p2, p3}
  Blocks = {b1, b2}
  Values = {0, 1}
  LOGSIZE = 2
  MAXOPBLOCKS = 1
  NLog = 3
INVARIANTS
  
  CommitAlone
PROPERTIES
  AtomicSpec
  LogProgress
CHECK_DEADLOCK FALSE
