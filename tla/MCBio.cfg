SPECIFICATION FairSpec
CONSTANTS
  Procs = {p1, p2}
  Blocks = {n1, n2, n3, n4}
  NBUF = 3
  MaxPinned = 1
  None = None
INVARIANTS
  OneCopy
  ReadsLatest
  
PROPERTY IoCompletes
