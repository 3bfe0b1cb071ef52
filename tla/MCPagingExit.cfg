SPECIFICATION Spec
CONSTANTS
  UINT_MAX = 15
  MAX_PSYC_PAGES = 2
  MAX_TOTAL_PAGES = 4
  MAX_PRIO_ARR = 5
  Settings <- ForkedAndWriting
  NPages = 3
  Stores = {0, 1}
  MaxGrow = 2
  Releases = {}
INVARIANTS
  ParentKeepsPages
CHECK_DEADLOCK FALSE
