SPECIFICATION Spec
CONSTANTS
  UINT_MAX = 15
  MAX_PSYC_PAGES = 2
  MAX_TOTAL_PAGES = 4
  MAX_PRIO_ARR = 5
  Settings <- AloneOrForked
  NPages = 5
  Stores = {0}
  MaxGrow = 2
  Releases = {"P"}

  
  
  
  
  
PROPERTY VictimAsPromised
CHECK_DEADLOCK FALSE
