SPECIFICATION FairSpec
CONSTANTS
  NPROC = 3
  CPUs = {c1, c2}
  None = None
INVARIANTS
  OneProcessor
  NoLostWakeup
PROPERTIES
  OrphansReaped
  KilledExits
CHECK_DEADLOCK FALSE
