SPECIFICATION Spec
CONSTANTS
  p1 = p1
  p2 = p2
  p3 = p3
  Procs = {p1, p2, p3}
  First = p1
  Bytes = {1, 2}
  Messages <- MCMessages
  PIPESIZE = 2
  Width = 4
  MaxCount = 2
  MaxKilled = 1
  None = None
INVARIANTS
  FreedLast
  SleepsForReason
PROPERTIES
  StreamSpec
CHECK_DEADLOCK FALSE
