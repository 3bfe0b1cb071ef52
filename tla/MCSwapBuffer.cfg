SPECIFICATION Spec
CONSTANTS
  Procs = {p1, p2}
  Pages = {0}
  Pieces = 2
INVARIANT PagesIntact
CHECK_DEADLOCK FALSE
