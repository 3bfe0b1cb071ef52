SPECIFICATION Spec
CONSTANTS
  Procs = {parent, child}
  Frames = {f1, f2, f3}
  Shared = f1
INVARIANT CopiesApart
CHECK_DEADLOCK FALSE
