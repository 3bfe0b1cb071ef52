SPECIFICATION Spec
CONSTANTS
  EndPage = 2
  SplitPage = 3
  MAXPAGES = 5
  Owners = {boot, p1, p2}
  Boot = boot
  NoFrame = NoFrame
INVARIANTS
  RefsExact
  FreelistExact
  SoleOwnerFrees
PROPERTY OwnershipSpec
