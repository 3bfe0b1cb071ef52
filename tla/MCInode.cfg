SPECIFICATION Spec
CONSTANTS
  Procs = {p1, p2}
  NoProc = NoProc
  Names = {"a", "b", "c", "d"}
  NInodes = 6
  NINODE = 6
  NBlocks = 18
  NDIRECT = 1
  NINDIRECT = 2
  Tree <- OneTree
  Menus <- SomeMenus
SYMMETRY Symmetry
INVARIANTS
  CacheSound
  LinksExact
  BlocksExact
  LastPutFrees
  
  
CHECK_DEADLOCK FALSE
