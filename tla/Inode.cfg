CONSTANTS
  Procs = {p1, p2}
  Inums = {1, 2, 3, 4, 5}
  Root = 1
  Names = {"a", "b", "d"}
  Menus <- MCMenus
  Starts <- MCStarts
  MaxCalls = 3
  NoProc = none
  NoInum = 0
SYMMETRY MCSymmetry
SPECIFICATION Spec
INVARIANTS
  InodesSound
  
PROPERTIES
  NlinkTracksEntries
CHECK_DEADLOCK FALSE
