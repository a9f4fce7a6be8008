CONSTANTS
  Procs = {p1, p2}
  Blocks = {k1, k2, k3, k4}
  Vals = {0, 1}
  Written = {k1}
  NBUF = 3
  MaxPinned = 1
  NoProc = none
  NoBlock = noblock
SPECIFICATION FairSpec
INVARIANTS
  BioInv
  CacheSound
PROPERTIES
  RequestsFinish
