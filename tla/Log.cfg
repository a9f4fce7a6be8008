CONSTANTS
  Procs = {p1, p2}
  Blocks = {b1, b2, b3}
  Vals = {0, 1}
  NoBlock = none
  MAXOPBLOCKS = 2
  LOGSIZE = 4
  size = 4
  OpBlocks = 1
  MaxWrites = 1
  MaxCrashes = 2
SPECIFICATION FairSpec
INVARIANTS
  LogInv
  LogSafe
PROPERTIES
  CrashAtomic
  BeginOpWoken
