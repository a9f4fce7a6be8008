CONSTANTS
  INT_MAX = 32767
  CPUs = {c0}
  BootCPU = c0
  NoCPU = none
  NPROC = 3
  MaxPid = 3
  Calls = {"fork", "kill", "wait", "sleep"}
  PidArgs = {2}
  Deadlines = {}
  ExecTimes = {}
  Rates = {}
  Policies = {}
  SleepTimes = {1}
  ElapsedCap = 1
SPECIFICATION FairSpec
INVARIANT SleeperNotStranded
PROPERTIES
  KilledDies
  SleepReturns
  NoStarvation
