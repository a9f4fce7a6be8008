CONSTANTS
  INT_MAX = 32767
  CPUs = {c0}
  BootCPU = c0
  NoCPU = none
  NPROC = 3
  MaxPid = 3
  Calls = {"fork", "kill", "wait"}
  PidArgs = {2, 3}
  Deadlines = {}
  ExecTimes = {}
  Rates = {}
  Policies = {}
  SleepTimes = {}
  ElapsedCap = 1
SPECIFICATION FairSpec
PROPERTIES
  OrphansReaped
