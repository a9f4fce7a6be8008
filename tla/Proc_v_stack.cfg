CONSTANTS
  INT_MAX = 32767
  CPUs = {c0, c1}
  BootCPU = c0
  NoCPU = none
  NPROC = 3
  MaxPid = 3
  Calls = {"fork", "wait", "sched_policy", "deadline"}
  PidArgs = {3}
  Deadlines = {1}
  ExecTimes = {}
  Rates = {}
  Policies = {0}
  SleepTimes = {}
  ElapsedCap = 1
SPECIFICATION Spec
INVARIANTS
  NoStacklessDispatch
