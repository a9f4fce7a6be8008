CONSTANTS
  INT_MAX = 32767
  CPUs = {c0}
  BootCPU = c0
  NoCPU = none
  NPROC = 3
  MaxPid = 3
  Calls = {"fork", "sched_policy", "deadline", "rate"}
  PidArgs = {2, 3}
  Deadlines <- EitherSign
  ExecTimes = {1}
  Rates = {0}
  Policies = {0, 1}
  SleepTimes = {}
  ElapsedCap = 1
SPECIFICATION Spec
INVARIANTS
  ProcInv
PROPERTIES
  DispatchOrder
