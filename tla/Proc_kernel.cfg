CONSTANTS
  INT_MAX = 32767
  CPUs = {c0, c1}
  BootCPU = c0
  NoCPU = none
  NPROC = 3
  MaxPid = 3
  Calls = {"fork", "exit", "wait", "kill", "exec_time", "fault"}
  PidArgs = {1, 2}
  Deadlines = {}
  ExecTimes = {1}
  Rates = {}
  Policies = {}
  SleepTimes = {1}
  ElapsedCap = 1
SPECIFICATION Spec
INVARIANTS
  ExactlyOneCPU
  StackInUse
  WaiterNotStranded
  ParentsAlive
  EmbryoOwned
  OnlyInitPanics
PROPERTIES
  StateChanges
