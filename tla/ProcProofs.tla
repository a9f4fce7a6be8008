----------------------------- MODULE ProcProofs -----------------------------
(***************************************************************************)
(* ProcInv is an invariant of every behaviour of Proc in which             *)
(* sched_policy() refuses nobody, for any number of CPUs, any table size   *)
(* and any system call arguments; the safety properties follow from it.    *)
(***************************************************************************)
EXTENDS ProcWaitProofs
-----------------------------------------------------------------------------
\* No lost wakeup in sys_sleep(): the process that has found its time not yet
\* up holds tickslock until sleep() has made it SLEEPING, so that no tick comes
\* between its test and its sleep.
LEMMA TickInvStep ==
  ASSUME ProcInv, [Next /\ ~Refusal]_vars PROVE TickInv'
<1>0. TickInv /\ ThreadInv /\ ExactlyOneCPU
  BY DEF ProcInv
<1>a. \A c \in CPUs : cproc[c] # 0 => cproc[c] \in Slots
                                      /\ state[cproc[c]] = "RUNNING"
  BY OnCPU
\* A step of CPU c preserves TickInv if it leaves the clock alone, and the
\* process on c is not in sleep()'s window and does not enter it.
<1>1. ASSUME NEW c \in CPUs, UNCHANGED <<tickslock, intick, left>>,
             \A q \in Slots : pc'[q] = "sleep_acq" =>
                pc[q] = "sleep_acq" /\ trap'[q] = trap[q] /\ q # cproc[c],
             \A d \in CPUs \ {c} : cproc'[d] = cproc[d],
             \A q \in Slots : state'[q] = "SLEEPING" /\ pc'[q] = "sleep_sched" =>
                state[q] = "SLEEPING" /\ pc[q] = "sleep_sched"
      PROVE  TickInv'
  <2>1. SleeperNotStranded'
    BY <1>0, <1>1, Zenon DEF TickInv, SleeperNotStranded
  <2>2. ASSUME NEW q \in Slots, pc'[q] = "sleep_acq"
        PROVE  /\ ~intick' /\ left'[q] > 0 /\ trap'[q] = "none"
               /\ tickslock' \in CPUs /\ cproc'[tickslock'] = q
    <3>1. /\ pc[q] = "sleep_acq" /\ trap'[q] = trap[q] /\ q # cproc[c]
          /\ UNCHANGED <<tickslock, intick, left>>
      BY <1>1, <2>2, Zenon
    <3>2. /\ ~intick /\ left[q] > 0 /\ trap[q] = "none"
          /\ tickslock \in CPUs /\ cproc[tickslock] = q
      BY <1>0, <3>1, Zenon DEF TickInv
    <3>3. cproc'[tickslock] = q
      BY <1>1, <3>1, <3>2, Zenon
    <3> QED
      BY <3>1, <3>2, <3>3, Zenon
  <2>3. intick' => tickslock' = BootCPU
    BY <1>0, <1>1, Zenon DEF TickInv
  <2> QED
    BY <2>1, <2>2, <2>3, Zenon DEF TickInv
\* The same for a step that only moves the RUNNING process on c.
<1>2. ASSUME NEW c \in CPUs, cproc[c] # 0, UNCHANGED <<tickslock, intick, left>>,
             pc[cproc[c]] # "sleep_acq",
             \A q \in Slots \ {cproc[c]} : pc'[q] = pc[q] /\ trap'[q] = trap[q],
             pc'[cproc[c]] # "sleep_acq",
             \A d \in CPUs \ {c} : cproc'[d] = cproc[d],
             \A q \in Slots : state'[q] = "SLEEPING" => \/ state[q] = "SLEEPING"
                                                        \/ pc'[q] # "sleep_sched"
      PROVE  TickInv'
  BY <1>1, <1>2, <1>a
<1>3. ASSUME NEW c \in CPUs, SchedAcquire(c) \/ SchedRelease(c) \/ ExitInit(c)
      PROVE  TickInv'
  <2>1. UNCHANGED <<state, pc, trap, left, tickslock, intick, cproc>>
    BY <1>3, Zenon DEF SchedAcquire, SchedRelease, ExitInit, procVars, tickVars,
       locVars, cpuVars
  <2> QED
    BY <1>0, <2>1 DEF TickInv, SleeperNotStranded
<1>4. ASSUME NEW c \in CPUs, SchedRun(c) PROVE TickInv'
  <2>1. PICK h \in Slots : /\ state[h] = "RUNNABLE" /\ cproc[c] = 0
                           /\ cproc' = [cproc EXCEPT ![c] = h]
                           /\ state' = [state EXCEPT ![h] = "RUNNING"]
    BY <1>4, RunStep, Zenon
  <2>2. UNCHANGED <<pc, trap, left, tickslock, intick>>
    BY <1>4, RunStep, Zenon
  <2> QED
    BY <1>1, <2>1, <2>2, Types
<1>5. ASSUME NEW c \in CPUs, Enter(c) PROVE TickInv'
  <2>1. PICK l \in AllCalls : pc' = [pc EXCEPT ![cproc[c]] = l]
    BY <1>5, CallAssumption, Zenon DEF Enter, UserCalls, Goto, AllCalls
  <2>2. l # "sleep_acq"
    BY DEF AllCalls
  <2> QED
    BY Zenon, <1>2, <1>5, <1>a, <2>1, <2>2, Types
       DEF Enter, At, procVars, tickVars, cpuVars
<1>6. ASSUME NEW c \in CPUs, Fault(c) \/ Ret(c) \/ Forkret(c) PROVE TickInv'
  BY Zenon, <1>2, <1>6, <1>a, Types
     DEF Fault, Ret, AfterFork, Forkret, At, Goto, procVars, tickVars, cpuVars
<1>7. ASSUME NEW c \in CPUs, ForkAlloc(c) PROVE TickInv'
  <2>1. /\ cproc[c] \in Slots /\ pc[cproc[c]] = "fork" /\ cproc[c] # 0
        /\ UNCHANGED <<cproc, tickslock, intick, left>>
    BY <1>7, <1>a, Zenon DEF ForkAlloc, At, cpuVars, tickVars
  <2>2. CASE /\ UNCHANGED <<state, trap>>
             /\ pc' = [pc EXCEPT ![cproc[c]] = "ret_fail"]
    BY <1>2, <2>1, <2>2, Types
  <2>3. ASSUME NEW q \in Slots, state' = [state EXCEPT ![q] = "EMBRYO"],
               pc' = [pc EXCEPT ![cproc[c]] = "fork_build", ![q] = "forkret"],
               trap' = [trap EXCEPT ![q] = "none"]
        PROVE  TickInv'
    BY Zenon, <1>1, <2>1, <2>3, Types
  <2> QED
    BY <1>7, <2>2, <2>3, Zenon DEF ForkAlloc, Goto, procVars
<1>8. ASSUME NEW c \in CPUs, ForkBuild(c) PROVE TickInv'
  BY Zenon, <1>2, <1>8, <1>a, Types DEF ForkBuild, At, Goto, tickVars, cpuVars
<1>9. ASSUME NEW c \in CPUs, ForkPublish(c) PROVE TickInv'
  BY Zenon, <1>2, <1>9, <1>a, Types DEF ForkPublish, At, Goto, tickVars, cpuVars
<1>10. ASSUME NEW c \in CPUs, Exit(c) PROVE TickInv'
  BY Zenon, <1>2, <1>10, <1>a, Types
     DEF Exit, Woken, Goto, tickVars, SwtchToScheduler
<1>11. ASSUME NEW c \in CPUs, WaitReap(c) PROVE TickInv'
  <2>1. /\ cproc[c] \in Slots /\ cproc[c] # 0
        /\ pc[cproc[c]] \in {"wait", "wait_sleep"}
        /\ pc' = [pc EXCEPT ![cproc[c]] = "ret"]
        /\ UNCHANGED <<cproc, tickslock, intick, left, trap>>
    BY Zenon, <1>11, <1>a DEF WaitReap, InWait, At, Goto, tickVars
  <2>2. \A q \in Slots : state'[q] = "SLEEPING" => state[q] = "SLEEPING"
    BY Zenon, <1>11, Types DEF WaitReap
  <2> QED
    BY Zenon, <1>2, <2>1, <2>2, Types
<1>12. ASSUME NEW c \in CPUs, WaitFail(c) \/ WaitSleep(c) PROVE TickInv'
  BY <1>2, <1>12, <1>a, Types
     DEF WaitFail, WaitSleep, InWait, At, Goto, tickVars, SwtchToScheduler
<1>13. ASSUME NEW c \in CPUs, Kill(c) PROVE TickInv'
  BY Zenon, <1>2, <1>13, <1>a, Types DEF Kill, At, Goto, tickVars, cpuVars
<1>14. ASSUME NEW c \in CPUs, SleepTest(c) PROVE TickInv'
  <2> DEFINE p == cproc[c]
  <2>1. /\ p \in Slots /\ state[p] = "RUNNING" /\ trap[p] = "none"
        /\ tickslock = NoCPU /\ UNCHANGED <<state, trap, cproc, intick>>
        /\ pc[p] \in {"sleep", "sleep_reacq"}
    BY Zenon, <1>14, <1>a DEF SleepTest, At, procVars, cpuVars
  <2>2. /\ \A q \in Slots : pc[q] # "sleep_acq"
        /\ ~intick
    BY <1>0, <2>1, CPUAssumption DEF TickInv
  <2>3. /\ left' \in [Slots -> Nat]
        /\ \A q \in Slots \ {p} : left'[q] = left[q]
    BY <1>14, <2>1, Types, ParamAssumption DEF SleepTest
  <2>4. \/ pc' = [pc EXCEPT ![p] = "ret"] /\ tickslock' = tickslock
        \/ /\ pc' = [pc EXCEPT ![p] = "sleep_acq"] /\ tickslock' = c
           /\ left'[p] # 0
    BY <1>14 DEF SleepTest, Goto, HoldTickslock
  <2>5. cproc'[c] = p
    BY <2>1
  <2> HIDE DEF p
  <2>6. SleeperNotStranded'
    BY <1>0, <2>1, <2>3, <2>4, Types DEF TickInv, SleeperNotStranded
  <2>7. \A q \in Slots : pc'[q] = "sleep_acq" =>
          q = p /\ tickslock' = c /\ left'[q] > 0
    BY <2>1, <2>2, <2>3, <2>4, Types
  <2> QED
    BY <2>1, <2>2, <2>5, <2>6, <2>7, Zenon DEF TickInv
<1>15. ASSUME NEW c \in CPUs, SleepSched(c) PROVE TickInv'
  <2> DEFINE p == cproc[c]
  <2>1. /\ p \in Slots /\ pc[p] = "sleep_acq" /\ tickslock' = NoCPU
        /\ pc' = [pc EXCEPT ![p] = "sleep_sched"] /\ UNCHANGED <<left, intick>>
        /\ state' = [state EXCEPT ![p] = "SLEEPING"]
    BY <1>15, <1>a DEF SleepSched, At, Goto
  <2>2. ~intick /\ left[p] > 0 /\ \A q \in Slots : pc[q] = "sleep_acq" => q = p
    BY <1>0, <2>1 DEF TickInv
  <2> HIDE DEF p
  <2>3. \A q \in Slots : pc'[q] # "sleep_acq"
    BY <2>1, <2>2, Types
  <2>4. SleeperNotStranded'
    BY <1>0, <2>1, <2>2, Types DEF TickInv, SleeperNotStranded
  <2> QED
    BY <2>1, <2>2, <2>3, <2>4, Zenon DEF TickInv
<1>16. ASSUME NEW c \in CPUs, SleepResume(c) PROVE TickInv'
  BY Zenon, <1>2, <1>16, <1>a, Types DEF SleepResume, At, Goto, tickVars
<1>17. ASSUME NEW c \in CPUs, TimerIntr(c) PROVE TickInv'
  <2>1. cproc[c] # 0 /\ pc[cproc[c]] # "sleep_acq"
    BY <1>0, <1>17, <1>a DEF TimerIntr, Interruptible, TickInv, ExactlyOneCPU
  <2> QED
    BY Zenon, <1>2, <1>17, <1>a, <2>1, Types DEF TimerIntr, procVars, tickVars, cpuVars
<1>18. ASSUME NEW c \in CPUs, TrapKilled(c) \/ TrapCheck(c) \/ TrapEnd(c)
       PROVE  TickInv'
  <2>1. cproc[c] # 0 /\ pc[cproc[c]] # "sleep_acq"
    BY Zenon, <1>0, <1>18, <1>a DEF TrapKilled, TrapCheck, TrapEnd, InTrap, TickInv
  <2>2. pc' = pc \/ pc' = [pc EXCEPT ![cproc[c]] = "exit"]
    BY <1>18, Zenon DEF TrapKilled, TrapCheck, TrapEnd, ExitFromTrap, Goto
  <2>3. \A q \in Slots \ {cproc[c]} : trap'[q] = trap[q]
    BY <1>18, Types, Zenon DEF TrapKilled, TrapCheck, TrapEnd, ExitFromTrap
  <2>4. UNCHANGED <<state, cproc, tickslock, intick, left>>
    BY <1>18, Zenon DEF TrapKilled, TrapCheck, TrapEnd, procVars, cpuVars, tickVars
  <2> QED
    BY <1>2, <1>a, <2>1, <2>2, <2>3, <2>4, Types
<1>19. ASSUME NEW c \in CPUs, Yield(c) \/ YieldResume(c) PROVE TickInv'
  <2>1. cproc[c] # 0 /\ pc[cproc[c]] # "sleep_acq"
    BY Zenon, <1>0, <1>19, <1>a DEF Yield, YieldResume, InTrap, TickInv
  <2> QED
    BY Zenon, <1>2, <1>19, <1>a, <2>1, Types
       DEF Yield, YieldResume, SwtchToScheduler, procVars, tickVars
<1>20. ASSUME NEW c \in CPUs, SchedPolicy(c) PROVE TickInv'
  <2>a. pc'[cproc[c]] = "ret" /\ pc[cproc[c]] = "sched_policy"
    BY Zenon, <1>20, <1>a, Types DEF SchedPolicy, At, Goto
  <2>b. ~Refusal
    BY Zenon, <2>a DEF vars, locVars
  <2>1. Quiet
    BY <1>20, <2>b, QuietSteps DEF QuietAction
  <2> QED
    BY Zenon, <1>2, <1>20, <1>a, <2>1, Types
       DEF Quiet, SchedPolicy, At, Goto, tickVars
<1>21. ASSUME NEW c \in CPUs, Deadline(c) \/ ExecTime(c) \/ Rate(c) PROVE TickInv'
  BY <1>2, <1>21, <1>a, Types, Zenon
     DEF Deadline, ExecTime, Rate, At, Goto, procVars, tickVars, cpuVars
<1>22. CASE TickBegin
  <2>1. /\ tickslock' = BootCPU /\ intick' = TRUE
        /\ UNCHANGED <<pc, trap, state, cproc>>
    BY <1>22 DEF TickBegin, procVars, cpuVars
  <2>2. \A q \in Slots : pc[q] # "sleep_acq"
    BY <1>0, <1>22, CPUAssumption, Zenon DEF TickBegin, TickInv
  <2> QED
    BY <2>1, <2>2, Zenon DEF TickInv, SleeperNotStranded
<1>23. CASE TickWakeup
  <2>1. \A q \in Slots : pc'[q] # "sleep_acq"
    BY <1>0, <1>23, Zenon DEF TickWakeup, TickInv
  <2>2. \A q \in Slots : state'[q] = "SLEEPING" => pc'[q] # "sleep_sched"
    BY Zenon, <1>0, <1>23, Types DEF TickWakeup, Woken, ThreadInv
  <2>3. intick' = FALSE
    BY <1>23, Zenon DEF TickWakeup
  <2> QED
    BY <2>1, <2>2, <2>3, Zenon DEF TickInv, SleeperNotStranded
<1>24. CASE UNCHANGED vars
  BY Zenon, <1>0, <1>24 DEF TickInv, SleeperNotStranded, vars, procVars, tickVars,
     locVars, cpuVars
<1> QED
  BY <1>3, <1>4, <1>5, <1>6, <1>7, <1>8, <1>9, <1>10, <1>11, <1>12, <1>13,
     <1>14, <1>15, <1>16, <1>17, <1>18, <1>19, <1>20, <1>21, <1>22, <1>23,
     <1>24 DEF Next, Halt

\* scheduler() finds a stack and a thread to resume, wait() a stack to free.
LEMMA PanicInvStep ==
  ASSUME ProcInv, [Next /\ ~Refusal]_vars PROVE PanicInv'
<1>0. PanicInv /\ StackInv /\ ThreadInv
  BY DEF ProcInv
<1>1. ASSUME NEW c \in CPUs, SchedRun(c) PROVE PanicInv'
  <2>1. PICK h \in Slots :
          /\ state[h] = "RUNNABLE"
          /\ panicked' = IF ~kstack[h] THEN "switchuvm: no kstack"
                         ELSE IF pc[h] = "zombie" THEN "zombie exit" ELSE "no"
    BY <1>1, RunStep, Zenon
  <2> QED
    BY <1>0, <2>1, Zenon DEF PanicInv, StackInv, ThreadInv
<1>2. ASSUME NEW c \in CPUs, WaitReap(c) PROVE PanicInv'
  <2>1. PICK q \in Slots : /\ state[q] = "ZOMBIE"
                           /\ panicked' = IF kstack[q] THEN "no" ELSE "kfree"
    BY <1>2 DEF WaitReap, Zombies, Kids
  <2> QED
    BY <1>0, <2>1, Zenon DEF PanicInv, StackInv
<1>3. ASSUME NEW c \in CPUs, ExitInit(c) \/ SchedPolicy(c) PROVE PanicInv'
  BY <1>0, <1>3, Zenon DEF PanicInv, ExitInit, SchedPolicy, SetEDF, SetRM, Refuse
<1>4. ASSUME NEW c \in CPUs,
             \/ SchedAcquire(c) \/ SchedRelease(c) \/ Enter(c) \/ Fault(c) \/ Ret(c)
             \/ ForkAlloc(c) \/ ForkBuild(c) \/ ForkPublish(c) \/ Forkret(c)
             \/ Exit(c) \/ WaitFail(c) \/ WaitSleep(c) \/ Kill(c)
      PROVE  panicked' = panicked
  BY <1>4, Zenon DEF SchedAcquire, SchedRelease, Enter, Fault, Ret, ForkAlloc,
     ForkBuild, ForkPublish, Forkret, Exit, WaitFail, WaitSleep, Kill
<1>5. ASSUME NEW c \in CPUs,
             \/ SleepTest(c) \/ SleepSched(c) \/ SleepResume(c) \/ TimerIntr(c)
             \/ TrapKilled(c) \/ TrapCheck(c) \/ Yield(c) \/ YieldResume(c)
             \/ TrapEnd(c) \/ Deadline(c) \/ ExecTime(c) \/ Rate(c)
      PROVE  panicked' = panicked
  BY <1>5, Zenon DEF SleepTest, SleepSched, SleepResume, TimerIntr, TrapKilled,
     TrapCheck, Yield, YieldResume, TrapEnd, Deadline, ExecTime, Rate
<1>6. CASE TickBegin \/ TickWakeup \/ UNCHANGED vars
  BY <1>0, <1>6, Zenon DEF PanicInv, TickBegin, TickWakeup, vars
<1>7. CASE panicked' = panicked
  BY <1>0, <1>7, Zenon DEF PanicInv
<1> QED
  BY <1>1, <1>2, <1>3, <1>4, <1>5, <1>6, <1>7 DEF Next, Halt
-----------------------------------------------------------------------------
(* The theorems *)

\* userinit() establishes ProcInv.
LEMMA InitInv == Init => ProcInv
<1> SUFFICES ASSUME Init PROVE ProcInv
  OBVIOUS
<1> USE SizeAssumption, CPUAssumption, CapAssumption
<1>5. TypeOK
  BY InitTypes
<1>6. initproc \in Slots /\ 0 \notin Slots
  BY DEF initproc, Slots
<1>7. ExactlyOneCPU
  BY Zenon, <1>6 DEF Init, ExactlyOneCPU
<1>8. ThreadInv /\ StackInv /\ ForkInv
  BY <1>6, Zenon DEF Init, ThreadInv, StackInv, ForkInv
<1>9. ParentInv /\ WaitInv
  BY Zenon, <1>6 DEF Init, ParentInv, ParentsAlive, WaitInv
<1>10. TickInv
  BY Zenon DEF Init, TickInv, SleeperNotStranded
<1>11. PidInv /\ PanicInv
  BY <1>6 DEF Init, PidInv, PidsDistinct, PanicInv
<1> QED
  BY <1>5, <1>7, <1>8, <1>9, <1>10, <1>11 DEF ProcInv

\* Every step without a refusal preserves ProcInv.
LEMMA StepInv == ProcInv /\ [Next /\ ~Refusal]_vars => ProcInv'
<1> SUFFICES ASSUME ProcInv, [Next /\ ~Refusal]_vars PROVE ProcInv'
  OBVIOUS
<1>1. TypeOK'
  BY TypeStep DEF ProcInv
<1> QED
  BY Zenon, <1>1, ExactlyOneCPUStep, ThreadInvStep, StackInvStep, ForkInvStep,
     ParentInvStep, WaitInvStep, TickInvStep, PidInvStep, PanicInvStep
     DEF ProcInv

\* fork, exit, wait, kill, sleep, the clock, the scheduler and the granted
\* real-time requests keep the process table consistent, on any number of CPUs.
THEOREM ProcInvariant == GrantedSpec => []ProcInv
BY InitInv, StepInv, PTL DEF GrantedSpec

\* The safety properties are consequences of ProcInv.
LEMMA ProcInvImplies ==
  ProcInv => /\ ExactlyOneCPU /\ StackInUse /\ WaiterNotStranded
             /\ SleeperNotStranded /\ ParentsAlive /\ NoStacklessDispatch
<1> SUFFICES ASSUME ProcInv
             PROVE  /\ ExactlyOneCPU /\ StackInUse /\ WaiterNotStranded
                    /\ SleeperNotStranded /\ ParentsAlive /\ NoStacklessDispatch
  OBVIOUS
<1>1. StackInUse
  BY Zenon, OnCPU DEF ProcInv, StackInv, StackInUse
<1>2. WaiterNotStranded
  BY Zenon DEF ProcInv, WaitInv, WaiterNotStranded
<1>3. NoStacklessDispatch
  BY Zenon DEF ProcInv, PanicInv, NoStacklessDispatch
<1> QED
  BY Zenon, <1>1, <1>2, <1>3 DEF ProcInv, TickInv, ParentInv

\* A process runs on one CPU at a time.
THEOREM OneCPU == GrantedSpec => []ExactlyOneCPU
BY ProcInvariant, ProcInvImplies, PTL

\* wait() frees no kernel stack that a CPU is executing on.
THEOREM StacksSafe == GrantedSpec => []StackInUse
BY ProcInvariant, ProcInvImplies, PTL

\* wait() loses no wakeup.
THEOREM WaitersWoken == GrantedSpec => []WaiterNotStranded
BY ProcInvariant, ProcInvImplies, PTL

\* sys_sleep() loses no wakeup.
THEOREM SleepersWoken == GrantedSpec => []SleeperNotStranded
BY ProcInvariant, ProcInvImplies, PTL

\* exit() leaves no orphan.
THEOREM NoOrphans == GrantedSpec => []ParentsAlive
BY ProcInvariant, ProcInvImplies, PTL

\* switchuvm()'s panic("switchuvm: no kstack") is out of reach unless
\* sched_policy() refuses a process.
THEOREM DispatchSafe == GrantedSpec => []NoStacklessDispatch
BY ProcInvariant, ProcInvImplies, PTL
-----------------------------------------------------------------------------
(* The life cycle of a process *)

\* Only the steps of a life change p->state.
StateStep == \A p \in Slots : state'[p] # state[p] => Lifecycle(state[p], state'[p])

\* The steps that the code takes are steps of a life.
LEMMA Lives ==
  /\ Lifecycle("UNUSED", "EMBRYO") /\ Lifecycle("EMBRYO", "UNUSED")
  /\ Lifecycle("EMBRYO", "RUNNABLE") /\ Lifecycle("RUNNABLE", "RUNNING")
  /\ Lifecycle("RUNNING", "RUNNABLE") /\ Lifecycle("RUNNING", "SLEEPING")
  /\ Lifecycle("RUNNING", "ZOMBIE") /\ Lifecycle("SLEEPING", "RUNNABLE")
  /\ Lifecycle("ZOMBIE", "UNUSED")
BY Zenon DEF Lifecycle

\* Every action that assigns p->state finds the process in the state that the
\* action is meant for.
LEMMA StateChangesStep ==
  ASSUME ProcInv, [Next /\ ~Refusal]_vars PROVE StateStep
<1>0. ForkInv /\ ThreadInv
  BY Zenon DEF ProcInv
<1>a. \A c \in CPUs : cproc[c] # 0 => cproc[c] \in Slots
                                      /\ state[cproc[c]] = "RUNNING"
  BY Zenon, OnCPU
<1>1. ASSUME NEW q \in Slots, NEW s, Lifecycle(state[q], s),
             state' = [state EXCEPT ![q] = s]
      PROVE  StateStep
  BY Zenon, <1>1, Types DEF StateStep
<1>2. ASSUME NEW C, state' = Woken(C) PROVE StateStep
  BY Zenon, <1>2, Lives DEF StateStep, Woken
<1>3. CASE Quiet
  BY Zenon, <1>3 DEF Quiet, StateStep
<1>4. ASSUME NEW c \in CPUs, SchedRun(c) PROVE StateStep
  <2>1. PICK h \in Slots : /\ state[h] = "RUNNABLE"
                           /\ state' = [state EXCEPT ![h] = "RUNNING"]
    BY <1>4, RunStep, Zenon
  <2> QED
    BY Zenon, <1>1, <2>1, Lives
<1>5. ASSUME NEW c \in CPUs, ForkAlloc(c) PROVE StateStep
  <2>1. CASE state' = state
    BY Zenon, <2>1 DEF StateStep
  <2>2. ASSUME NEW q \in Slots, state[q] = "UNUSED",
               state' = [state EXCEPT ![q] = "EMBRYO"]
        PROVE  StateStep
    BY Zenon, <1>1, <2>2, Lives
  <2> QED
    BY Zenon, <1>5, <2>1, <2>2, AllocStep
<1>6. ASSUME NEW c \in CPUs, ForkBuild(c) \/ ForkPublish(c) PROVE StateStep
  <2> DEFINE q == np[cproc[c]]
  <2>1. cproc[c] \in Slots /\ pc[cproc[c]] \in {"fork_build", "fork_pub"}
    BY Zenon, <1>6, <1>a DEF ForkBuild, ForkPublish, At
  <2>2. q \in Slots /\ state[q] = "EMBRYO"
    BY Zenon, <1>0, <2>1, Types DEF ForkInv
  <2>3. \/ state' = state \/ state' = [state EXCEPT ![q] = "UNUSED"]
        \/ state' = [state EXCEPT ![q] = "RUNNABLE"]
    BY Zenon, <1>6 DEF ForkBuild, ForkPublish
  <2> HIDE DEF q
  <2>4. CASE state' = state
    BY Zenon, <2>4 DEF StateStep
  <2> QED
    BY Zenon, <1>1, <2>2, <2>3, <2>4, Lives
<1>7. ASSUME NEW c \in CPUs, Exit(c) PROVE StateStep
  <2>1. PICK C : state' = [Woken(C) EXCEPT ![cproc[c]] = "ZOMBIE"]
    BY Zenon, <1>7 DEF Exit
  <2>2. cproc[c] \in Slots /\ state[cproc[c]] = "RUNNING"
    BY Zenon, <1>7, <1>a DEF Exit
  <2>3. ASSUME NEW r \in Slots, state'[r] # state[r]
        PROVE  Lifecycle(state[r], state'[r])
    BY Zenon, <2>1, <2>2, <2>3, Lives DEF Woken
  <2> QED
    BY Zenon, <2>3 DEF StateStep
<1>8. ASSUME NEW c \in CPUs, WaitReap(c) PROVE StateStep
  <2>1. PICK q \in Slots : /\ state[q] = "ZOMBIE"
                           /\ state' = [state EXCEPT ![q] = "UNUSED"]
    BY Zenon, <1>8 DEF WaitReap, Zombies, Kids
  <2> QED
    BY Zenon, <1>1, <2>1, Lives
<1>9. ASSUME NEW c \in CPUs, WaitSleep(c) \/ SleepSched(c) PROVE StateStep
  <2>1. /\ cproc[c] # 0
        /\ state' = [state EXCEPT ![cproc[c]] = "SLEEPING"]
    BY Zenon, <1>9 DEF WaitSleep, SleepSched, InWait, At
  <2> QED
    BY Zenon, <1>1, <1>a, <2>1, Lives
<1>10. ASSUME NEW c \in CPUs, Kill(c) PROVE StateStep
  <2>1. ASSUME NEW r \in Slots, state'[r] # state[r]
        PROVE  state[r] = "SLEEPING" /\ state'[r] = "RUNNABLE"
    BY Zenon, <1>10, <2>1 DEF Kill, KillWakes
  <2> QED
    BY Zenon, <2>1, Lives DEF StateStep
<1>11. ASSUME NEW c \in CPUs, Yield(c) PROVE StateStep
  BY Zenon, <1>1, <1>a, <1>11, Lives DEF Yield, InTrap
<1>12. CASE TickWakeup
  BY Zenon, <1>2, <1>12 DEF TickWakeup
<1> QED
  BY Zenon, StepCases, <1>3, <1>4, <1>5, <1>6, <1>7, <1>8, <1>9, <1>10, <1>11,
     <1>12

\* A process goes through its states in the order the code means, unless
\* sched_policy() refuses it.
THEOREM LivesInOrder == GrantedSpec => StateChanges
<1>1. ProcInv /\ [Next /\ ~Refusal]_vars => [StateStep]_vars
  BY StateChangesStep
<1> QED
  BY <1>1, ProcInvariant, PTL DEF GrantedSpec, StateChanges, StateStep
-----------------------------------------------------------------------------
(* Machines whose programs do not call sched_policy() *)

NoPolicyCall == \A p \in Slots : pc[p] # "sched_policy"

\* A thread is in a system call only if some program makes that call.
LEMMA NoPolicyCallStep ==
  ASSUME "sched_policy" \notin Calls, TypeOK, NoPolicyCall, [Next]_vars
  PROVE  NoPolicyCall'
<1>0. pc \in [Slots -> Locs]
  BY DEF TypeOK, ThreadType
<1>1. ASSUME NEW p, NEW l, l # "sched_policy", pc' \in {pc, [pc EXCEPT ![p] = l]}
      PROVE  NoPolicyCall'
  BY <1>0, <1>1 DEF NoPolicyCall
<1>2. ASSUME NEW c \in CPUs, \/ SchedAcquire(c) \/ SchedRun(c) \/ SchedRelease(c)
                             \/ ExitInit(c) \/ TimerIntr(c) \/ Yield(c)
                             \/ YieldResume(c)
      PROVE  NoPolicyCall'
  BY <1>2, Zenon DEF NoPolicyCall, SchedAcquire, SchedRun, SchedRelease, ExitInit,
     TimerIntr, Yield, YieldResume, locVars
<1>3. ASSUME NEW c \in CPUs, Enter(c) PROVE NoPolicyCall'
  BY <1>1, <1>3, Zenon DEF Enter, UserCalls, Goto
<1>4. ASSUME NEW c \in CPUs, \/ Fault(c) \/ Ret(c) \/ ForkBuild(c)
                             \/ ForkPublish(c) \/ Forkret(c)
      PROVE  NoPolicyCall'
  BY <1>1, <1>4, Zenon
     DEF Fault, Ret, AfterFork, ForkBuild, ForkPublish, Forkret, Goto
<1>9. ASSUME NEW c \in CPUs, \/ Exit(c) \/ WaitReap(c) \/ WaitFail(c)
                             \/ WaitSleep(c)
      PROVE  NoPolicyCall'
  <2>1. \E l \in {"zombie", "ret", "wait_sleep"} : pc' = [pc EXCEPT ![cproc[c]] = l]
    BY <1>9, Zenon DEF Exit, WaitReap, WaitFail, WaitSleep, Goto
  <2> QED
    BY <1>1, <2>1, Zenon
<1>5. ASSUME NEW c \in CPUs, ForkAlloc(c) PROVE NoPolicyCall'
  BY <1>0, <1>5, Zenon DEF NoPolicyCall, ForkAlloc, Goto
<1>6. ASSUME NEW c \in CPUs, \/ Kill(c) \/ SleepTest(c) \/ SleepSched(c)
                             \/ SleepResume(c) \/ TrapKilled(c) \/ TrapCheck(c)
                             \/ TrapEnd(c)
      PROVE  NoPolicyCall'
  BY <1>1, <1>6, Zenon DEF Kill, SleepTest, SleepSched, SleepResume, TrapKilled,
     TrapCheck, TrapEnd, ExitFromTrap, Goto
<1>7. ASSUME NEW c \in CPUs,
             SchedPolicy(c) \/ Deadline(c) \/ ExecTime(c) \/ Rate(c)
      PROVE  NoPolicyCall'
  BY <1>1, <1>7, Zenon DEF SchedPolicy, Deadline, ExecTime, Rate, Goto
<1>8. CASE TickBegin \/ TickWakeup \/ UNCHANGED vars
  BY <1>8, Zenon DEF NoPolicyCall, TickBegin, TickWakeup, vars, locVars
<1> QED
  BY <1>2, <1>3, <1>4, <1>5, <1>6, <1>7, <1>8, <1>9 DEF Next, Halt

\* Without sched_policy() no process has a policy, a process stays inside fork()
\* until it has published or given back its EMBRYO, and init only exits killed.
PolicyNone == \A p \in Slots : sched_policy[p] = NONE
ForkersInv == \A p \in Slots : np[p] # 0 =>
                 /\ pc[p] \in {"fork_build", "fork_pub"}
                 /\ state[p] \in {"RUNNABLE", "RUNNING"}
EmbryoInv == \A q \in Slots : state[q] = "EMBRYO" => \E p \in Slots : np[p] = q
InitExits == pc[initproc] = "exit" => killed[initproc]

PlainInv == /\ ProcInv /\ NoPolicyCall /\ PolicyNone /\ ForkersInv /\ EmbryoInv
            /\ InitExits /\ OnlyInitPanics

\* No step is one of sched_policy().
LEMMA NoPolicyStep ==
  ASSUME ProcInv, NoPolicyCall
  PROVE  ~Refusal /\ \A c \in CPUs : ~SchedPolicy(c)
BY Zenon, OnCPU DEF Refusal, SchedPolicy, At, NoPolicyCall

\* allocproc() gives a new process no policy, and nobody else sets one.
LEMMA PolicyNoneStep ==
  ASSUME PlainInv, [Next]_vars PROVE PolicyNone'
<1>0. PolicyNone /\ \A c \in CPUs : ~SchedPolicy(c)
  BY Zenon, NoPolicyStep DEF PlainInv
<1>a. sched_policy \in [Slots -> {NONE, EDF, RM}]
  <2>1. RTType
    BY Zenon DEF PlainInv, ProcInv, TypeOK
  <2> QED
    BY <2>1 DEF RTType
<1>1. CASE UNCHANGED sched_policy
  BY Zenon, <1>0, <1>1 DEF PolicyNone
<1>2. ASSUME NEW c \in CPUs, ForkAlloc(c) PROVE PolicyNone'
  BY Zenon, <1>0, <1>a, <1>1, <1>2 DEF PolicyNone, ForkAlloc, rtVars
<1>3. ASSUME NEW c \in CPUs,
             \/ SchedAcquire(c) \/ SchedRun(c) \/ SchedRelease(c) \/ Enter(c)
             \/ Fault(c) \/ Ret(c) \/ ForkBuild(c) \/ ForkPublish(c) \/ Forkret(c)
             \/ Exit(c) \/ ExitInit(c) \/ WaitReap(c) \/ WaitFail(c)
             \/ WaitSleep(c)
      PROVE  UNCHANGED sched_policy
  BY Zenon, <1>3 DEF SchedAcquire, SchedRun, SchedRelease, Enter, Fault, Ret,
     ForkBuild, ForkPublish, Forkret, Exit, ExitInit, WaitReap, WaitFail,
     WaitSleep, rtVars
<1>4. ASSUME NEW c \in CPUs,
             \/ Kill(c) \/ SleepTest(c) \/ SleepSched(c) \/ SleepResume(c)
             \/ TimerIntr(c) \/ TrapKilled(c) \/ TrapCheck(c) \/ Yield(c)
             \/ YieldResume(c) \/ TrapEnd(c) \/ Deadline(c) \/ ExecTime(c)
             \/ Rate(c)
      PROVE  UNCHANGED sched_policy
  BY Zenon, <1>4 DEF Kill, SleepTest, SleepSched, SleepResume, TimerIntr,
     TrapKilled, TrapCheck, Yield, YieldResume, TrapEnd, Deadline, ExecTime, Rate,
     rtVars
<1>5. CASE TickBegin \/ TickWakeup \/ UNCHANGED vars
  BY Zenon, <1>1, <1>5 DEF TickBegin, TickWakeup, vars, rtVars
<1> QED
  BY Zenon, <1>0, <1>1, <1>2, <1>3, <1>4, <1>5 DEF Next, Halt

\* init stays killed: wait() clears p->killed only of a ZOMBIE.
LEMMA KilledKept ==
  ASSUME PlainInv, [Next]_vars, killed[initproc] PROVE killed'[initproc]
<1>0. /\ killed \in [Slots -> BOOLEAN] /\ initproc \in Slots
      /\ state[initproc] # "ZOMBIE" /\ \A c \in CPUs : ~SchedPolicy(c)
  BY Zenon, Types, NoPolicyStep DEF PlainInv, ProcInv, ParentInv
<1>1. CASE UNCHANGED killed
  BY Zenon, <1>1
<1>2. ASSUME NEW c \in CPUs, Fault(c) \/ Kill(c) PROVE killed'[initproc]
  BY Zenon, <1>0, <1>2 DEF Fault, Kill
<1>3. ASSUME NEW c \in CPUs, WaitReap(c) PROVE killed'[initproc]
  <2>1. PICK q : state[q] = "ZOMBIE" /\ killed' = [killed EXCEPT ![q] = FALSE]
    BY Zenon, <1>3 DEF WaitReap, Zombies
  <2> QED
    BY Zenon, <1>0, <2>1
<1>4. ASSUME NEW c \in CPUs,
             \/ ThreadStep(c) \/ ForkAlloc(c) \/ ForkBuild(c) \/ ForkPublish(c)
             \/ SchedRun(c) \/ Exit(c) \/ WaitFail(c) \/ WaitSleep(c)
             \/ SleepSched(c) \/ SleepResume(c) \/ Yield(c)
      PROVE  UNCHANGED killed
  BY Zenon, <1>4, ThreadStepFrame DEF ForkAlloc, ForkBuild, ForkPublish,
     SchedRun, Exit, WaitFail, WaitSleep, SleepSched, SleepResume, Yield, procVars
<1>5. CASE TickBegin \/ TickWakeup \/ UNCHANGED vars
  BY Zenon, <1>1, <1>5 DEF TickBegin, TickWakeup, vars, procVars
<1> QED
  BY Zenon, <1>0, <1>1, <1>2, <1>3, <1>4, <1>5 DEF Next, Halt, ThreadStep

\* init neither calls exit() nor faults: only the tests of p->killed in trap()
\* take it to exit().
LEMMA InitExitsStep ==
  ASSUME PlainInv, [Next]_vars PROVE InitExits'
<1>0. /\ pc \in [Slots -> Locs] /\ killed \in [Slots -> BOOLEAN]
      /\ initproc \in Slots /\ InitExits /\ \A c \in CPUs : ~SchedPolicy(c)
  BY Zenon, Types, NoPolicyStep DEF PlainInv
<1>a. \A p \in Slots : ~(sched_policy[p] >= 0)
  BY DEF PlainInv, PolicyNone, NONE
<1>b. \A c \in CPUs : cproc[c] # 0 => cproc[c] \in Slots
  BY Zenon, OnCPU DEF PlainInv
\* A step that does not take init to exit().
<1>1. ASSUME NEW p, NEW l, l # "exit", pc' \in {pc, [pc EXCEPT ![p] = l]}
      PROVE  InitExits'
  BY Zenon, <1>0, <1>1, KilledKept DEF InitExits
\* A step that takes a killed process there.
<1>2. ASSUME NEW p, killed' = killed, p = initproc => killed[p],
             pc' = [pc EXCEPT ![p] = "exit"]
      PROVE  InitExits'
  BY Zenon, <1>0, <1>2 DEF InitExits
<1>3. ASSUME NEW c \in CPUs, \/ SchedAcquire(c) \/ SchedRun(c) \/ SchedRelease(c)
                             \/ ExitInit(c) \/ TimerIntr(c) \/ Yield(c)
                             \/ YieldResume(c)
      PROVE  InitExits'
  <2>1. pc' = pc
    BY <1>3, Zenon DEF SchedAcquire, SchedRun, SchedRelease, ExitInit, TimerIntr,
       Yield, YieldResume, locVars
  <2> QED
    BY Zenon, <2>1, <1>0, KilledKept DEF InitExits
<1>4. ASSUME NEW c \in CPUs, Enter(c) PROVE InitExits'
  <2>1. PICK l \in UserCalls(cproc[c]) :
          pc' = [pc EXCEPT ![cproc[c]] = IF killed[cproc[c]] THEN "exit" ELSE l]
    BY Zenon, <1>4 DEF Enter, Goto
  <2>2. killed' = killed
    BY Zenon, <1>4 DEF Enter, procVars
  <2>3. cproc[c] = initproc => l # "exit"
    BY Zenon, <2>1 DEF UserCalls
  <2> QED
    BY Zenon, <1>0, <2>1, <2>2, <2>3 DEF InitExits
<1>5. ASSUME NEW c \in CPUs, Fault(c) PROVE InitExits'
  BY Zenon, <1>0, <1>5 DEF Fault, UserCalls, Goto, InitExits
<1>6. ASSUME NEW c \in CPUs, Ret(c) PROVE InitExits'
  <2>1. killed' = killed
    BY Zenon, <1>6 DEF Ret, procVars
  <2>2. PICK l \in {"user", "init_fail"} :
          pc' = [pc EXCEPT ![cproc[c]] = IF killed[cproc[c]] THEN "exit" ELSE l]
    BY Zenon, <1>6 DEF Ret, AfterFork, Goto
  <2>3. CASE killed[cproc[c]]
    BY Zenon, <1>2, <2>1, <2>2, <2>3
  <2>4. CASE ~killed[cproc[c]]
    BY Zenon, <1>1, <2>2, <2>4
  <2> QED
    BY Zenon, <2>3, <2>4
<1>7. ASSUME NEW c \in CPUs, TrapKilled(c) \/ TrapCheck(c) \/ TrapEnd(c)
      PROVE  InitExits'
  <2>1. killed' = killed /\ cproc[c] \in Slots
    BY Zenon, <1>7, <1>b DEF TrapKilled, TrapCheck, TrapEnd, InTrap, procVars
  <2>2. CASE TrapCheck(c)
    <3>1. pc' = pc
      BY Zenon, <1>a, <2>1, <2>2 DEF TrapCheck
    <3> QED
      BY Zenon, <1>0, <2>1, <3>1 DEF InitExits
  <2>3. CASE TrapKilled(c) \/ TrapEnd(c)
    <3>1. CASE KilledInUser(cproc[c])
      <4>1. pc' = [pc EXCEPT ![cproc[c]] = "exit"]
        BY Zenon, <2>3, <3>1 DEF TrapKilled, TrapEnd, ExitFromTrap, Goto
      <4> QED
        BY Zenon, <1>2, <2>1, <3>1, <4>1 DEF KilledInUser
    <3>2. CASE ~KilledInUser(cproc[c])
      <4>1. pc' = pc
        BY Zenon, <2>3, <3>2 DEF TrapKilled, TrapEnd
      <4> QED
        BY Zenon, <1>0, <2>1, <4>1 DEF InitExits
    <3> QED
      BY Zenon, <3>1, <3>2
  <2> QED
    BY Zenon, <1>7, <2>2, <2>3
<1>8. ASSUME NEW c \in CPUs, ForkAlloc(c) PROVE InitExits'
  BY Zenon, <1>0, <1>8, KilledKept DEF ForkAlloc, Goto, InitExits
<1>9. ASSUME NEW c \in CPUs, \/ ForkBuild(c) \/ ForkPublish(c) \/ Forkret(c)
                             \/ Exit(c) \/ WaitReap(c) \/ WaitFail(c)
                             \/ WaitSleep(c)
      PROVE  InitExits'
  <2>1. PICK l \in {"ret", "ret_fail", "fork_pub", "user", "zombie", "wait_sleep"} :
          pc' = [pc EXCEPT ![cproc[c]] = l]
    BY Zenon, <1>9 DEF ForkBuild, ForkPublish, Forkret, Exit, WaitReap, WaitFail,
       WaitSleep, Goto
  <2> QED
    BY Zenon, <1>1, <2>1
<1>10. ASSUME NEW c \in CPUs, \/ Kill(c) \/ SleepTest(c) \/ SleepSched(c)
                              \/ SleepResume(c) \/ Deadline(c) \/ ExecTime(c)
                              \/ Rate(c)
      PROVE  InitExits'
  BY Zenon, <1>1, <1>10 DEF Kill, SleepTest, SleepSched, SleepResume, Deadline,
     ExecTime, Rate, Goto
<1>11. CASE TickBegin \/ TickWakeup \/ UNCHANGED vars
  <2>1. pc' = pc
    BY <1>11, Zenon DEF TickBegin, TickWakeup, vars, locVars
  <2> QED
    BY Zenon, <2>1, <1>0, KilledKept DEF InitExits
<1> QED
  BY Zenon, <1>0, <1>3, <1>4, <1>5, <1>6, <1>7, <1>8, <1>9, <1>10, <1>11
     DEF Next, Halt

\* After a panic no CPU takes another step.
LEMMA Frozen == ASSUME [Next]_vars, panicked # "no" PROVE UNCHANGED vars
<1>1. ASSUME NEW c \in CPUs PROVE ~Live(c)
  BY Zenon DEF Live
<1>2. ASSUME NEW c \in CPUs, NEW l PROVE ~At(c, l) /\ ~InTrap(c, l)
  BY Zenon, <1>1 DEF At, InTrap
<1>3. ASSUME NEW c \in CPUs
      PROVE  /\ ~SchedAcquire(c) /\ ~SchedRun(c) /\ ~SchedRelease(c) /\ ~Exit(c)
             /\ ~ExitInit(c) /\ ~TimerIntr(c)
  BY Zenon, <1>1 DEF SchedAcquire, SchedRun, SchedRelease, Exit, ExitInit,
     TimerIntr, Interruptible
<1>4. ASSUME NEW c \in CPUs
      PROVE  /\ ~Enter(c) /\ ~Fault(c) /\ ~Ret(c) /\ ~ForkAlloc(c) /\ ~ForkBuild(c)
             /\ ~ForkPublish(c) /\ ~Forkret(c) /\ ~Kill(c)
  BY Zenon, <1>2 DEF Enter, Fault, Ret, ForkAlloc, ForkBuild, ForkPublish,
     Forkret, Kill
<1>5. ASSUME NEW c \in CPUs
      PROVE  /\ ~WaitReap(c) /\ ~WaitFail(c) /\ ~WaitSleep(c) /\ ~SleepTest(c)
             /\ ~SleepSched(c) /\ ~SleepResume(c)
  BY Zenon, <1>2 DEF WaitReap, WaitFail, WaitSleep, InWait, SleepTest, SleepSched,
     SleepResume
<1>6. ASSUME NEW c \in CPUs
      PROVE  /\ ~TrapKilled(c) /\ ~TrapCheck(c) /\ ~Yield(c) /\ ~YieldResume(c)
             /\ ~TrapEnd(c) /\ ~SchedPolicy(c) /\ ~Deadline(c) /\ ~ExecTime(c)
             /\ ~Rate(c)
  BY Zenon, <1>2 DEF TrapKilled, TrapCheck, Yield, YieldResume, TrapEnd,
     SchedPolicy, Deadline, ExecTime, Rate
<1>7. ~TickBegin /\ ~TickWakeup
  BY Zenon, <1>1, CPUAssumption DEF TickBegin, Interruptible, TickWakeup
<1> QED
  BY Zenon, <1>3, <1>4, <1>5, <1>6, <1>7 DEF Next, Halt

\* panic("init exiting") is the only one left, and init has been killed then or
\* has failed to fork.
LEMMA OnlyInitPanicsStep ==
  ASSUME PlainInv, [Next]_vars PROVE OnlyInitPanics'
<1>0. OnlyInitPanics /\ InitExits /\ \A c \in CPUs : ~SchedPolicy(c)
  BY Zenon, NoPolicyStep DEF PlainInv
<1>a. [Next /\ ~Refusal]_vars
  BY Zenon, NoPolicyStep DEF PlainInv
<1>b. PanicInv'
  BY Zenon, <1>a, PanicInvStep DEF PlainInv
<1>1. CASE panicked' = panicked
  <2>1. panicked # "no" => pc' = pc
    BY Zenon, Frozen DEF vars, locVars
  <2> QED
    BY Zenon, <1>0, <1>1, <2>1, KilledKept DEF OnlyInitPanics
<1>2. ASSUME NEW c \in CPUs, SchedRun(c) \/ WaitReap(c) PROVE OnlyInitPanics'
  <2>1. panicked' \in {"no", "switchuvm: no kstack", "zombie exit", "kfree"}
    BY Zenon, <1>2 DEF SchedRun, WaitReap
  <2> QED
    BY Zenon, <1>b, <2>1 DEF PanicInv, OnlyInitPanics
<1>3. ASSUME NEW c \in CPUs, ExitInit(c) PROVE OnlyInitPanics'
  BY Zenon, <1>0, <1>3 DEF ExitInit, InitExits, OnlyInitPanics, procVars, locVars
<1>4. ASSUME NEW c \in CPUs,
             \/ SchedAcquire(c) \/ SchedRelease(c) \/ Enter(c) \/ Fault(c) \/ Ret(c)
             \/ ForkAlloc(c) \/ ForkBuild(c) \/ ForkPublish(c) \/ Forkret(c)
             \/ Exit(c) \/ WaitFail(c) \/ WaitSleep(c) \/ Kill(c)
      PROVE  panicked' = panicked
  BY <1>4, Zenon DEF SchedAcquire, SchedRelease, Enter, Fault, Ret, ForkAlloc,
     ForkBuild, ForkPublish, Forkret, Exit, WaitFail, WaitSleep, Kill
<1>5. ASSUME NEW c \in CPUs,
             \/ SleepTest(c) \/ SleepSched(c) \/ SleepResume(c) \/ TimerIntr(c)
             \/ TrapKilled(c) \/ TrapCheck(c) \/ Yield(c) \/ YieldResume(c)
             \/ TrapEnd(c) \/ Deadline(c) \/ ExecTime(c) \/ Rate(c)
      PROVE  panicked' = panicked
  BY <1>5, Zenon DEF SleepTest, SleepSched, SleepResume, TimerIntr, TrapKilled,
     TrapCheck, Yield, YieldResume, TrapEnd, Deadline, ExecTime, Rate
<1>6. CASE TickBegin \/ TickWakeup \/ UNCHANGED vars
  BY Zenon, <1>1, <1>6 DEF TickBegin, TickWakeup, vars
<1> QED
  BY Zenon, <1>0, <1>1, <1>2, <1>3, <1>4, <1>5, <1>6 DEF Next, Halt

\* A step that leaves the process table alone takes nobody out of fork(): without
\* a policy the timer does not make a process exit in the middle of a call.
LEMMA InsideFork ==
  ASSUME PlainInv, NEW c \in CPUs, QuietAction(c), NEW q \in Slots,
         pc[q] \in {"fork_build", "fork_pub"}
  PROVE  pc'[q] = pc[q]
<1>0. pc \in [Slots -> Locs] /\ \A d \in CPUs : ~SchedPolicy(d)
  BY Zenon, Types, NoPolicyStep DEF PlainInv
<1>a. \A p \in Slots : ~(sched_policy[p] >= 0)
  BY DEF PlainInv, PolicyNone, NONE
<1>b. \A d \in CPUs : cproc[d] # 0 => cproc[d] \in Slots
  BY Zenon, OnCPU DEF PlainInv
<1>1. ASSUME NEW p, NEW l, pc[p] \notin {"fork_build", "fork_pub"},
             pc' = [pc EXCEPT ![p] = l]
      PROVE  pc'[q] = pc[q]
  BY Zenon, <1>0, <1>1
<1>2. CASE \/ SchedAcquire(c) \/ SchedRelease(c) \/ ExitInit(c)
           \/ TimerIntr(c) \/ YieldResume(c)
  BY <1>2, Zenon DEF SchedAcquire, SchedRelease, ExitInit, TimerIntr, YieldResume,
     locVars
<1>3. CASE Enter(c) \/ Fault(c) \/ Ret(c) \/ Forkret(c)
  <2>1. \E l : pc' = [pc EXCEPT ![cproc[c]] = l]
    BY Zenon, <1>3 DEF Enter, Fault, Ret, Forkret, Goto
  <2>2. pc[cproc[c]] \in {"user", "ret", "ret_fail", "forkret"}
    BY Zenon, <1>3 DEF Enter, Fault, Ret, Forkret, At
  <2> QED
    BY Zenon, <1>1, <2>1, <2>2
<1>4. CASE SleepTest(c) \/ WaitFail(c) \/ SleepResume(c)
  <2>1. \E l : pc' = [pc EXCEPT ![cproc[c]] = l]
    BY Zenon, <1>4 DEF SleepTest, WaitFail, SleepResume, Goto
  <2>2. pc[cproc[c]] \in {"sleep", "sleep_reacq", "wait", "wait_sleep",
                          "sleep_sched"}
    BY Zenon, <1>4 DEF SleepTest, WaitFail, SleepResume, InWait, At
  <2> QED
    BY Zenon, <1>1, <2>1, <2>2
<1>5. CASE Deadline(c) \/ ExecTime(c) \/ Rate(c)
  <2>1. \E l : pc' = [pc EXCEPT ![cproc[c]] = l]
    BY Zenon, <1>5 DEF Deadline, ExecTime, Rate, Goto
  <2>2. pc[cproc[c]] \in {"deadline", "exec_time", "rate"}
    BY Zenon, <1>5 DEF Deadline, ExecTime, Rate, At
  <2> QED
    BY Zenon, <1>1, <2>1, <2>2
<1>6. CASE TrapKilled(c) \/ TrapEnd(c)
  <2>1. \/ pc' = pc
        \/ /\ pc[cproc[c]] \in {"user", "init_fail"}
           /\ pc' = [pc EXCEPT ![cproc[c]] = "exit"]
    BY Zenon, <1>6 DEF TrapKilled, TrapEnd, KilledInUser, ExitFromTrap, Goto
  <2> QED
    BY Zenon, <1>1, <2>1
<1>7. CASE TrapCheck(c)
  BY Zenon, <1>a, <1>b, <1>7 DEF TrapCheck, InTrap
<1> QED
  BY Zenon, <1>0, <1>2, <1>3, <1>4, <1>5, <1>6, <1>7 DEF QuietAction, ThreadStep

\* fork() owns its EMBRYO from allocproc() until it publishes it or gives it back.
LEMMA ForkersStep ==
  ASSUME PlainInv, [Next]_vars PROVE ForkersInv' /\ EmbryoInv'
<1>0. ForkersInv /\ EmbryoInv /\ ProcInv
  BY Zenon DEF PlainInv
<1>t. /\ state \in [Slots -> States] /\ pc \in [Slots -> Locs]
      /\ np \in [Slots -> 0..NPROC] /\ 0 \notin Slots
  BY Zenon, <1>0, Types
<1>a. \A c \in CPUs : cproc[c] # 0 => cproc[c] \in Slots
                                      /\ state[cproc[c]] = "RUNNING"
  BY Zenon, <1>0, OnCPU
<1>f. \A p \in Slots : pc[p] \in {"fork_build", "fork_pub"} =>
         np[p] \in Slots /\ state[np[p]] = "EMBRYO"
  BY Zenon, <1>0, Types DEF ProcInv, ForkInv
\* A step outside fork() spares the processes inside it and makes no EMBRYO.
<1>1. ASSUME np' = np,
             \A p \in Slots : pc[p] \in {"fork_build", "fork_pub"} =>
                /\ pc'[p] = pc[p]
                /\ state[p] \in {"RUNNABLE", "RUNNING"} =>
                     state'[p] \in {"RUNNABLE", "RUNNING"},
             \A q \in Slots : state'[q] = "EMBRYO" => state[q] = "EMBRYO"
      PROVE  ForkersInv' /\ EmbryoInv'
  <2>1. ForkersInv'
    BY Zenon, <1>0, <1>1 DEF ForkersInv
  <2>2. EmbryoInv'
    BY Zenon, <1>0, <1>1 DEF EmbryoInv
  <2> QED
    BY Zenon, <2>1, <2>2
\* Neither does one that takes a process elsewhere to another place and state.
<1>2. ASSUME NEW p \in Slots, pc[p] \notin {"fork_build", "fork_pub"}, np' = np,
             NEW l, pc' = [pc EXCEPT ![p] = l],
             \A q \in Slots \ {p} :
                state'[q] = state[q] \/ state'[q] = "RUNNABLE",
             state'[p] # "EMBRYO"
      PROVE  ForkersInv' /\ EmbryoInv'
  BY Zenon, <1>1, <1>2, <1>t
<1>3. ASSUME NEW c \in CPUs, QuietAction(c) PROVE ForkersInv' /\ EmbryoInv'
  <2>1. Quiet
    BY Zenon, <1>0, <1>3, QuietSteps, NoPolicyStep DEF PlainInv
  <2> QED
    BY Zenon, <1>1, <1>3, <2>1, InsideFork DEF Quiet
<1>4. ASSUME NEW c \in CPUs, SchedRun(c) PROVE ForkersInv' /\ EmbryoInv'
  <2>1. PICK h \in Slots : state' = [state EXCEPT ![h] = "RUNNING"]
    BY <1>4, RunStep, Zenon
  <2>2. UNCHANGED <<pc, np>>
    BY <1>4, RunStep, Zenon
  <2> QED
    BY Zenon, <1>1, <1>t, <2>1, <2>2
<1>5. ASSUME NEW c \in CPUs, ForkAlloc(c) PROVE ForkersInv' /\ EmbryoInv'
  <2> DEFINE p == cproc[c]
  <2>1. p \in Slots /\ pc[p] = "fork" /\ state[p] = "RUNNING"
    BY Zenon, <1>5, <1>a DEF ForkAlloc, At
  <2>2. np[p] = 0
    BY Zenon, <1>0, <2>1 DEF ForkersInv
  <2>3. CASE state' = state /\ np' = np /\ pc' = [pc EXCEPT ![p] = "ret_fail"]
    BY Zenon, <1>2, <2>1, <2>3
  <2>4. ASSUME NEW q \in Slots, state[q] = "UNUSED",
               state' = [state EXCEPT ![q] = "EMBRYO"],
               pc' = [pc EXCEPT ![p] = "fork_build", ![q] = "forkret"],
               np' = [np EXCEPT ![p] = q]
        PROVE  ForkersInv' /\ EmbryoInv'
    <3> HIDE DEF p
    <3>1. np[q] = 0 /\ p # q
      BY Zenon, <1>0, <2>1, <2>4 DEF ForkersInv
    <3>2. ForkersInv'
      BY Zenon, <1>0, <1>t, <2>1, <2>4, <3>1 DEF ForkersInv
    <3>3. ASSUME NEW r \in Slots, state'[r] = "EMBRYO"
          PROVE  \E s \in Slots : np'[s] = r
      <4>1. CASE r = q
        BY Zenon, <1>t, <2>1, <2>4, <4>1
      <4>2. CASE r # q
        <5>1. PICK s \in Slots : np[s] = r
          BY Zenon, <1>0, <1>t, <2>4, <3>3, <4>2 DEF EmbryoInv
        <5>2. s # p
          BY Zenon, <1>t, <2>2, <5>1 DEF p
        <5> QED
          BY Zenon, <1>t, <2>4, <5>1, <5>2
      <4> QED
        BY Zenon, <4>1, <4>2
    <3> QED
      BY Zenon, <3>2, <3>3 DEF EmbryoInv
  <2> QED
    BY Zenon, <1>5, <2>3, <2>4 DEF ForkAlloc, Goto, procVars
\* The process leaves fork(), and its EMBRYO becomes something else.
<1>6. ASSUME NEW p \in Slots, NEW q \in Slots, np[p] = q, state[q] = "EMBRYO",
             NEW l \in {"ret", "ret_fail"},
             np' = [np EXCEPT ![p] = 0], pc' = [pc EXCEPT ![p] = l],
             NEW s \in {"UNUSED", "RUNNABLE"},
             state' = [state EXCEPT ![q] = s]
      PROVE  ForkersInv' /\ EmbryoInv'
  <2>1. ForkersInv'
    <3>1. ASSUME NEW r \in Slots, np'[r] # 0
          PROVE  /\ pc'[r] \in {"fork_build", "fork_pub"}
                 /\ state'[r] \in {"RUNNABLE", "RUNNING"}
      <4>1. r # p /\ np[r] # 0
        BY Zenon, <1>t, <1>6, <3>1
      <4>2. /\ pc[r] \in {"fork_build", "fork_pub"}
            /\ state[r] \in {"RUNNABLE", "RUNNING"}
        BY Zenon, <1>0, <4>1 DEF ForkersInv
      <4>3. r # q
        BY Zenon, <1>6, <4>2
      <4> QED
        BY Zenon, <1>t, <1>6, <4>1, <4>2, <4>3
    <3> QED
      BY Zenon, <3>1 DEF ForkersInv
  <2>2. ASSUME NEW r \in Slots, state'[r] = "EMBRYO"
        PROVE  \E x \in Slots : np'[x] = r
    <3>1. r # q /\ state[r] = "EMBRYO"
      BY Zenon, <1>t, <1>6, <2>2
    <3>2. PICK x \in Slots : np[x] = r
      BY Zenon, <1>0, <3>1 DEF EmbryoInv
    <3>3. x # p
      BY Zenon, <1>6, <3>1, <3>2
    <3> QED
      BY Zenon, <1>t, <1>6, <3>2, <3>3
  <2> QED
    BY Zenon, <2>1, <2>2 DEF EmbryoInv
<1>7. ASSUME NEW c \in CPUs, ForkBuild(c) PROVE ForkersInv' /\ EmbryoInv'
  <2> DEFINE p == cproc[c]
  <2>1. /\ p \in Slots /\ pc[p] = "fork_build" /\ state[p] = "RUNNING"
        /\ np[p] \in Slots /\ state[np[p]] = "EMBRYO"
    BY Zenon, <1>7, <1>a, <1>f DEF ForkBuild, At
  <2>2. CASE /\ state' = [state EXCEPT ![np[p]] = "UNUSED"]
             /\ np' = [np EXCEPT ![p] = 0] /\ pc' = [pc EXCEPT ![p] = "ret_fail"]
    BY Zenon, <1>6, <2>1, <2>2
  <2>3. CASE UNCHANGED <<state, np>> /\ pc' = [pc EXCEPT ![p] = "fork_pub"]
    <3> HIDE DEF p
    <3>1. ForkersInv'
      BY Zenon, <1>0, <1>t, <2>1, <2>3 DEF ForkersInv
    <3>2. EmbryoInv'
      BY Zenon, <1>0, <2>3 DEF EmbryoInv
    <3> QED
      BY Zenon, <3>1, <3>2
  <2> QED
    BY Zenon, <1>7, <2>2, <2>3 DEF ForkBuild, Goto
<1>8. ASSUME NEW c \in CPUs, ForkPublish(c) PROVE ForkersInv' /\ EmbryoInv'
  <2> DEFINE p == cproc[c]
  <2>1. /\ p \in Slots /\ np[p] \in Slots /\ state[np[p]] = "EMBRYO"
    BY Zenon, <1>8, <1>a, <1>f DEF ForkPublish, At
  <2> QED
    BY Zenon, <1>6, <1>8, <2>1 DEF ForkPublish, Goto
<1>9. ASSUME NEW c \in CPUs, Exit(c) PROVE ForkersInv' /\ EmbryoInv'
  <2> DEFINE p == cproc[c]
  <2>1. /\ p \in Slots /\ pc[p] = "exit" /\ np' = np
        /\ pc' = [pc EXCEPT ![p] = "zombie"]
    BY Zenon, <1>9, <1>a DEF Exit, Goto
  <2>2. PICK C : state' = [Woken(C) EXCEPT ![p] = "ZOMBIE"]
    BY Zenon, <1>9 DEF Exit
  <2> HIDE DEF p
  <2>3. /\ \A q \in Slots \ {p} : state'[q] = state[q] \/ state'[q] = "RUNNABLE"
        /\ state'[p] # "EMBRYO"
    BY Zenon, <2>1, <2>2 DEF Woken
  <2> QED
    BY Zenon, <1>2, <2>1, <2>3
<1>10. ASSUME NEW c \in CPUs, WaitReap(c) PROVE ForkersInv' /\ EmbryoInv'
  <2> DEFINE p == cproc[c]
  <2>1. /\ p \in Slots /\ pc[p] \in {"wait", "wait_sleep"} /\ np' = np
        /\ pc' = [pc EXCEPT ![p] = "ret"] /\ state[p] = "RUNNING"
    BY Zenon, <1>10, <1>a DEF WaitReap, InWait, At, Goto
  <2>2. PICK q \in Slots : /\ state[q] = "ZOMBIE"
                           /\ state' = [state EXCEPT ![q] = "UNUSED"]
    BY Zenon, <1>10 DEF WaitReap, Zombies, Kids
  <2> HIDE DEF p
  <2>3. ASSUME NEW r \in Slots, pc[r] \in {"fork_build", "fork_pub"}
        PROVE  /\ pc'[r] = pc[r]
               /\ state[r] \in {"RUNNABLE", "RUNNING"} =>
                    state'[r] \in {"RUNNABLE", "RUNNING"}
    BY Zenon, <1>t, <2>1, <2>2, <2>3
  <2>4. \A r \in Slots : state'[r] = "EMBRYO" => state[r] = "EMBRYO"
    BY Zenon, <1>t, <2>2
  <2> QED
    BY Zenon, <1>1, <2>1, <2>3, <2>4
<1>11. ASSUME NEW c \in CPUs, WaitSleep(c) \/ SleepSched(c)
       PROVE  ForkersInv' /\ EmbryoInv'
  <2> DEFINE p == cproc[c]
  <2>1. /\ p \in Slots /\ pc[p] \in {"wait", "wait_sleep", "sleep_acq"} /\ np' = np
        /\ state' = [state EXCEPT ![p] = "SLEEPING"]
        /\ \E l : pc' = [pc EXCEPT ![p] = l]
    BY Zenon, <1>11, <1>a DEF WaitSleep, SleepSched, InWait, At, Goto
  <2> HIDE DEF p
  <2>2. /\ \A q \in Slots \ {p} : state'[q] = state[q] \/ state'[q] = "RUNNABLE"
        /\ state'[p] # "EMBRYO"
    BY Zenon, <1>t, <2>1
  <2> QED
    BY Zenon, <1>2, <2>1, <2>2
<1>12. ASSUME NEW c \in CPUs, Kill(c) PROVE ForkersInv' /\ EmbryoInv'
  <2> DEFINE p == cproc[c]
  <2>1. /\ p \in Slots /\ pc[p] = "kill" /\ np' = np
        /\ pc' = [pc EXCEPT ![p] = "ret"] /\ state[p] = "RUNNING"
    BY Zenon, <1>12, <1>a DEF Kill, At, Goto
  <2>2. \A q \in Slots : state'[q] = state[q] \/ state'[q] = "RUNNABLE"
    BY Zenon, <1>12 DEF Kill
  <2> HIDE DEF p
  <2> QED
    BY Zenon, <1>2, <2>1, <2>2
<1>13. ASSUME NEW c \in CPUs, Yield(c) PROVE ForkersInv' /\ EmbryoInv'
  <2>1. UNCHANGED <<pc, np>> /\ state' = [state EXCEPT ![cproc[c]] = "RUNNABLE"]
    BY Zenon, <1>13 DEF Yield
  <2> QED
    BY Zenon, <1>1, <1>t, <2>1
<1>14. CASE TickWakeup
  BY Zenon, <1>1, <1>14 DEF TickWakeup, Woken
<1>15. CASE TickBegin \/ UNCHANGED vars
  BY Zenon, <1>1, <1>15 DEF TickBegin, vars, procVars, locVars
<1> QED
  BY Zenon, <1>3, <1>4, <1>5, <1>7, <1>8, <1>9, <1>10, <1>11, <1>12, <1>13,
     <1>14, <1>15 DEF Next, Halt, QuietAction, ThreadStep

\* The process table of a machine without real-time programs, the places of its
\* threads inside fork() and the fate of init are consistent in every behaviour.
THEOREM PlainInvariant ==
  ASSUME "sched_policy" \notin Calls PROVE Spec => []PlainInv
<1>1. Init => PlainInv
  <2> SUFFICES ASSUME Init PROVE PlainInv
    OBVIOUS
  <2>1. ProcInv
    BY InitInv
  <2>2. initproc \in Slots
    BY <2>1, Types
  <2> QED
    BY Zenon, <2>1, <2>2 DEF Init, PlainInv, NoPolicyCall, PolicyNone, ForkersInv,
       EmbryoInv, InitExits, OnlyInitPanics
<1>2. PlainInv /\ [Next]_vars => PlainInv'
  <2> SUFFICES ASSUME PlainInv, [Next]_vars PROVE PlainInv'
    OBVIOUS
  <2>0. ProcInv /\ NoPolicyCall /\ TypeOK
    BY Zenon DEF PlainInv, ProcInv
  <2>1. NoPolicyCall'
    BY Zenon, <2>0, NoPolicyCallStep
  <2>2. ProcInv'
    BY Zenon, <2>0, NoPolicyStep, StepInv
  <2> QED
    BY Zenon, <2>1, <2>2, PolicyNoneStep, ForkersStep, InitExitsStep,
       OnlyInitPanicsStep DEF PlainInv
<1> QED
  BY <1>1, <1>2, PTL DEF Spec

\* Without sched_policy() no step is a refusal, so ProcInv holds in every
\* behaviour of the original process table.
THEOREM ProcInvariantPlain ==
  ASSUME "sched_policy" \notin Calls PROVE Spec => []ProcInv
<1>1. PlainInv => ProcInv
  BY Zenon DEF PlainInv
<1> QED
  BY <1>1, PlainInvariant, PTL

\* fork() loses no slot: an EMBRYO belongs to one process, still inside fork().
THEOREM EmbryosOwned ==
  ASSUME "sched_policy" \notin Calls PROVE Spec => []EmbryoOwned
<1>1. PlainInv => EmbryoOwned
  <2> SUFFICES ASSUME PlainInv, NEW q \in Slots, state[q] = "EMBRYO"
               PROVE  \E p \in Slots :
                        /\ state[p] \in {"RUNNABLE", "RUNNING"}
                        /\ pc[p] \in {"fork_build", "fork_pub"} /\ np[p] = q
                        /\ \A r \in Slots \ {p} : np[r] # q
    BY Zenon DEF EmbryoOwned
  <2>0. ForkInv /\ ForkersInv /\ EmbryoInv /\ 0 \notin Slots
    BY Zenon, Types DEF PlainInv, ProcInv
  <2>1. PICK p \in Slots : np[p] = q
    BY Zenon, <2>0 DEF EmbryoInv
  <2>2. \A r \in Slots : np[r] = q => /\ state[r] \in {"RUNNABLE", "RUNNING"}
                                      /\ pc[r] \in {"fork_build", "fork_pub"}
    BY Zenon, <2>0 DEF ForkersInv
  <2>3. \A r \in Slots : np[r] = q => r = p
    <3>1. ASSUME NEW r \in Slots, np[r] = q PROVE r = p
      <4>1. /\ pc[p] \in {"fork_build", "fork_pub"}
            /\ pc[r] \in {"fork_build", "fork_pub"} /\ np[r] = np[p]
        BY Zenon, <2>1, <2>2, <3>1
      <4> QED
        BY Zenon, <2>0, <4>1 DEF ForkInv
    <3> QED
      BY Zenon, <3>1
  <2> QED
    BY Zenon, <2>1, <2>2, <2>3
<1> QED
  BY <1>1, PlainInvariant, PTL

\* The kernel does not panic unless somebody kills init.
THEOREM NoOtherPanic ==
  ASSUME "sched_policy" \notin Calls PROVE Spec => []OnlyInitPanics
<1>1. PlainInv => OnlyInitPanics
  BY Zenon DEF PlainInv
<1> QED
  BY <1>1, PlainInvariant, PTL

\* A process goes through its states in the order the code means.
THEOREM LivesInOrderPlain ==
  ASSUME "sched_policy" \notin Calls PROVE Spec => StateChanges
<1>1. PlainInv /\ [Next]_vars => [StateStep]_vars
  <2> SUFFICES ASSUME PlainInv, [Next]_vars PROVE StateStep
    OBVIOUS
  <2> QED
    BY Zenon, NoPolicyStep, StateChangesStep DEF PlainInv
<1> QED
  BY <1>1, PlainInvariant, PTL DEF Spec, StateChanges, StateStep
=============================================================================
