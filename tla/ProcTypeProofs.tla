--------------------------- MODULE ProcTypeProofs ---------------------------
(***************************************************************************)
(* The type invariant of Proc is inductive, whatever sched_policy() does,  *)
(* and the scheduler's two scans of the table find the minimum, so that it *)
(* dispatches in the order of deadlines and of priorities.                 *)
(***************************************************************************)
EXTENDS Proc, WellFoundedInduction, TLAPS
-----------------------------------------------------------------------------
(* Arithmetic of the real-time calls *)

\* An int that wraps around is an integer.
LEMMA WrapInt == ASSUME NEW n \in Int PROVE Wrap(n) \in Int
<1> DEFINE m == 2 * (INT_MAX + 1)
<1>1. n + INT_MAX + 1 \in Int /\ m \in Nat \ {0} /\ INT_MAX + 1 \in Int
  BY IntAssumption
<1> HIDE DEF m
<1>2. (n + INT_MAX + 1) % m \in Int
  BY <1>1
<1> QED
  BY <1>1, <1>2 DEF Wrap, m

\* So is a quotient, unless the divisor is zero.
LEMMA QuotientInt == ASSUME NEW n \in Int, NEW d \in Int, d # 0
                     PROVE  Quotient(n, d) \in Int
<1> DEFINE a == IF n < 0 THEN -n ELSE n
           b == IF d < 0 THEN -d ELSE d
<1>1. a \in Nat /\ b \in Nat /\ b > 0
  OBVIOUS
<1> HIDE DEF a, b
<1>2. a \div b \in Int
  BY <1>1
<1>3. Quotient(n, d) \in {a \div b, -(a \div b)}
  BY Zenon DEF Quotient, a, b
<1> QED
  BY <1>2, <1>3

\* The utilisation that sched_policy() computes for an EDF process is an integer
\* unless the deadline is zero.
LEMMA UtilEDFInt == ASSUME NEW e \in Int, NEW d \in Int, d # 0
                    PROVE  UtilEDF(e, d) \in Int
<1>1. e * 100 \in Int
  OBVIOUS
<1> QED
  BY Zenon, <1>1, WrapInt, QuotientInt DEF UtilEDF

\* So is the one for an RM process.
LEMMA UtilRMInt == ASSUME NEW e \in Int, NEW r \in Int
                   PROVE  UtilRM(e, r) \in Int
<1>1. e * r \in Int
  OBVIOUS
<1>2. Wrap(e * r) \in Int
  BY Zenon, <1>1, WrapInt
<1>3. Wrap(e * r) * 10 \in Int
  BY <1>2
<1> QED
  BY Zenon, <1>3, WrapInt DEF UtilRM

\* No entry of the Liu-Layland table exceeds a full processor.
LEMMA RMBoundFull ==
  ASSUME NEW k \in Nat PROVE RMBound(k) \in Nat /\ RMBound(k) <= 1000
BY DEF RMBound, RMTable

\* rate() never computes a priority below 1.
LEMMA PriorityPositive == ASSUME NEW r \in Int PROVE PriorityOf(r) \in Nat \ {0}
<1> DEFINE t == Quotient(Wrap(118 - 3 * r), 29)
<1>1. 118 - 3 * r \in Int /\ 29 \in Int /\ 29 # 0
  OBVIOUS
<1>2. t \in Int
  BY Zenon, <1>1, WrapInt, QuotientInt
<1>3. PriorityOf(r) = IF t < 1 THEN 1 ELSE t
  BY Zenon DEF PriorityOf
<1> HIDE DEF t
<1> QED
  BY <1>2, <1>3
-----------------------------------------------------------------------------
(* Type correctness *)

\* A process that a CPU has as c->proc is in the table and RUNNING.
LEMMA OnCPU == ASSUME ProcInv, NEW c \in CPUs, cproc[c] # 0
               PROVE  cproc[c] \in Slots /\ state[cproc[c]] = "RUNNING"
BY SizeAssumption DEF ProcInv, TypeOK, CPUType, ExactlyOneCPU, Slots

\* The steps of CPU c that leave struct proc alone, its real-time fields aside.
ThreadStep(c) ==
  \/ SchedAcquire(c) \/ SchedRelease(c) \/ Enter(c) \/ Ret(c) \/ Forkret(c)
  \/ ExitInit(c) \/ SleepTest(c) \/ TimerIntr(c) \/ TrapKilled(c)
  \/ TrapCheck(c) \/ YieldResume(c) \/ TrapEnd(c) \/ Deadline(c)
  \/ ExecTime(c) \/ Rate(c)

\* What they leave alone.
LEMMA ThreadStepFrame ==
  ASSUME NEW c \in CPUs, ThreadStep(c) PROVE UNCHANGED <<procVars, nextpid, np, cproc>>
BY Zenon DEF ThreadStep, SchedAcquire, SchedRelease, Enter, Ret, Forkret, ExitInit,
       SleepTest, TimerIntr, TrapKilled, TrapCheck, YieldResume, TrapEnd,
       Deadline, ExecTime, Rate, locVars, cpuVars

\* Steps keep struct proc, without its real-time fields, in its type.
LEMMA ProcTypeStep == TypeOK /\ [Next]_vars => ProcType'
<1> SUFFICES ASSUME TypeOK, [Next]_vars PROVE ProcType'
  OBVIOUS
<1> USE SizeAssumption
<1>0. ProcType
  BY DEF TypeOK
<1>0a. \A c \in CPUs : cproc[c] # 0 => cproc[c] \in Slots
  BY SizeAssumption DEF TypeOK, CPUType, Slots
<1>0b. /\ 0 \in 0..NPROC /\ initproc \in 0..NPROC /\ Slots \subseteq 0..NPROC
       /\ 0 \in 0..TicksChan /\ TicksChan \in 0..TicksChan
       /\ Slots \subseteq 0..TicksChan
  BY DEF Slots, TicksChan, initproc
<1>1. ASSUME NEW c \in CPUs, ThreadStep(c) PROVE ProcType'
  BY <1>0, <1>1, ThreadStepFrame DEF ProcType, procVars
<1>2. ASSUME NEW c \in CPUs, SchedRun(c) PROVE ProcType'
  BY <1>0, <1>2, Zenon DEF ProcType, SchedRun, States
<1>3. ASSUME NEW c \in CPUs, Fault(c) PROVE ProcType'
  BY <1>0, <1>3, Zenon DEF ProcType, Fault
<1>4. ASSUME NEW c \in CPUs, ForkAlloc(c) PROVE ProcType'
  BY <1>0, <1>4 DEF ProcType, ForkAlloc, States, procVars
<1>5. ASSUME NEW c \in CPUs, ForkBuild(c) PROVE ProcType'
  <2>1. /\ state' \in {state, [state EXCEPT ![np[cproc[c]]] = "UNUSED"]}
        /\ kstack' \in {[kstack EXCEPT ![np[cproc[c]]] = FALSE],
                        [kstack EXCEPT ![np[cproc[c]]] = TRUE]}
        /\ parent' \in {parent, [parent EXCEPT ![np[cproc[c]]] = cproc[c]]}
        /\ UNCHANGED <<pid, killed, chan, nextpid>>
    BY <1>5, Zenon DEF ForkBuild
  <2>2. cproc[c] \in 0..NPROC
    BY Zenon, <1>0a, <1>0b, <1>5 DEF ForkBuild, At
  <2> QED
    BY Zenon, <1>0, <2>1, <2>2 DEF ProcType, States
<1>6. ASSUME NEW c \in CPUs, ForkPublish(c) PROVE ProcType'
  BY <1>0, <1>6, Zenon DEF ProcType, ForkPublish, States
<1>7. ASSUME NEW c \in CPUs, Exit(c) PROVE ProcType'
  BY <1>0, <1>0b, <1>7, Zenon DEF ProcType, Exit, Woken, States
<1>8. ASSUME NEW c \in CPUs, WaitReap(c) PROVE ProcType'
  <2>1. PICK q \in Zombies(cproc[c]) :
          /\ state' = [state EXCEPT ![q] = "UNUSED"]
          /\ kstack' = [kstack EXCEPT ![q] = FALSE]
          /\ pid' = [pid EXCEPT ![q] = 0] /\ parent' = [parent EXCEPT ![q] = 0]
          /\ killed' = [killed EXCEPT ![q] = FALSE]
    BY <1>8, Zenon DEF WaitReap
  <2>2. chan' = [chan EXCEPT ![cproc[c]] = 0] /\ nextpid' = nextpid
    BY <1>8 DEF WaitReap
  <2> QED
    BY <1>0, <1>0b, <2>1, <2>2, Zenon DEF ProcType, States
<1>9. ASSUME NEW c \in CPUs, WaitFail(c) PROVE ProcType'
  BY <1>0, <1>0b, <1>9, Zenon DEF ProcType, WaitFail
<1>10. ASSUME NEW c \in CPUs, WaitSleep(c) PROVE ProcType'
  BY <1>0, <1>0a, <1>0b, <1>10, Zenon DEF ProcType, WaitSleep, InWait, At, States
<1>11. ASSUME NEW c \in CPUs, Kill(c) PROVE ProcType'
  BY <1>0, <1>11 DEF ProcType, Kill, States
<1>12. ASSUME NEW c \in CPUs, SleepSched(c) PROVE ProcType'
  BY <1>0, <1>0b, <1>12, Zenon DEF ProcType, SleepSched, States
<1>13. ASSUME NEW c \in CPUs, SleepResume(c) PROVE ProcType'
  BY <1>0, <1>0b, <1>13, Zenon DEF ProcType, SleepResume
<1>14. ASSUME NEW c \in CPUs, Yield(c) PROVE ProcType'
  BY <1>0, <1>14, Zenon DEF ProcType, Yield, States
<1>15. ASSUME NEW c \in CPUs, SchedPolicy(c) PROVE ProcType'
  BY <1>0, <1>15, Zenon DEF ProcType, SchedPolicy, SetEDF, SetRM, Refuse, States
<1>16. CASE TickBegin
  BY <1>0, <1>16 DEF ProcType, TickBegin, procVars
<1>17. CASE TickWakeup
  BY <1>0, <1>17 DEF ProcType, TickWakeup, Woken, States
<1>18. CASE UNCHANGED vars
  BY <1>0, <1>18 DEF ProcType, vars, procVars
<1> QED
  BY Zenon, <1>1, <1>2, <1>3, <1>4, <1>5, <1>6, <1>7, <1>8, <1>9, <1>10, <1>11, <1>12,
     <1>13, <1>14, <1>15, <1>16, <1>17, <1>18 DEF Next, Halt, ThreadStep

\* Steps keep the real-time fields and the two utilisation counters in their
\* types.
LEMMA RTTypeStep == TypeOK /\ [Next]_vars => RTType'
<1> SUFFICES ASSUME TypeOK, [Next]_vars PROVE RTType'
  OBVIOUS
<1>0. ProcType /\ RTType
  BY DEF TypeOK
<1>1. CASE UNCHANGED rtVars
  BY <1>0, <1>1 DEF RTType, rtVars
<1>2. ASSUME NEW c \in CPUs, SchedRun(c) PROVE RTType'
  <2>1. PICK h \in Slots :
          elapsed_time' = elapsed_time \/
          (elapsed_time[h] # ElapsedCap
             /\ elapsed_time' = [elapsed_time EXCEPT ![h] = @ + 1])
    BY <1>2, Zenon DEF SchedRun, Runnable
  <2>2. elapsed_time' \in [Slots -> 0..ElapsedCap]
    BY <1>0, <2>1, CapAssumption DEF RTType
  <2>3. UNCHANGED <<sched_policy, deadline, execution_time, rate, priority,
                    utf_edf, utf_rm>>
    BY <1>2, Zenon DEF SchedRun
  <2> QED
    BY <1>0, <2>2, <2>3 DEF RTType
<1>3. ASSUME NEW c \in CPUs, ForkAlloc(c) PROVE RTType'
  <2>1. CASE UNCHANGED rtVars
    BY <1>1, <2>1
  <2>2. ASSUME NEW q \in Slots,
               /\ priority' = [priority EXCEPT ![q] = 1]
               /\ deadline' = [deadline EXCEPT ![q] = 0]
               /\ sched_policy' = [sched_policy EXCEPT ![q] = NONE]
               /\ execution_time' = [execution_time EXCEPT ![q] = 1]
               /\ elapsed_time' = [elapsed_time EXCEPT ![q] = 0]
               /\ UNCHANGED <<rate, utf_edf, utf_rm>>
        PROVE  RTType'
    <3>1. 0 \in 0..ElapsedCap
      BY CapAssumption
    <3> QED
      BY <1>0, <2>2, <3>1 DEF RTType
  <2> QED
    BY Zenon, <1>3, <2>1, <2>2 DEF ForkAlloc
<1>4. ASSUME NEW c \in CPUs, SchedPolicy(c) PROVE RTType'
  <2>0. UNCHANGED <<deadline, execution_time, elapsed_time, rate, priority>>
    BY <1>4, Zenon DEF SchedPolicy
  <2>1. CASE UNCHANGED <<sched_policy, utf_edf, utf_rm>>
    BY <1>0, <2>0, <2>1 DEF RTType
  <2>2. ASSUME NEW t \in Slots, SetEDF(t) PROVE RTType'
    <3>1. CASE UNCHANGED <<sched_policy, utf_edf, utf_rm>>
      BY <2>1, <3>1
    <3>2. CASE /\ ~DivideError(execution_time[t], deadline[t])
               /\ AdmitsEDF(utf_edf, execution_time[t], deadline[t])
      <4> DEFINE u == UtilEDF(execution_time[t], deadline[t])
      <4>a. execution_time[t] \in Int /\ deadline[t] \in Int /\ utf_edf \in Int
        BY <1>0 DEF RTType
      <4>b. deadline[t] # 0
        BY Zenon, <3>2 DEF DivideError
      <4>1. u \in Int
        BY Zenon, <4>a, <4>b, UtilEDFInt
      <4>2. Wrap(utf_edf + u) < 100 /\ utf_edf' = Wrap(utf_edf + u)
            /\ utf_rm' = utf_rm
            /\ sched_policy' = [sched_policy EXCEPT ![t] = EDF]
        BY Zenon, <2>2, <3>2 DEF SetEDF, AdmitsEDF
      <4> HIDE DEF u
      <4>c. utf_edf + u \in Int
        BY <4>a, <4>1
      <4>3. utf_edf' \in Int /\ utf_edf' < 100
        BY Zenon, <4>2, <4>c, WrapInt
      <4> QED
        BY <1>0, <2>0, <4>2, <4>3 DEF RTType
    <3> QED
      BY <2>2, <3>1, <3>2 DEF SetEDF, Refuse
  <2>3. ASSUME NEW t \in Slots, SetRM(t) PROVE RTType'
    <3>1. CASE UNCHANGED <<sched_policy, utf_edf, utf_rm>>
      BY <2>1, <3>1
    <3>2. CASE AdmitsRM(utf_rm, execution_time[t], rate[t], pid[t])
      <4> DEFINE u == UtilRM(execution_time[t], rate[t])
      <4>a. execution_time[t] \in Int /\ rate[t] \in Int /\ utf_rm \in Int
        BY <1>0 DEF RTType
      <4>1. u \in Int
        BY Zenon, <4>a, UtilRMInt
      <4>2. RMBound(pid[t]) \in Nat /\ RMBound(pid[t]) <= 1000
        BY <1>0, RMBoundFull DEF ProcType
      <4>3. Wrap(utf_rm + u) <= RMBound(pid[t]) /\ utf_rm' = Wrap(utf_rm + u)
            /\ utf_edf' = utf_edf
            /\ sched_policy' = [sched_policy EXCEPT ![t] = RM]
        BY Zenon, <2>3, <3>2 DEF SetRM, AdmitsRM
      <4> HIDE DEF u
      <4>c. utf_rm + u \in Int
        BY <4>a, <4>1
      <4>d. Wrap(utf_rm + u) \in Int
        BY Zenon, <4>c, WrapInt
      <4>4. utf_rm' \in Int /\ utf_rm' <= 1000
        BY <4>2, <4>3, <4>d
      <4> QED
        BY <1>0, <2>0, <4>3, <4>4 DEF RTType
    <3> QED
      BY <2>3, <3>1, <3>2 DEF SetRM, Refuse
  <2> QED
    BY <1>4, <2>1, <2>2, <2>3 DEF SchedPolicy, FirstWithPid
<1>5. ASSUME NEW c \in CPUs, Deadline(c) PROVE RTType'
  BY <1>0, <1>5, ParamAssumption DEF RTType, Deadline
<1>6. ASSUME NEW c \in CPUs, ExecTime(c) PROVE RTType'
  BY <1>0, <1>6, ParamAssumption DEF RTType, ExecTime
<1>7. ASSUME NEW c \in CPUs, Rate(c) PROVE RTType'
  BY <1>0, <1>7, ParamAssumption, PriorityPositive DEF RTType, Rate
<1>8. ASSUME NEW c \in CPUs,
             \/ SchedAcquire(c) \/ SchedRelease(c) \/ Enter(c) \/ Fault(c) \/ Ret(c)
             \/ ForkBuild(c) \/ ForkPublish(c) \/ Forkret(c) \/ Exit(c)
             \/ ExitInit(c) \/ WaitReap(c) \/ WaitFail(c) \/ WaitSleep(c)
      PROVE  UNCHANGED rtVars
  BY <1>8, Zenon DEF SchedAcquire, SchedRelease, Enter, Fault, Ret, ForkBuild,
     ForkPublish, Forkret, Exit, ExitInit, WaitReap, WaitFail, WaitSleep
<1>9. ASSUME NEW c \in CPUs,
             \/ Kill(c) \/ SleepTest(c) \/ SleepSched(c) \/ SleepResume(c)
             \/ TimerIntr(c) \/ TrapKilled(c) \/ TrapCheck(c) \/ Yield(c)
             \/ YieldResume(c) \/ TrapEnd(c)
      PROVE  UNCHANGED rtVars
  BY Zenon, <1>9 DEF Kill, SleepTest, SleepSched, SleepResume, TimerIntr, TrapKilled,
     TrapCheck, Yield, YieldResume, TrapEnd
<1>10. CASE TickBegin \/ TickWakeup \/ UNCHANGED vars
  BY <1>1, <1>10 DEF TickBegin, TickWakeup, vars
<1> QED
  BY Zenon, <1>1, <1>2, <1>3, <1>4, <1>5, <1>6, <1>7, <1>8, <1>9, <1>10 DEF Next, Halt

\* Steps keep the locks and the fields of struct cpu in their types.
LEMMA CPUTypeStep == TypeOK /\ [Next]_vars => CPUType'
<1> SUFFICES ASSUME TypeOK, [Next]_vars PROVE CPUType'
  OBVIOUS
<1>0. CPUType
  BY DEF TypeOK
<1>a. /\ 0 \in 0..NPROC /\ Slots \subseteq 0..NPROC
      /\ 1 \in 1..NPROC + 1 /\ \A h \in Slots : h + 1 \in 1..NPROC + 1
  BY SizeAssumption DEF Slots
<1> USE CPUAssumption
<1>1. CASE UNCHANGED <<cpuVars, tickVars>>
  BY <1>0, <1>1 DEF CPUType, cpuVars, tickVars
<1>2. ASSUME NEW c \in CPUs, SwtchToScheduler(c), intick' = intick,
             tickslock' \in {tickslock, NoCPU}
      PROVE  CPUType'
  BY <1>0, <1>a, <1>2 DEF CPUType, SwtchToScheduler
<1>3. ASSUME NEW c \in CPUs, ptlock' \in CPUs \cup {NoCPU},
             cursor' \in {cursor, [cursor EXCEPT ![c] = 1]},
             UNCHANGED <<cproc, tickVars>>
      PROVE  CPUType'
  BY <1>0, <1>a, <1>3 DEF CPUType, tickVars
<1>4. ASSUME NEW c \in CPUs, SchedRun(c) PROVE CPUType'
  <2>1. PICK h \in Slots : /\ cproc' = [cproc EXCEPT ![c] = h]
                           /\ cursor' = [cursor EXCEPT ![c] = h + 1]
    BY <1>4, Zenon DEF SchedRun, Runnable, NextSlot
  <2>2. UNCHANGED <<ptlock, tickslock, intick>>
    BY <1>4, Zenon DEF SchedRun, tickVars
  <2> QED
    BY <1>0, <1>a, <2>1, <2>2 DEF CPUType
<1>5. ASSUME NEW c \in CPUs, SchedAcquire(c) \/ SchedRelease(c) \/ Forkret(c)
                             \/ WaitReap(c) \/ WaitFail(c) \/ SleepResume(c)
                             \/ YieldResume(c)
      PROVE  CPUType'
  BY Zenon, <1>3, <1>5 DEF SchedAcquire, SchedRelease, Forkret, WaitReap, WaitFail,
     SleepResume, YieldResume
<1>6. ASSUME NEW c \in CPUs, Exit(c) \/ WaitSleep(c) \/ SleepSched(c) \/ Yield(c)
      PROVE  CPUType'
  BY <1>2, <1>6, Zenon DEF Exit, WaitSleep, SleepSched, Yield, tickVars
<1>7. ASSUME NEW c \in CPUs, SleepTest(c) PROVE CPUType'
  BY <1>0, <1>7 DEF CPUType, SleepTest, HoldTickslock, cpuVars
<1>8. CASE TickBegin \/ TickWakeup
  BY <1>0, <1>8, Zenon DEF CPUType, TickBegin, TickWakeup, cpuVars
<1>9. ASSUME NEW c \in CPUs,
             \/ Enter(c) \/ Fault(c) \/ Ret(c) \/ ForkAlloc(c) \/ ForkBuild(c)
             \/ ForkPublish(c) \/ ExitInit(c) \/ Kill(c) \/ TimerIntr(c)
             \/ TrapKilled(c) \/ TrapCheck(c) \/ TrapEnd(c) \/ SchedPolicy(c)
             \/ Deadline(c) \/ ExecTime(c) \/ Rate(c)
      PROVE  UNCHANGED <<cpuVars, tickVars>>
  BY <1>9, Zenon DEF Enter, Fault, Ret, ForkAlloc, ForkBuild, ForkPublish, ExitInit,
     Kill, TimerIntr, TrapKilled, TrapCheck, TrapEnd, SchedPolicy, Deadline,
     ExecTime, Rate
<1>10. CASE UNCHANGED vars
  BY <1>1, <1>10 DEF vars
<1> QED
  BY Zenon, <1>1, <1>4, <1>5, <1>6, <1>7, <1>8, <1>9, <1>10 DEF Next, Halt

\* The places a step can leave a thread at.
LEMMA LocsAndTraps ==
  /\ Calls \cup {"user", "forkret", "fork_build", "fork_pub", "wait_sleep",
                 "sleep_acq", "sleep_sched", "sleep_reacq", "ret", "ret_fail",
                 "init_fail", "zombie", "exit"} \subseteq Locs
  /\ {"none", "intr", "check", "yield", "yielded", "end", "exit"} \subseteq Traps
BY CallAssumption DEF Locs, AllCalls, Traps

\* Steps keep the thread variables in their types.
LEMMA ThreadTypeStep == TypeOK /\ [Next]_vars => ThreadType'
<1> SUFFICES ASSUME TypeOK, [Next]_vars PROVE ThreadType'
  OBVIOUS
<1>0. ThreadType
  BY DEF TypeOK
<1>a. 0 \in 0..NPROC /\ Slots \subseteq 0..NPROC
  BY SizeAssumption DEF Slots
<1>1. CASE UNCHANGED locVars
  BY <1>0, <1>1 DEF ThreadType, locVars
\* Most steps only move the thread, or its trap, to a constant place.
<1>2. ASSUME NEW p, NEW l \in Locs, NEW t \in Traps,
             pc' \in {pc, [pc EXCEPT ![p] = l]},
             trap' \in {trap, [trap EXCEPT ![p] = t]},
             np' \in {np, [np EXCEPT ![p] = 0]}, left' = left
      PROVE  ThreadType'
  BY <1>0, <1>a, <1>2 DEF ThreadType
<1>3. ASSUME NEW c \in CPUs,
             SchedAcquire(c) \/ SchedRun(c) \/ SchedRelease(c) \/ ExitInit(c)
      PROVE  UNCHANGED locVars
  BY <1>3, Zenon DEF SchedAcquire, SchedRun, SchedRelease, ExitInit
<1>4. ASSUME NEW c \in CPUs, Enter(c) PROVE ThreadType'
  BY <1>2, <1>4, LocsAndTraps, Zenon DEF Enter, UserCalls, Goto
<1>5. ASSUME NEW c \in CPUs, Ret(c) \/ Fault(c) PROVE ThreadType'
  BY Zenon, <1>2, <1>5, LocsAndTraps DEF Ret, AfterFork, Fault, Goto
<1>6. ASSUME NEW c \in CPUs, ForkAlloc(c) PROVE ThreadType'
  BY <1>0, <1>a, <1>6, LocsAndTraps DEF ThreadType, ForkAlloc, Goto
<1>7. ASSUME NEW c \in CPUs, ForkBuild(c) PROVE ThreadType'
  BY <1>2, <1>7, LocsAndTraps, Zenon DEF ForkBuild, Goto
<1>8. ASSUME NEW c \in CPUs, ForkPublish(c) \/ Forkret(c) PROVE ThreadType'
  BY Zenon, <1>2, <1>8, LocsAndTraps DEF ForkPublish, Forkret, Goto
<1>9. ASSUME NEW c \in CPUs, Exit(c) PROVE ThreadType'
  BY <1>2, <1>9, LocsAndTraps, Zenon DEF Exit, Goto
<1>10. ASSUME NEW c \in CPUs, WaitReap(c) \/ WaitFail(c) \/ WaitSleep(c)
       PROVE  ThreadType'
  BY <1>2, <1>10, LocsAndTraps, Zenon DEF WaitReap, WaitFail, WaitSleep, Goto
<1>11. ASSUME NEW c \in CPUs, Kill(c) \/ SleepSched(c) \/ SleepResume(c)
       PROVE  ThreadType'
  BY <1>2, <1>11, LocsAndTraps, Zenon DEF Kill, SleepSched, SleepResume, Goto
<1>12. ASSUME NEW c \in CPUs, SleepTest(c) PROVE ThreadType'
  <2>1. left' \in [Slots -> Nat]
    BY Zenon, <1>0, <1>12, ParamAssumption DEF ThreadType, SleepTest
  <2> QED
    BY Zenon, <1>0, <1>12, <2>1, LocsAndTraps DEF ThreadType, SleepTest, Goto
<1>13. ASSUME NEW c \in CPUs,
              TimerIntr(c) \/ Yield(c) \/ YieldResume(c) PROVE ThreadType'
  BY Zenon, <1>2, <1>13, LocsAndTraps DEF TimerIntr, Yield, YieldResume
<1>14. ASSUME NEW c \in CPUs,
              TrapKilled(c) \/ TrapCheck(c) \/ TrapEnd(c) PROVE ThreadType'
  BY Zenon, <1>2, <1>14, LocsAndTraps DEF TrapKilled, TrapCheck, TrapEnd, ExitFromTrap,
     Goto
<1>15. ASSUME NEW c \in CPUs,
              SchedPolicy(c) \/ Deadline(c) \/ ExecTime(c) \/ Rate(c)
       PROVE  ThreadType'
  BY <1>2, <1>15, LocsAndTraps, Zenon DEF SchedPolicy, Deadline, ExecTime, Rate, Goto
<1>16. CASE TickBegin
  BY <1>0, <1>16 DEF ThreadType, TickBegin
<1>17. CASE TickWakeup
  BY Zenon, <1>0, <1>17, LocsAndTraps DEF ThreadType, TickWakeup
<1>18. CASE UNCHANGED vars
  BY <1>1, <1>18 DEF vars
<1> QED
  BY Zenon, <1>1, <1>3, <1>4, <1>5, <1>6, <1>7, <1>8, <1>9, <1>10, <1>11, <1>12,
     <1>13, <1>14, <1>15, <1>16, <1>17, <1>18 DEF Next, Halt

\* Steps keep panicked among the panics of the model.
LEMMA PanicTypeStep == TypeOK /\ [Next]_vars => panicked' \in Panics
<1> SUFFICES ASSUME TypeOK, [Next]_vars PROVE panicked' \in Panics
  OBVIOUS
<1>0. panicked \in Panics
  BY DEF TypeOK
<1>1. ASSUME NEW c \in CPUs,
             SchedRun(c) \/ ExitInit(c) \/ WaitReap(c) \/ SchedPolicy(c)
      PROVE  panicked' \in Panics
  BY <1>0, <1>1, Zenon DEF Panics, SchedRun, ExitInit, WaitReap, SchedPolicy, SetEDF,
     SetRM, Refuse
<1>2. ASSUME NEW c \in CPUs,
             \/ SchedAcquire(c) \/ SchedRelease(c) \/ Enter(c) \/ Fault(c) \/ Ret(c)
             \/ ForkAlloc(c) \/ ForkBuild(c) \/ ForkPublish(c) \/ Forkret(c)
             \/ Exit(c) \/ WaitFail(c) \/ WaitSleep(c) \/ Kill(c)
      PROVE  panicked' = panicked
  BY <1>2, Zenon DEF SchedAcquire, SchedRelease, Enter, Fault, Ret, ForkAlloc,
     ForkBuild, ForkPublish, Forkret, Exit, WaitFail, WaitSleep, Kill
<1>3. ASSUME NEW c \in CPUs,
             \/ SleepTest(c) \/ SleepSched(c) \/ SleepResume(c) \/ TimerIntr(c)
             \/ TrapKilled(c) \/ TrapCheck(c) \/ Yield(c) \/ YieldResume(c)
             \/ TrapEnd(c) \/ Deadline(c) \/ ExecTime(c) \/ Rate(c)
      PROVE  panicked' = panicked
  BY <1>3, Zenon DEF SleepTest, SleepSched, SleepResume, TimerIntr, TrapKilled,
     TrapCheck, Yield, YieldResume, TrapEnd, Deadline, ExecTime, Rate
<1>4. CASE TickBegin \/ TickWakeup \/ UNCHANGED vars
  BY Zenon, <1>0, <1>4 DEF TickBegin, TickWakeup, vars
<1> QED
  BY Zenon, <1>0, <1>1, <1>2, <1>3, <1>4 DEF Next, Halt

\* The type invariant is inductive.
LEMMA TypeStep == TypeOK /\ [Next]_vars => TypeOK'
BY ProcTypeStep, RTTypeStep, CPUTypeStep, ThreadTypeStep, PanicTypeStep
   DEF TypeOK

\* userinit() leaves the variables in their types.
LEMMA InitTypes == Init => TypeOK
<1> SUFFICES ASSUME Init PROVE TypeOK
  OBVIOUS
<1> USE SizeAssumption, CPUAssumption, CapAssumption
<1>1. ProcType
  BY DEF Init, ProcType, States, TicksChan
<1>2. RTType
  BY DEF Init, RTType, NONE, EDF, RM
<1>3. CPUType
  <2>1. 0 \in 0..NPROC /\ 1 \in 1..NPROC + 1
    OBVIOUS
  <2> QED
    BY <2>1, Zenon DEF Init, CPUType
<1>4. ThreadType
  BY LocsAndTraps DEF Init, ThreadType
<1> QED
  BY Zenon, <1>1, <1>2, <1>3, <1>4 DEF Init, TypeOK, Panics

\* The types hold in every behaviour, refusals included: sched_policy() grants
\* less than one processor to EDF and at most one to RM processes in all.
THEOREM TypeCorrect == Spec => []TypeOK
BY InitTypes, TypeStep, PTL DEF Spec
-----------------------------------------------------------------------------
(* The scan of scheduler() *)

\* A nonempty set of naturals has a least element.
LEMMA NatMin ==
  ASSUME NEW T, T \subseteq Nat, T # {}
  PROVE  \E x \in T : \A y \in T : ~ (y < x)
<1> DEFINE R == {ss \in Nat \X Nat : ss[1] < ss[2]}
<1>1. IsWellFoundedOn(R, Nat)
  BY NatLessThanWellFounded DEF OpToRel
<1> HIDE DEF R
<1>2. PICK x \in T : \A y \in T : <<y, x>> \notin R
  BY Zenon, <1>1, WFMin
<1>3. ASSUME NEW y \in T, y < x PROVE FALSE
  <2>1. <<y, x>> \in R
    BY <1>3 DEF R
  <2> QED
    BY <2>1, <1>2
<1> QED
  BY <1>2, <1>3

\* Induction over the iterations of a loop, as a fact about a set.
LEMMA SetInduction ==
  ASSUME NEW S, 0 \in S, \A n \in Nat : n \in S => n + 1 \in S
  PROVE  Nat \subseteq S
<1> SUFFICES ASSUME ~(Nat \subseteq S) PROVE FALSE
  OBVIOUS
<1> DEFINE T == Nat \ S
<1>1. PICK m \in T : \A y \in T : ~(y < m)
  <2>1. T \subseteq Nat /\ T # {}
    OBVIOUS
  <2> QED
    BY Zenon, <2>1, NatMin
<1>2. m # 0 /\ m \in Nat
  OBVIOUS
<1>3. m - 1 \in Nat /\ m - 1 < m /\ (m - 1) + 1 = m
  BY <1>2
<1>4. m - 1 \in S
  BY <1>1, <1>3
<1> QED
  BY <1>3, <1>4

\* f is what highP holds after each of the first n iterations of the loop.
Iterates(f, n, p, key) ==
  f = [i \in 0..n |-> IF i = 0 THEN p ELSE Keep(key, f[i - 1], i)]

\* The loop of scheduler() runs for any number of iterations.
LEMMA LoopRuns ==
  ASSUME NEW p, NEW key, NEW n \in Nat PROVE \E f : Iterates(f, n, p, key)
<1> DEFINE S == {m \in Nat : \E f : Iterates(f, m, p, key)}
<1>1. 0 \in S
  <2> DEFINE g == [i \in 0..0 |-> p]
  <2>1. Iterates(g, 0, p, key)
    BY DEF Iterates
  <2> QED
    BY <2>1
<1>2. ASSUME NEW m \in Nat, m \in S PROVE m + 1 \in S
  <2>1. PICK f : Iterates(f, m, p, key)
    BY <1>2
  <2> DEFINE g == [i \in 0..(m + 1) |-> IF i = m + 1 THEN Keep(key, f[m], m + 1)
                                                  ELSE f[i]]
  <2>2. ASSUME NEW i \in 0..(m + 1)
        PROVE  g[i] = IF i = 0 THEN p ELSE Keep(key, g[i - 1], i)
    <3>1. CASE i = m + 1
      <4>1. g[i] = Keep(key, f[m], m + 1) /\ i # 0 /\ i - 1 = m
        BY <3>1
      <4>2. g[m] = f[m]
        OBVIOUS
      <4> QED
        BY <3>1, <4>1, <4>2, Zenon
    <3>2. CASE i # m + 1
      <4>1. i \in 0..m /\ g[i] = f[i]
        BY <3>2
      <4>2. f[i] = IF i = 0 THEN p ELSE Keep(key, f[i - 1], i)
        BY <2>1, <4>1, Zenon DEF Iterates
      <4>3. i # 0 => g[i - 1] = f[i - 1]
        BY <4>1
      <4> QED
        BY <4>1, <4>2, <4>3, Zenon
    <3> QED
      BY <3>1, <3>2
  <2> DEFINE h == [i \in 0..(m + 1) |->
                     IF i = 0 THEN p ELSE Keep(key, g[i - 1], i)]
  <2>3. g = [i \in 0..(m + 1) |-> g[i]]
    BY Zenon
  <2> HIDE DEF g
  <2>4. h = [i \in 0..(m + 1) |-> g[i]]
    BY <2>2, Zenon
  <2>5. Iterates(g, m + 1, p, key)
    BY <2>3, <2>4, Zenon DEF Iterates
  <2> QED
    BY <2>5
<1> HIDE DEF S
<1>3. Nat \subseteq S
  BY <1>1, <1>2, SetInduction
<1> QED
  BY <1>3 DEF S

\* Scan is what highP holds after the loop has walked over the whole table.
LEMMA ScanIterates ==
  ASSUME NEW p, NEW key
  PROVE  \E f : Iterates(f, NPROC, p, key) /\ Scan(p, key) = f[NPROC]
<1> DEFINE highP[i \in 0..NPROC] ==
             IF i = 0 THEN p ELSE Keep(key, highP[i - 1], i)
<1>1. \E f : Iterates(f, NPROC, p, key)
  BY LoopRuns, SizeAssumption
<1>2. Iterates(highP, NPROC, p, key)
  BY <1>1, Zenon DEF Iterates
<1>3. Scan(p, key) = highP[NPROC]
  BY Zenon DEF Scan
<1> QED
  BY <1>2, <1>3, Zenon

\* The order on (key, pid) pairs is transitive.
LEMMA BeforeTransitive ==
  ASSUME NEW k1 \in Int, NEW k2 \in Int, NEW k3 \in Int,
         NEW i1 \in Int, NEW i2 \in Int, NEW i3 \in Int,
         Before(k1, i1, k2, i2), Before(k2, i2, k3, i3)
  PROVE  Before(k1, i1, k3, i3)
BY DEF Before

\* highP is RUNNABLE, and no RUNNABLE process of the slots 1..n comes before it.
Least(h, n, key) ==
  /\ h \in Runnable
  /\ \A r \in Runnable : r <= n => ~Before(key[r], pid[r], key[h], pid[h])

\* An iteration of the loop extends the slots that highP is least among by one.
LEMMA KeepLeast ==
  ASSUME NEW key \in [Slots -> Int], pid \in [Slots -> Nat],
         NEW n \in Nat, n + 1 \in Slots, NEW h, Least(h, n, key)
  PROVE  Least(Keep(key, h, n + 1), n + 1, key)
<1> DEFINE k == Keep(key, h, n + 1)
<1>1. /\ h \in Slots /\ Runnable \subseteq Slots
      /\ \A r \in Slots : key[r] \in Int /\ pid[r] \in Int /\ r \in Int
  BY DEF Least, Runnable, Slots
<1>2. CASE /\ state[n + 1] = "RUNNABLE"
           /\ Better(key[n + 1], pid[n + 1], key[h], pid[h])
  <2>1. k = n + 1 /\ n + 1 \in Runnable
    BY <1>2, Zenon DEF Keep, Runnable
  <2>2. Before(key[n + 1], pid[n + 1], key[h], pid[h])
    BY <1>1, <1>2 DEF Better, Before
  <2>3. ASSUME NEW r \in Runnable, r <= n + 1,
               Before(key[r], pid[r], key[n + 1], pid[n + 1])
        PROVE  FALSE
    <3>1. CASE r = n + 1
      BY <1>1, <2>3, <3>1 DEF Before
    <3>2. CASE r # n + 1
      <4>1. r <= n
        BY <1>1, <2>3, <3>2
      <4>2. Before(key[r], pid[r], key[h], pid[h])
        BY <1>1, <2>2, <2>3, BeforeTransitive
      <4> QED
        BY <4>1, <4>2, Zenon DEF Least
    <3> QED
      BY <3>1, <3>2
  <2> QED
    BY <2>1, <2>3, Zenon DEF Least
<1>3. CASE ~(/\ state[n + 1] = "RUNNABLE"
             /\ Better(key[n + 1], pid[n + 1], key[h], pid[h]))
  <2>1. k = h
    BY <1>3, Zenon DEF Keep
  <2>2. ASSUME NEW r \in Runnable, r <= n + 1,
               Before(key[r], pid[r], key[h], pid[h])
        PROVE  FALSE
    <3>1. CASE r = n + 1
      BY <1>1, <1>3, <2>2, <3>1 DEF Before, Better, Runnable
    <3>2. CASE r # n + 1
      <4>1. r <= n
        BY <1>1, <2>2, <3>2
      <4> QED
        BY <2>2, <4>1, Zenon DEF Least
    <3> QED
      BY <3>1, <3>2
  <2> QED
    BY <2>1, <2>2, Zenon DEF Least
<1> QED
  BY <1>2, <1>3

\* Both inner loops of scheduler() end with a process that no RUNNABLE process
\* of the table comes before, for a table of any size.
LEMMA ScanLeast ==
  ASSUME NEW key \in [Slots -> Int], pid \in [Slots -> Nat], NEW p \in Runnable
  PROVE  \A r \in Runnable :
           ~Before(key[r], pid[r], key[Scan(p, key)], pid[Scan(p, key)])
<1>1. PICK f : Iterates(f, NPROC, p, key) /\ Scan(p, key) = f[NPROC]
  BY ScanIterates
<1>2. \A i \in 0..NPROC : f[i] = IF i = 0 THEN p ELSE Keep(key, f[i - 1], i)
  BY <1>1, Zenon DEF Iterates
<1> DEFINE S == {n \in Nat : n <= NPROC => Least(f[n], n, key)}
<1>3. 0 \in S
  <2>1. f[0] = p
    BY <1>2, SizeAssumption
  <2>2. \A r \in Runnable : ~(r <= 0)
    BY SizeAssumption DEF Runnable, Slots
  <2>3. Least(f[0], 0, key)
    BY <2>1, <2>2, Zenon DEF Least
  <2> QED
    BY <2>3
<1>4. ASSUME NEW n \in Nat, n \in S PROVE n + 1 \in S
  <2> SUFFICES ASSUME n + 1 <= NPROC PROVE Least(f[n + 1], n + 1, key)
    OBVIOUS
  <2>1. /\ n + 1 \in Slots /\ n + 1 \in 0..NPROC /\ n + 1 # 0
        /\ (n + 1) - 1 = n /\ n <= NPROC
    BY SizeAssumption DEF Slots
  <2>2. f[n + 1] = Keep(key, f[n], n + 1)
    BY <1>2, <2>1, Zenon
  <2>3. Least(f[n], n, key)
    BY <1>4, <2>1
  <2>4. Least(Keep(key, f[n], n + 1), n + 1, key)
    BY <2>1, <2>3, KeepLeast
  <2> QED
    BY <2>2, <2>4, Zenon
<1> HIDE DEF S
<1>5. NPROC \in S
  BY <1>3, <1>4, SetInduction, SizeAssumption
<1>6. Least(f[NPROC], NPROC, key)
  BY <1>5, SizeAssumption DEF S
<1>7. \A r \in Runnable : r <= NPROC
  BY SizeAssumption DEF Runnable, Slots
<1> QED
  BY <1>1, <1>6, <1>7, Zenon DEF Least

\* A step that gives CPU c a process is a step of its scheduler().
LEMMA OnlySchedRunDispatches ==
  ASSUME TypeOK, [Next]_vars, NEW c \in CPUs, NEW q \in Slots,
         cproc[c] = 0, cproc'[c] = q
  PROVE  SchedRun(c)
<1>0. 0 \notin Slots /\ cproc \in [CPUs -> 0..NPROC]
  BY SizeAssumption DEF Slots, TypeOK, CPUType
<1>1. CASE UNCHANGED cproc
  BY <1>0, <1>1
<1>2. ASSUME NEW d \in CPUs, SwtchToScheduler(d) PROVE FALSE
  BY Zenon, <1>0, <1>2 DEF SwtchToScheduler
<1>3. ASSUME NEW d \in CPUs, SchedRun(d) PROVE d = c
  BY Zenon, <1>0, <1>3 DEF SchedRun
<1>4. ASSUME NEW d \in CPUs,
             \/ ThreadStep(d) \/ Fault(d) \/ ForkAlloc(d) \/ ForkBuild(d)
             \/ ForkPublish(d) \/ WaitReap(d) \/ WaitFail(d) \/ Kill(d)
             \/ SleepResume(d) \/ SchedPolicy(d)
      PROVE  UNCHANGED cproc
  BY Zenon, <1>4, ThreadStepFrame DEF Fault, ForkAlloc, ForkBuild, ForkPublish,
     WaitReap, WaitFail, Kill, SleepResume, SchedPolicy, cpuVars
<1>5. ASSUME NEW d \in CPUs, Exit(d) \/ WaitSleep(d) \/ SleepSched(d) \/ Yield(d)
      PROVE  SwtchToScheduler(d)
  BY Zenon, <1>5 DEF Exit, WaitSleep, SleepSched, Yield
<1>6. CASE TickBegin \/ TickWakeup \/ UNCHANGED vars
  BY Zenon, <1>1, <1>6 DEF TickBegin, TickWakeup, vars, cpuVars
<1> QED
  BY Zenon, <1>1, <1>2, <1>3, <1>4, <1>5, <1>6 DEF Next, Halt, ThreadStep

\* What DispatchOrder says of giving a CPU to q.
FirstOfPolicy(q) ==
  /\ sched_policy[q] = EDF /\ NoneRunnable(RM) => InOrder(q, EDF, deadline)
  /\ sched_policy[q] = RM /\ NoneRunnable(EDF) => InOrder(q, RM, priority)

\* The process that scheduler() switches to is first among those of its policy.
LEMMA DispatchStep ==
  ASSUME TypeOK, NEW c \in CPUs, SchedRun(c), NEW q \in Slots, cproc'[c] = q
  PROVE  FirstOfPolicy(q)
<1>0. /\ deadline \in [Slots -> Int] /\ priority \in [Slots -> Int]
      /\ pid \in [Slots -> Nat] /\ cproc \in [CPUs -> 0..NPROC]
  <2>a. ProcType /\ RTType /\ CPUType
    BY Zenon DEF TypeOK
  <2>1. deadline \in [Slots -> Int] /\ priority \in [Slots -> Nat \ {0}]
    BY <2>a DEF RTType
  <2>2. pid \in [Slots -> Nat] /\ cproc \in [CPUs -> 0..NPROC]
    BY Zenon, <2>a DEF ProcType, CPUType
  <2> QED
    BY <2>1, <2>2
<1>1. PICK p \in Runnable : q = Picks(p)
  BY Zenon, <1>0 DEF SchedRun, Ahead
<1>2. p \in Slots /\ state[p] = "RUNNABLE" /\ EDF # RM
  BY <1>1 DEF Runnable, EDF, RM
<1>3. CASE sched_policy[p] = EDF
  <2>1. q = Scan(p, deadline)
    BY <1>1, <1>2, <1>3, Zenon DEF Picks
  <2>2. InOrder(q, EDF, deadline)
    BY <1>0, <2>1, ScanLeast, Zenon DEF InOrder, Runnable
  <2> QED
    BY <1>2, <1>3, <2>2, Zenon DEF FirstOfPolicy, NoneRunnable
<1>4. CASE sched_policy[p] = RM
  <2>1. q = Scan(p, priority)
    BY <1>1, <1>2, <1>4, Zenon DEF Picks
  <2>2. InOrder(q, RM, priority)
    BY <1>0, <2>1, ScanLeast, Zenon DEF InOrder, Runnable
  <2> QED
    BY <1>2, <1>4, <2>2, Zenon DEF FirstOfPolicy, NoneRunnable
<1>5. CASE sched_policy[p] \notin {EDF, RM}
  <2>1. q = p
    BY <1>1, <1>5, Zenon DEF Picks
  <2> QED
    BY <1>5, <2>1, Zenon DEF FirstOfPolicy
<1> QED
  BY <1>3, <1>4, <1>5, Zenon

\* scheduler() dispatches EDF processes by deadline and RM processes by priority,
\* ties by pid, in every behaviour and wherever its outer loop stands.
THEOREM DispatchesInOrder == Spec => DispatchOrder
<1> DEFINE A == \A c \in CPUs, q \in Slots : cproc[c] = 0 /\ cproc'[c] = q =>
       /\ sched_policy[q] = EDF /\ NoneRunnable(RM) => InOrder(q, EDF, deadline)
       /\ sched_policy[q] = RM /\ NoneRunnable(EDF) => InOrder(q, RM, priority)
<1>1. TypeOK /\ [Next]_vars => A
  BY OnlySchedRunDispatches, DispatchStep, Zenon DEF FirstOfPolicy
<1>2. TypeOK /\ [Next]_vars => [A]_vars
  BY <1>1
<1> QED
  BY <1>2, TypeCorrect, PTL DEF Spec, DispatchOrder
=============================================================================
