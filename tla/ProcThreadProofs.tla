-------------------------- MODULE ProcThreadProofs --------------------------
(***************************************************************************)
(* Every step of Proc is quiet, or one of the few that move a process from *)
(* one p->state to another.  The parts of ProcInv about CPUs, places of    *)
(* threads, kernel stacks and fork() are kept by all of them.              *)
(***************************************************************************)
EXTENDS ProcTypeProofs
-----------------------------------------------------------------------------
(* Quiet steps: those that no part of ProcInv but TickInv can notice *)

Quiet ==
  /\ UNCHANGED <<state, pid, parent, kstack, nextpid, cproc, np>>
  /\ \A q \in Slots : state[q] = "SLEEPING" =>
        chan'[q] = chan[q] /\ killed'[q] = killed[q]
  /\ \A q \in Slots :
        \/ pc'[q] = pc[q]
        \/ /\ state[q] = "RUNNING"
           /\ pc'[q] \notin {"zombie", "fork_build", "fork_pub"}

\* The actions of CPU c that are quiet.
QuietAction(c) ==
  \/ ThreadStep(c) \/ Fault(c) \/ WaitFail(c) \/ SleepResume(c) \/ SchedPolicy(c)

\* They are: they change at most the place, the channel and the killed flag of
\* the RUNNING process on CPU c, the killed flag of a ZOMBIE, and fields that
\* ProcInv does not mention.
LEMMA QuietSteps ==
  ASSUME ProcInv, NEW c \in CPUs, QuietAction(c), ~Refusal PROVE Quiet
<1>0. /\ pc \in [Slots -> Locs] /\ chan \in [Slots -> 0..TicksChan]
      /\ killed \in [Slots -> BOOLEAN] /\ state \in [Slots -> States]
  BY DEF ProcInv, TypeOK, ProcType, ThreadType
<1>a. cproc[c] # 0 => cproc[c] \in Slots /\ state[cproc[c]] = "RUNNING"
  BY OnCPU
<1>1. ASSUME UNCHANGED <<procVars, nextpid, np, cproc>>, pc' = pc PROVE Quiet
  BY <1>1 DEF Quiet, procVars
<1>2. ASSUME UNCHANGED <<state, pid, parent, kstack, nextpid, cproc, np>>,
             cproc[c] # 0, NEW l, l \notin {"zombie", "fork_build", "fork_pub"},
             pc' = [pc EXCEPT ![cproc[c]] = l],
             chan' \in {chan, [chan EXCEPT ![cproc[c]] = 0]},
             killed' \in {killed, [killed EXCEPT ![cproc[c]] = TRUE]}
      PROVE  Quiet
  BY <1>0, <1>a, <1>2 DEF Quiet
<1>3. CASE \/ SchedAcquire(c) \/ SchedRelease(c) \/ ExitInit(c)
           \/ TimerIntr(c) \/ YieldResume(c)
  <2>1. pc' = pc
    BY <1>3, Zenon DEF SchedAcquire, SchedRelease, ExitInit, TimerIntr, YieldResume, locVars
  <2>2. UNCHANGED <<procVars, nextpid, np, cproc>>
    BY <1>3, ThreadStepFrame DEF ThreadStep
  <2> QED
    BY <1>1, <2>1, <2>2
<1>4. CASE Enter(c)
  <2>1. PICK l \in AllCalls : pc' = [pc EXCEPT ![cproc[c]] = l]
    BY <1>4, CallAssumption, Zenon DEF Enter, UserCalls, Goto, AllCalls
  <2>2. UNCHANGED <<procVars, nextpid, np, cproc>> /\ cproc[c] # 0
    BY Zenon, <1>4, ThreadStepFrame DEF ThreadStep, Enter, At
  <2>3. l \notin {"zombie", "fork_build", "fork_pub"}
    BY DEF AllCalls
  <2> QED
    BY <1>2, <2>1, <2>2, <2>3, Zenon DEF procVars
<1>5. CASE \/ Ret(c) \/ Forkret(c) \/ SleepTest(c) \/ Deadline(c) \/ ExecTime(c)
           \/ Rate(c)
  <2>1. \E l \in {"exit", "user", "init_fail", "ret", "sleep_acq"} :
           pc' = [pc EXCEPT ![cproc[c]] = l]
    BY Zenon, <1>5
       DEF Ret, AfterFork, Forkret, SleepTest, Deadline, ExecTime, Rate, Goto
  <2>2. UNCHANGED <<procVars, nextpid, np, cproc>> /\ cproc[c] # 0
    BY <1>5, ThreadStepFrame, Zenon DEF ThreadStep, At, Ret, Forkret, SleepTest,
       Deadline, ExecTime, Rate
  <2> QED
    BY <1>2, <2>1, <2>2, Zenon DEF procVars
<1>6. CASE TrapKilled(c) \/ TrapCheck(c) \/ TrapEnd(c)
  <2>1. pc' = pc \/ pc' = [pc EXCEPT ![cproc[c]] = "exit"]
    BY Zenon, <1>6 DEF TrapKilled, TrapCheck, TrapEnd, ExitFromTrap, Goto
  <2>2. UNCHANGED <<procVars, nextpid, np, cproc>> /\ cproc[c] # 0
    BY Zenon, <1>6, ThreadStepFrame DEF ThreadStep, InTrap, TrapKilled, TrapCheck, TrapEnd
  <2> QED
    BY <1>1, <1>2, <2>1, <2>2 DEF procVars
<1>7. CASE Fault(c)
  BY <1>2, <1>7, Zenon DEF Fault, At, Goto, cpuVars
<1>8. CASE WaitFail(c)
  BY <1>2, <1>8, Zenon DEF WaitFail, InWait, At, Goto
<1>9. CASE SleepResume(c)
  BY <1>2, <1>9, Zenon DEF SleepResume, At, Goto
<1>10. CASE SchedPolicy(c)
  <2>1. /\ UNCHANGED <<pid, parent, chan, kstack, nextpid, cproc, np>>
        /\ pc' = [pc EXCEPT ![cproc[c]] = "ret"] /\ cproc[c] # 0
    BY <1>10 DEF SchedPolicy, At, Goto, cpuVars
  <2>2. CASE UNCHANGED <<killed, state>>
    BY <1>2, <2>1, <2>2, Zenon
  <2>3. ASSUME NEW t \in Slots, Refuse(t) PROVE Quiet
    <3>1. state[t] = "ZOMBIE"
      BY <1>10, <2>3 DEF Refusal, SchedPolicy
    <3>2. state' = state /\ killed' = [killed EXCEPT ![t] = TRUE]
      BY <1>0, <2>3, <3>1 DEF Refuse
    <3> QED
      BY <1>0, <1>a, <2>1, <3>1, <3>2, Zenon DEF Quiet
  <2> QED
    BY Zenon, <1>10, <2>2, <2>3 DEF SchedPolicy, SetEDF, SetRM, FirstWithPid
<1> QED
  BY Zenon, <1>3, <1>4, <1>5, <1>6, <1>7, <1>8, <1>9, <1>10 DEF QuietAction, ThreadStep

\* The steps that are not quiet, with the ones of the clock.
LEMMA StepCases ==
  ASSUME ProcInv, [Next /\ ~Refusal]_vars
  PROVE  \/ Quiet
         \/ \E c \in CPUs :
              \/ SchedRun(c) \/ ForkAlloc(c) \/ ForkBuild(c) \/ ForkPublish(c)
              \/ Exit(c) \/ WaitReap(c) \/ WaitSleep(c) \/ Kill(c)
              \/ SleepSched(c) \/ Yield(c)
         \/ TickWakeup
<1>1. CASE UNCHANGED vars
  BY Zenon, <1>1 DEF vars, procVars, cpuVars, locVars, Quiet
<1>2. CASE TickBegin
  BY Zenon, <1>2 DEF TickBegin, procVars, cpuVars, Quiet
<1> QED
  BY Zenon, <1>1, <1>2, QuietSteps DEF Next, Halt, QuietAction, ThreadStep
-----------------------------------------------------------------------------
(* The parts of ProcInv *)

\* The types of the variables that the following proofs reason about.
LEMMA Types ==
  ASSUME ProcInv
  PROVE  /\ state \in [Slots -> States] /\ pid \in [Slots -> Nat]
         /\ nextpid \in Nat
         /\ parent \in [Slots -> 0..NPROC] /\ chan \in [Slots -> 0..TicksChan]
         /\ killed \in [Slots -> BOOLEAN] /\ kstack \in [Slots -> BOOLEAN]
         /\ cproc \in [CPUs -> 0..NPROC]
         /\ pc \in [Slots -> Locs] /\ trap \in [Slots -> Traps]
         /\ np \in [Slots -> 0..NPROC] /\ left \in [Slots -> Nat]
         /\ intick \in BOOLEAN
         /\ initproc \in Slots /\ 0 \notin Slots /\ TicksChan \notin Slots
         /\ \A i \in 0..NPROC : i # 0 => i \in Slots
<1>1. /\ initproc \in Slots /\ 0 \notin Slots /\ TicksChan \notin Slots
      /\ \A i \in 0..NPROC : i # 0 => i \in Slots
  BY SizeAssumption DEF initproc, Slots, TicksChan
<1> QED
  BY <1>1 DEF ProcInv, TypeOK, ProcType, CPUType, ThreadType

\* scheduler() switches to a RUNNABLE process; of struct proc it changes only
\* p->state and elapsed_time.
LEMMA RunStep ==
  ASSUME NEW c \in CPUs, SchedRun(c)
  PROVE  /\ UNCHANGED <<pid, parent, killed, chan, kstack, nextpid, pc, trap, np,
                        left, tickslock, intick>>
         /\ \E h \in Slots :
              /\ state[h] = "RUNNABLE" /\ cproc[c] = 0
              /\ cproc' = [cproc EXCEPT ![c] = h]
              /\ state' = [state EXCEPT ![h] = "RUNNING"]
              /\ panicked' = IF ~kstack[h] THEN "switchuvm: no kstack"
                             ELSE IF pc[h] = "zombie" THEN "zombie exit" ELSE "no"
BY Zenon DEF SchedRun, Runnable, locVars, tickVars

\* allocproc() fails, or turns an UNUSED slot into an EMBRYO with the next pid.
LEMMA AllocStep ==
  ASSUME NEW c \in CPUs, ForkAlloc(c)
  PROVE  /\ UNCHANGED <<parent, killed, chan, kstack, cproc>>
         /\ \/ state' = state /\ pc' = [pc EXCEPT ![cproc[c]] = "ret_fail"]
            \/ \E q \in Slots :
                 /\ state[q] = "UNUSED" /\ state' = [state EXCEPT ![q] = "EMBRYO"]
                 /\ pc' = [pc EXCEPT ![cproc[c]] = "fork_build", ![q] = "forkret"]
BY Zenon DEF ForkAlloc, Goto, procVars, cpuVars

\* A process is RUNNING on exactly one CPU: scheduler() takes a RUNNABLE one,
\* and whoever gives up the CPU does so in the step that ends RUNNING.
LEMMA ExactlyOneCPUStep ==
  ASSUME ProcInv, [Next /\ ~Refusal]_vars PROVE ExactlyOneCPU'
<1>0. ExactlyOneCPU /\ \A c \in CPUs : cproc[c] # 0 => cproc[c] \in Slots
  BY OnCPU DEF ProcInv
<1>1. ASSUME cproc' = cproc,
             \A q \in Slots : state'[q] = "RUNNING" <=> state[q] = "RUNNING"
      PROVE  ExactlyOneCPU'
  BY <1>0, <1>1 DEF ExactlyOneCPU
<1>2. ASSUME NEW c \in CPUs, cproc[c] # 0, cproc' = [cproc EXCEPT ![c] = 0],
             \A q \in Slots : state'[q] = "RUNNING" <=>
                                state[q] = "RUNNING" /\ q # cproc[c]
      PROVE  ExactlyOneCPU'
  BY <1>0, <1>2, Types DEF ExactlyOneCPU
<1>3. CASE Quiet
  BY Zenon, <1>1, <1>3 DEF Quiet
<1>4. ASSUME NEW c \in CPUs, SchedRun(c) PROVE ExactlyOneCPU'
  <2>1. PICK h \in Slots : /\ state[h] = "RUNNABLE" /\ cproc[c] = 0
                           /\ cproc' = [cproc EXCEPT ![c] = h]
                           /\ state' = [state EXCEPT ![h] = "RUNNING"]
    BY <1>4, RunStep, Zenon
  <2> QED
    BY <1>0, <2>1, Types DEF ExactlyOneCPU
<1>5. ASSUME NEW c \in CPUs, ForkAlloc(c) PROVE ExactlyOneCPU'
  <2>1. CASE state' = state /\ pc' = [pc EXCEPT ![cproc[c]] = "ret_fail"]
    BY Zenon, <1>1, <1>5, <2>1, AllocStep, Types
  <2>2. ASSUME NEW q \in Slots, state[q] = "UNUSED",
               state' = [state EXCEPT ![q] = "EMBRYO"],
               pc' = [pc EXCEPT ![cproc[c]] = "fork_build", ![q] = "forkret"]
        PROVE  ExactlyOneCPU'
    BY Zenon, <1>1, <1>5, <2>2, AllocStep, Types
  <2> QED
    BY <1>5, <2>1, <2>2, AllocStep, Zenon
<1>6. ASSUME NEW c \in CPUs, ForkBuild(c) PROVE ExactlyOneCPU'
  <2>1. np[cproc[c]] \in Slots /\ state[np[cproc[c]]] = "EMBRYO"
    BY <1>0, <1>6, Types DEF ForkBuild, At, ProcInv, ForkInv
  <2> QED
    BY <1>1, <1>6, <2>1, Types DEF ForkBuild, cpuVars
<1>7. ASSUME NEW c \in CPUs, ForkPublish(c) PROVE ExactlyOneCPU'
  <2>1. np[cproc[c]] \in Slots /\ state[np[cproc[c]]] = "EMBRYO"
    BY <1>0, <1>7, Types DEF ForkPublish, At, ProcInv, ForkInv
  <2> QED
    BY Zenon, <1>1, <1>7, <2>1, Types DEF ForkPublish, cpuVars
<1>8. ASSUME NEW c \in CPUs, Exit(c) PROVE ExactlyOneCPU'
  BY <1>0, <1>2, <1>8, Types, Zenon DEF Exit, SwtchToScheduler, Woken
<1>9. ASSUME NEW c \in CPUs, WaitReap(c) PROVE ExactlyOneCPU'
  BY <1>1, <1>9, Types DEF WaitReap, Zombies, Kids
<1>10. ASSUME NEW c \in CPUs, WaitSleep(c) PROVE ExactlyOneCPU'
  BY <1>0, <1>2, <1>10, Types, Zenon DEF WaitSleep, InWait, At, SwtchToScheduler
<1>11. ASSUME NEW c \in CPUs, Kill(c) PROVE ExactlyOneCPU'
  BY Zenon, <1>1, <1>11, Types DEF Kill, KillWakes, cpuVars
<1>12. ASSUME NEW c \in CPUs, SleepSched(c) PROVE ExactlyOneCPU'
  BY <1>0, <1>2, <1>12, Types, Zenon DEF SleepSched, At, SwtchToScheduler
<1>13. ASSUME NEW c \in CPUs, Yield(c) PROVE ExactlyOneCPU'
  BY <1>0, <1>2, <1>13, Types, Zenon DEF Yield, InTrap, SwtchToScheduler
<1>14. CASE TickWakeup
  BY Zenon, <1>1, <1>14, Types DEF TickWakeup, Woken, cpuVars
<1> QED
  BY <1>3, <1>4, <1>5, <1>6, <1>7, <1>8, <1>9, <1>10, <1>11, <1>12, <1>13,
     <1>14, StepCases

\* The place of a thread agrees with p->state: only exit() leaves a thread at
\* its end, and only sleep() leaves a SLEEPING process, on the right channel.
LEMMA ThreadInvStep ==
  ASSUME ProcInv, [Next /\ ~Refusal]_vars PROVE ThreadInv'
<1>0. ThreadInv
  BY DEF ProcInv
<1>a. \A c \in CPUs : cproc[c] # 0 => cproc[c] \in Slots
                                      /\ state[cproc[c]] = "RUNNING"
  BY OnCPU
<1>3. CASE Quiet
  BY <1>0, <1>3 DEF Quiet, ThreadInv
<1>4. ASSUME NEW c \in CPUs, SchedRun(c) PROVE ThreadInv'
  <2>1. PICK h \in Slots : /\ state[h] = "RUNNABLE" /\ cproc[c] = 0
                           /\ cproc' = [cproc EXCEPT ![c] = h]
                           /\ state' = [state EXCEPT ![h] = "RUNNING"]
    BY <1>4, RunStep, Zenon
  <2> QED
    <3>1. UNCHANGED <<pc, chan, parent>>
      BY <1>4, RunStep, Zenon
    <3> QED
      BY <1>0, <2>1, <3>1, Types DEF ThreadInv
<1>5. ASSUME NEW c \in CPUs, ForkAlloc(c) PROVE ThreadInv'
  <2>0. cproc[c] \in Slots /\ state[cproc[c]] = "RUNNING"
    BY <1>a, <1>5, Zenon DEF ForkAlloc, At
  <2>1. CASE state' = state /\ pc' = [pc EXCEPT ![cproc[c]] = "ret_fail"]
    BY Zenon, <1>0, <1>5, <2>0, <2>1, AllocStep, Types DEF ThreadInv
  <2>2. ASSUME NEW q \in Slots, state[q] = "UNUSED",
               state' = [state EXCEPT ![q] = "EMBRYO"],
               pc' = [pc EXCEPT ![cproc[c]] = "fork_build", ![q] = "forkret"]
        PROVE  ThreadInv'
    BY <1>0, <1>5, <2>0, <2>2, AllocStep, Types DEF ThreadInv
  <2> QED
    BY <1>5, <2>1, <2>2, AllocStep, Zenon
<1>6. ASSUME NEW c \in CPUs, ForkBuild(c) PROVE ThreadInv'
  <2>1. /\ np[cproc[c]] \in Slots /\ state[np[cproc[c]]] = "EMBRYO"
        /\ parent[np[cproc[c]]] = 0
    BY <1>a, <1>6, Types DEF ForkBuild, At, ProcInv, ForkInv
  <2> QED
    BY <1>0, <1>a, <1>6, <2>1, Types DEF ForkBuild, At, Goto, ThreadInv
<1>7. ASSUME NEW c \in CPUs, ForkPublish(c) PROVE ThreadInv'
  <2>1. np[cproc[c]] \in Slots /\ state[np[cproc[c]]] = "EMBRYO"
    BY <1>a, <1>7, Types DEF ForkPublish, At, ProcInv, ForkInv
  <2> QED
    BY <1>0, <1>a, <1>7, <2>1, Types DEF ForkPublish, At, Goto, ThreadInv
<1>8. ASSUME NEW c \in CPUs, Exit(c) PROVE ThreadInv'
  BY <1>0, <1>a, <1>8, Types DEF Exit, Woken, Kids, Goto, ThreadInv
<1>9. ASSUME NEW c \in CPUs, WaitReap(c) PROVE ThreadInv'
  BY <1>0, <1>a, <1>9, Types
     DEF WaitReap, InWait, At, Zombies, Kids, Goto, ThreadInv
<1>10. ASSUME NEW c \in CPUs, WaitSleep(c) PROVE ThreadInv'
  BY <1>0, <1>a, <1>10, Types DEF WaitSleep, InWait, At, Goto, ThreadInv
<1>11. ASSUME NEW c \in CPUs, Kill(c) PROVE ThreadInv'
  BY <1>0, <1>a, <1>11, Types DEF Kill, KillWakes, At, Goto, ThreadInv
<1>12. ASSUME NEW c \in CPUs, SleepSched(c) PROVE ThreadInv'
  BY <1>0, <1>a, <1>12, Types DEF SleepSched, At, Goto, ThreadInv
<1>13. ASSUME NEW c \in CPUs, Yield(c) PROVE ThreadInv'
  BY <1>0, <1>a, <1>13, Types DEF Yield, InTrap, ThreadInv
<1>14. CASE TickWakeup
  BY Zenon, <1>0, <1>14, Types DEF TickWakeup, Woken, ThreadInv
<1> QED
  BY <1>3, <1>4, <1>5, <1>6, <1>7, <1>8, <1>9, <1>10, <1>11, <1>12, <1>13,
     <1>14, StepCases

\* fork() gives a stack before it publishes the child; wait() takes it away
\* only from a ZOMBIE, which becomes UNUSED in the same step.
LEMMA StackInvStep ==
  ASSUME ProcInv, [Next /\ ~Refusal]_vars PROVE StackInv'
<1>0. StackInv
  BY DEF ProcInv
<1>a. \A c \in CPUs : cproc[c] # 0 => cproc[c] \in Slots
                                      /\ state[cproc[c]] = "RUNNING"
  BY Zenon, OnCPU
<1>b. ForkInv
  BY DEF ProcInv
<1>1. ASSUME kstack' = kstack,
             \A q \in Slots : state'[q] \in {"UNUSED", "EMBRYO"}
                              \/ state[q] \notin {"UNUSED", "EMBRYO"}
      PROVE  StackInv'
  BY Zenon, <1>0, <1>1 DEF StackInv
<1>3. CASE Quiet
  BY <1>0, <1>3, Zenon DEF Quiet, StackInv
<1>4. ASSUME NEW c \in CPUs, SchedRun(c) PROVE StackInv'
  BY <1>1, <1>4, RunStep, Types, Zenon
<1>5. ASSUME NEW c \in CPUs, ForkAlloc(c) PROVE StackInv'
  <2>1. CASE state' = state /\ pc' = [pc EXCEPT ![cproc[c]] = "ret_fail"]
    BY Zenon, <1>1, <1>5, <2>1, AllocStep, Types
  <2>2. ASSUME NEW q \in Slots, state[q] = "UNUSED",
               state' = [state EXCEPT ![q] = "EMBRYO"],
               pc' = [pc EXCEPT ![cproc[c]] = "fork_build", ![q] = "forkret"]
        PROVE  StackInv'
    BY Zenon, <1>1, <1>5, <2>2, AllocStep, Types
  <2> QED
    BY <1>5, <2>1, <2>2, AllocStep, Zenon
<1>6. ASSUME NEW c \in CPUs, ForkBuild(c) PROVE StackInv'
  <2>a. cproc[c] # 0 /\ pc[cproc[c]] = "fork_build"
    BY <1>6, Zenon DEF ForkBuild, At
  <2>1. np[cproc[c]] \in Slots
    BY <1>a, <1>b, <2>a, Types DEF ForkInv
  <2>2. \/ /\ state' = [state EXCEPT ![np[cproc[c]]] = "UNUSED"]
           /\ kstack' = [kstack EXCEPT ![np[cproc[c]]] = FALSE]
        \/ /\ state' = state
           /\ kstack' = [kstack EXCEPT ![np[cproc[c]]] = TRUE]
    BY <1>6, Zenon DEF ForkBuild
  <2> QED
    BY Zenon, <1>0, <2>1, <2>2, Types DEF StackInv
<1>7. ASSUME NEW c \in CPUs, ForkPublish(c) PROVE StackInv'
  <2>a. cproc[c] # 0 /\ pc[cproc[c]] = "fork_pub"
    BY <1>7, Zenon DEF ForkPublish, At
  <2>1. np[cproc[c]] \in Slots /\ kstack[np[cproc[c]]]
    BY <1>a, <1>b, <2>a, Types DEF ForkInv
  <2> QED
    BY Zenon, <1>0, <1>7, <2>1, Types DEF ForkPublish, StackInv
<1>8. ASSUME NEW c \in CPUs, Exit(c) PROVE StackInv'
  BY Zenon, <1>1, <1>a, <1>8, Types DEF Exit, Woken
<1>9. ASSUME NEW c \in CPUs, WaitReap(c) PROVE StackInv'
  BY <1>0, <1>9, Types DEF WaitReap, Zombies, Kids, StackInv
<1>10. ASSUME NEW c \in CPUs, WaitSleep(c) PROVE StackInv'
  BY Zenon, <1>1, <1>a, <1>10, Types DEF WaitSleep, InWait, At
<1>11. ASSUME NEW c \in CPUs, Kill(c) PROVE StackInv'
  BY Zenon, <1>1, <1>11, Types DEF Kill, KillWakes
<1>12. ASSUME NEW c \in CPUs, SleepSched(c) PROVE StackInv'
  BY Zenon, <1>1, <1>a, <1>12, Types DEF SleepSched, At
<1>13. ASSUME NEW c \in CPUs, Yield(c) PROVE StackInv'
  BY Zenon, <1>1, <1>a, <1>13, Types DEF Yield, InTrap
<1>14. CASE TickWakeup
  BY Zenon, <1>1, <1>14, Types DEF TickWakeup, Woken
<1> QED
  BY Zenon, <1>3, <1>4, <1>5, <1>6, <1>7, <1>8, <1>9, <1>10, <1>11, <1>12, <1>13,
     <1>14, StepCases

\* A thread inside fork() owns its EMBRYO alone: allocproc() takes an UNUSED
\* slot, so not one that another fork() is building.
LEMMA ForkInvStep ==
  ASSUME ProcInv, [Next /\ ~Refusal]_vars PROVE ForkInv'
<1>0. ForkInv /\ ThreadInv
  BY DEF ProcInv
<1>a. \A c \in CPUs : cproc[c] # 0 => cproc[c] \in Slots
                                      /\ state[cproc[c]] = "RUNNING"
  BY OnCPU
\* A step preserves ForkInv if it starts no fork() and spares the EMBRYOs.
<1>1. ASSUME np' = np,
             \A q \in Slots : pc'[q] \in {"fork_build", "fork_pub"} => pc'[q] = pc[q],
             \A q \in Slots : state[q] = "EMBRYO" =>
                /\ state'[q] = "EMBRYO" /\ kstack'[q] = kstack[q]
                /\ \/ parent'[q] = parent[q]
                   \/ /\ parent[q] # 0
                      /\ \A r \in Slots : pc'[r] = "fork_pub" => parent[q] # r
      PROVE  ForkInv'
  BY <1>0, <1>1, Types DEF ForkInv
<1>3. CASE Quiet
  BY Zenon, <1>1, <1>3 DEF Quiet
<1>4. ASSUME NEW c \in CPUs, SchedRun(c) PROVE ForkInv'
  <2>1. PICK h \in Slots : /\ state[h] = "RUNNABLE"
                           /\ state' = [state EXCEPT ![h] = "RUNNING"]
    BY <1>4, RunStep, Zenon
  <2> QED
    BY <1>1, <1>4, <2>1, RunStep, Types, Zenon
<1>5. ASSUME NEW c \in CPUs, ForkAlloc(c) PROVE ForkInv'
  <2>1. CASE /\ UNCHANGED <<state, parent, kstack, np>>
             /\ pc' = [pc EXCEPT ![cproc[c]] = "ret_fail"]
    BY Zenon, <1>1, <2>1, Types
  <2>2. ASSUME NEW q \in Slots, state[q] = "UNUSED",
               state' = [state EXCEPT ![q] = "EMBRYO"],
               pc' = [pc EXCEPT ![cproc[c]] = "fork_build", ![q] = "forkret"],
               np' = [np EXCEPT ![cproc[c]] = q],
               UNCHANGED <<parent, kstack>>
        PROVE  ForkInv'
    <3>1. cproc[c] \in Slots /\ q # cproc[c] /\ parent[q] = 0
      BY <1>0, <1>a, <1>5, <2>2, Zenon DEF ForkAlloc, At, ThreadInv
    <3>2. \A p \in Slots : pc'[p] \in {"fork_build", "fork_pub"} =>
            \/ p = cproc[c] /\ pc'[p] = "fork_build" /\ np'[p] = q
            \/ p # cproc[c] /\ pc'[p] = pc[p] /\ np'[p] = np[p]
               /\ np[p] # q /\ np[p] \in Slots
      BY <1>0, <2>2, <3>1, Types DEF ForkInv
    <3> QED
      BY <1>0, <2>2, <3>1, <3>2, Types DEF ForkInv
  <2> QED
    BY Zenon, <1>5, <2>1, <2>2 DEF ForkAlloc, Goto, procVars
<1>6. ASSUME NEW c \in CPUs, ForkBuild(c) PROVE ForkInv'
  <2>1. /\ cproc[c] \in Slots /\ pc[cproc[c]] = "fork_build"
        /\ np[cproc[c]] \in Slots /\ np[cproc[c]] # cproc[c]
        /\ \A p \in Slots \ {cproc[c]} :
              pc[p] \in {"fork_build", "fork_pub"} =>
                 np[p] # np[cproc[c]] /\ np[p] \in Slots
    BY <1>0, <1>a, <1>6, Types DEF ForkBuild, At, ForkInv
  <2>2. CASE /\ state' = [state EXCEPT ![np[cproc[c]]] = "UNUSED"]
             /\ kstack' = [kstack EXCEPT ![np[cproc[c]]] = FALSE]
             /\ pc' = [pc EXCEPT ![cproc[c]] = "ret_fail"]
             /\ np' = [np EXCEPT ![cproc[c]] = 0]
             /\ parent' = parent
    BY <1>0, <2>1, <2>2, Types DEF ForkInv
  <2>3. CASE /\ kstack' = [kstack EXCEPT ![np[cproc[c]]] = TRUE]
             /\ parent' = [parent EXCEPT ![np[cproc[c]]] = cproc[c]]
             /\ pc' = [pc EXCEPT ![cproc[c]] = "fork_pub"]
             /\ UNCHANGED <<state, np>>
    BY <1>0, <2>1, <2>3, Types DEF ForkInv
  <2> QED
    BY Zenon, <1>6, <2>2, <2>3 DEF ForkBuild, Goto
<1>7. ASSUME NEW c \in CPUs, ForkPublish(c) PROVE ForkInv'
  <2>1. /\ cproc[c] \in Slots /\ np[cproc[c]] \in Slots
        /\ \A p \in Slots \ {cproc[c]} :
              pc[p] \in {"fork_build", "fork_pub"} =>
                 np[p] # np[cproc[c]] /\ np[p] \in Slots
    BY <1>0, <1>a, <1>7, Types DEF ForkPublish, At, ForkInv
  <2> QED
    BY <1>0, <1>7, <2>1, Types DEF ForkPublish, Goto, ForkInv
<1>8. ASSUME NEW c \in CPUs, Exit(c) PROVE ForkInv'
  <2>1. cproc[c] \in Slots /\ state[cproc[c]] = "RUNNING"
    BY Zenon, <1>a, <1>8 DEF Exit
  <2>2. /\ state' = [Woken({parent[cproc[c]]} \cup
                           IF Zombies(cproc[c]) = {} THEN {} ELSE {initproc})
                       EXCEPT ![cproc[c]] = "ZOMBIE"]
        /\ parent' = [q \in Slots |-> IF parent[q] = cproc[c] THEN initproc
                                      ELSE parent[q]]
        /\ pc' = [pc EXCEPT ![cproc[c]] = "zombie"]
        /\ np' = np /\ kstack' = kstack
    BY Zenon, <1>8 DEF Exit, Kids, Goto
  <2>3. \A q \in Slots : state[q] = "EMBRYO" => state'[q] = "EMBRYO"
    BY Zenon, <2>1, <2>2, Types DEF Woken
  <2>4. \A q \in Slots : parent'[q] = parent[q] \/ parent[q] = cproc[c]
    BY Zenon, <2>2
  <2>5. \A r \in Slots : pc'[r] = "fork_pub" => r # cproc[c]
    BY Zenon, <2>1, <2>2, Types
  <2> QED
    BY <1>1, <2>1, <2>2, <2>3, <2>4, <2>5, Types
<1>9. ASSUME NEW c \in CPUs, WaitReap(c) PROVE ForkInv'
  <2>1. PICK q \in Slots : /\ state[q] = "ZOMBIE"
                           /\ state' = [state EXCEPT ![q] = "UNUSED"]
                           /\ kstack' = [kstack EXCEPT ![q] = FALSE]
                           /\ parent' = [parent EXCEPT ![q] = 0]
    BY <1>9, Zenon DEF WaitReap, Zombies, Kids
  <2>2. np' = np /\ pc' = [pc EXCEPT ![cproc[c]] = "ret"]
    BY Zenon, <1>9 DEF WaitReap, Goto
  <2> QED
    BY Zenon, <1>1, <2>1, <2>2, Types
<1>10. ASSUME NEW c \in CPUs, WaitSleep(c) PROVE ForkInv'
  BY Zenon, <1>1, <1>a, <1>10, Types DEF WaitSleep, InWait, At, Goto
<1>11. ASSUME NEW c \in CPUs, Kill(c) PROVE ForkInv'
  BY Zenon, <1>1, <1>11, Types DEF Kill, KillWakes, Goto
<1>12. ASSUME NEW c \in CPUs, SleepSched(c) PROVE ForkInv'
  BY Zenon, <1>1, <1>a, <1>12, Types DEF SleepSched, At, Goto
<1>13. ASSUME NEW c \in CPUs, Yield(c) PROVE ForkInv'
  BY Zenon, <1>1, <1>a, <1>13, Types DEF Yield, InTrap
<1>14. CASE TickWakeup
  BY Zenon, <1>1, <1>14, Types DEF TickWakeup, Woken
<1> QED
  BY Zenon, <1>3, <1>4, <1>5, <1>6, <1>7, <1>8, <1>9, <1>10, <1>11, <1>12, <1>13,
     <1>14, StepCases
=============================================================================
