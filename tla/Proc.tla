-------------------------------- MODULE Proc --------------------------------
(***************************************************************************)
(* The process table of proc.c: fork, exit, wait, kill, sleep and wakeup,  *)
(* the per-CPU scheduler() with its EDF and RM extensions, the real-time   *)
(* system calls, and the parts of trap() and sys_sleep() that drive them.  *)
(*                                                                         *)
(* A critical section under ptable.lock is one action.  What the code does *)
(* outside the lock, or across a release, is an action of its own, so that *)
(* the other CPUs and the timer interleave with it.  sched() keeps         *)
(* ptable.lock held through swtch(): ptlock = c with cproc[c] = 0 is the   *)
(* scheduler loop of CPU c, and ptlock = c with cproc[c] # 0 is a process  *)
(* that has just been switched to and has not released the lock yet.       *)
(***************************************************************************)
EXTENDS RTPolicy, FiniteSets

CONSTANTS
  CPUs, BootCPU,   \* the processors; BootCPU is the one with cpuid() = 0
  NoCPU,           \* the value of a lock that is free
  NPROC,           \* size of ptable.proc
  MaxPid,          \* bound: fork() is not called once it would exceed this pid
  Calls,           \* the system calls that the user programs make
  PidArgs,         \* pid arguments of kill() and of the real-time calls
  Deadlines, ExecTimes, Rates, Policies,   \* their other arguments
  SleepTimes,      \* arguments of sleep()
  ElapsedCap       \* elapsed_time saturates here; see SchedRun

AllCalls == {"fork", "exit", "wait", "kill", "sleep", "fault",
             "sched_policy", "deadline", "exec_time", "rate"}

ASSUME CPUAssumption   == BootCPU \in CPUs /\ NoCPU \notin CPUs
ASSUME SizeAssumption  == NPROC \in Nat \ {0} /\ MaxPid \in Nat
ASSUME CallAssumption  == Calls \subseteq AllCalls /\ PidArgs \subseteq Int
ASSUME ParamAssumption ==   \* ints that nobody checks; sleep() compares as uint
  /\ Deadlines \subseteq Int /\ ExecTimes \subseteq Int /\ Rates \subseteq Int
  /\ Policies \subseteq Int /\ SleepTimes \subseteq Nat
ASSUME CapAssumption ==   \* saturation never changes elapsed >= execution
  ElapsedCap \in Nat \ {0} /\ \A e \in ExecTimes : e <= ElapsedCap

Slots     == 1..NPROC
initproc  == 1              \* userinit() takes the first slot
TicksChan == NPROC + 1      \* the channel &ticks; a slot is its own channel

VARIABLES
  state, pid, parent, killed, chan, kstack,           \* struct proc
  sched_policy, deadline, execution_time, elapsed_time, rate, priority,
  nextpid, utf_edf, utf_rm,                           \* globals of proc.c
  ptlock, cproc, cursor,   \* ptable.lock; c->proc; p of scheduler()'s loop
  tickslock, intick,       \* tickslock; BootCPU is between ticks++ and wakeup
  pc, trap, np, left,      \* kernel thread of a slot: see TypeOK
  panicked                 \* the panic() that halted the machine, or "no"

procVars == <<state, pid, parent, killed, chan, kstack>>
rtVars   == <<sched_policy, deadline, execution_time, elapsed_time, rate,
              priority, utf_edf, utf_rm>>
cpuVars  == <<ptlock, cproc, cursor>>
tickVars == <<tickslock, intick>>
locVars  == <<pc, trap, np, left>>
vars     == <<procVars, rtVars, nextpid, cpuVars, tickVars, locVars, panicked>>

States == {"UNUSED", "EMBRYO", "SLEEPING", "RUNNABLE", "RUNNING", "ZOMBIE"}

\* Where the kernel thread of a process is, below any timer trap.
Locs == AllCalls \cup
  {"user",         \* in user space
   "forkret",      \* new, not yet run
   "fork_build",   \* fork(): has an EMBRYO slot, memory not allocated yet
   "fork_pub",     \* fork(): child complete, about to make it RUNNABLE
   "wait_sleep",   \* wait(): inside sleep(curproc, &ptable.lock)
   "sleep_acq",    \* sys_sleep: holds tickslock, sleep() wants ptable.lock
   "sleep_sched",  \* sys_sleep: inside sched() of sleep()
   "sleep_reacq",  \* sys_sleep: sleep() wants tickslock back
   "ret",          \* system call done, trap() about to test killed
   "ret_fail",     \* the same, for a fork() that returns -1
   "init_fail",    \* init.c: in user space, about to exit() as fork() failed
   "zombie"}       \* exit(): inside its sched(), never to return

\* Where a process is in the timer trap that interrupted it.
Traps == {"none", "intr", "check", "yield", "yielded", "end", "exit"}

ProcType ==
  /\ state \in [Slots -> States]
  /\ pid \in [Slots -> Nat] /\ nextpid \in Nat
  /\ parent \in [Slots -> 0..NPROC] /\ chan \in [Slots -> 0..TicksChan]
  /\ killed \in [Slots -> BOOLEAN] /\ kstack \in [Slots -> BOOLEAN]

RTType ==
  /\ sched_policy \in [Slots -> {NONE, EDF, RM}]
  /\ deadline \in [Slots -> Int] /\ execution_time \in [Slots -> Int]
  /\ elapsed_time \in [Slots -> 0..ElapsedCap]
  /\ rate \in [Slots -> Int] /\ priority \in [Slots -> Nat \ {0}]
  /\ utf_edf \in Int /\ utf_edf < 100 /\ utf_rm \in Int /\ utf_rm <= 1000

CPUType ==
  /\ ptlock \in CPUs \cup {NoCPU} /\ tickslock \in CPUs \cup {NoCPU}
  /\ cproc \in [CPUs -> 0..NPROC] /\ cursor \in [CPUs -> 1..NPROC + 1]
  /\ intick \in BOOLEAN

ThreadType ==
  /\ pc \in [Slots -> Locs] /\ trap \in [Slots -> Traps]
  /\ np \in [Slots -> 0..NPROC] /\ left \in [Slots -> Nat]

Panics == {"no", "init exiting", "zombie exit", "kfree", "trap",
           "switchuvm: no kstack"}

\* The variables stay in their types: whatever ints the real-time calls are given,
\* and though the sums of sched_policy() may wrap around, utf_edf stays below one
\* processor and utf_rm at most one; no priority falls below 1; and elapsed_time,
\* the slot indices and the scheduler's cursor stay in range.
TypeOK == ProcType /\ RTType /\ CPUType /\ ThreadType /\ panicked \in Panics

\* main() up to mpmain() on every CPU: userinit() has made the first process.
Init ==
  /\ state  = [p \in Slots |-> IF p = initproc THEN "RUNNABLE" ELSE "UNUSED"]
  /\ pid    = [p \in Slots |-> IF p = initproc THEN 1 ELSE 0]
  /\ kstack = [p \in Slots |-> p = initproc]
  /\ parent = [p \in Slots |-> 0] /\ chan = [p \in Slots |-> 0]
  /\ killed = [p \in Slots |-> FALSE]
  /\ sched_policy = [p \in Slots |-> NONE]
  /\ deadline = [p \in Slots |-> 0] /\ execution_time = [p \in Slots |-> 1]
  /\ elapsed_time = [p \in Slots |-> 0]
  /\ rate = [p \in Slots |-> 0] /\ priority = [p \in Slots |-> 1]
  /\ nextpid = 2 /\ utf_edf = 0 /\ utf_rm = 0
  /\ ptlock = NoCPU /\ cproc = [c \in CPUs |-> 0]
  /\ cursor = [c \in CPUs |-> 1]
  /\ tickslock = NoCPU /\ intick = FALSE
  /\ pc = [p \in Slots |-> "forkret"] /\ trap = [p \in Slots |-> "none"]
  /\ np = [p \in Slots |-> 0] /\ left = [p \in Slots |-> 0]
  /\ panicked = "no"
-----------------------------------------------------------------------------
\* BootCPU runs nothing else while it handles a clock tick.
Live(c) == panicked = "no" /\ ~(intick /\ c = BootCPU)

\* The process on CPU c is at loc, not inside a timer trap.
At(c, loc) == /\ Live(c) /\ cproc[c] # 0
              /\ pc[cproc[c]] = loc /\ trap[cproc[c]] = "none"

\* The process on CPU c is in the timer trap, at phase ph.
InTrap(c, ph) == Live(c) /\ cproc[c] # 0 /\ trap[cproc[c]] = ph

Goto(p, loc) == pc' = [pc EXCEPT ![p] = loc]

\* Mutation: ptable.lock is dropped before swtch().
SwtchToScheduler_Unlocked(c) == ptlock' = NoCPU /\ UNCHANGED <<cproc, cursor>>

\* sched(): swtch to the scheduler of CPU c, which goes on holding the lock
\* and sets c->proc = 0.
SwtchToScheduler(c) == /\ ptlock' = c
                       /\ cproc' = [cproc EXCEPT ![c] = 0]
                       /\ UNCHANGED cursor

\* Mutation: only the first sleeper is woken.
Woken_One(C) ==
  [q \in Slots |->
     IF /\ state[q] = "SLEEPING" /\ chan[q] \in C
        /\ \A r \in Slots : state[r] = "SLEEPING" /\ chan[r] \in C => q <= r
     THEN "RUNNABLE" ELSE state[q]]

\* wakeup1(): the process table after waking the sleepers of the channels C.
Woken(C) == [q \in Slots |-> IF state[q] = "SLEEPING" /\ chan[q] \in C
                             THEN "RUNNABLE" ELSE state[q]]

\* The slots that "for(p = ptable.proc; ...) if(p->pid == k)" stops at.
FirstWithPid(k) == {t \in Slots : /\ pid[t] = k
                                  /\ \A q \in Slots : pid[q] = k => t <= q}
-----------------------------------------------------------------------------
(* scheduler() *)

Runnable == {p \in Slots : state[p] = "RUNNABLE"}
Ahead(c) == {p \in Runnable : p >= cursor[c]}

\* Mutation: the loop starts over after every switch.
NextSlot_Restart(highP) == 1

\* "p = highP; ...; p++": the loop goes on behind the process that ran.
NextSlot(highP) == highP + 1

\* One iteration of an inner loop of scheduler(): p1 replaces highP if it is
\* RUNNABLE and better.
Keep(key, highP, p1) ==
  IF /\ state[p1] = "RUNNABLE"
     /\ Better(key[p1], pid[p1], key[highP], pid[highP])
  THEN p1 ELSE highP

\* The whole loop: p1 walks over the table, and highP, which starts as p, is
\* what it holds after the slots 1..i.
Scan(p, key) ==
  LET highP[i \in 0..NPROC] == IF i = 0 THEN p ELSE Keep(key, highP[i - 1], i)
  IN  highP[NPROC]

\* Mutation: the policy of the process is ignored.
Picks_RoundRobin(p) == p

\* The outer loop stops at p; the policy of p decides how the table is scanned.
Picks(p) == CASE sched_policy[p] = EDF -> Scan(p, deadline)
              [] sched_policy[p] = RM -> Scan(p, priority)
              [] OTHER -> p

SchedAcquire(c) ==
  /\ Live(c) /\ cproc[c] = 0 /\ ptlock = NoCPU
  /\ ptlock' = c /\ cursor' = [cursor EXCEPT ![c] = 1]
  /\ UNCHANGED <<procVars, rtVars, nextpid, cproc, tickVars, locVars, panicked>>

\* elapsed_time only meets execution_time in trap()'s "elapsed >= execution",
\* so it saturates at ElapsedCap instead of growing without bound.
\* The next process resumes where its thread stopped; one that stopped inside
\* exit() panics, as does one whose kernel stack was freed.
SchedRun(c) ==
  /\ Live(c) /\ cproc[c] = 0 /\ ptlock = c
  /\ \E p \in Ahead(c), highP \in Runnable :
       /\ \A q \in Ahead(c) : p <= q
       /\ highP = Picks(p)
       /\ elapsed_time' =
            IF sched_policy[p] = NONE \/ elapsed_time[highP] = ElapsedCap
            THEN elapsed_time
            ELSE [elapsed_time EXCEPT ![highP] = @ + 1]
       /\ cproc' = [cproc EXCEPT ![c] = highP]
       /\ cursor' = [cursor EXCEPT ![c] = NextSlot(highP)]
       /\ state' = [state EXCEPT ![highP] = "RUNNING"]
       /\ panicked' = IF ~kstack[highP] THEN "switchuvm: no kstack"
                      ELSE IF pc[highP] = "zombie" THEN "zombie exit" ELSE "no"
  /\ UNCHANGED <<pid, parent, killed, chan, kstack, sched_policy, deadline,
                 execution_time, rate, priority, utf_edf, utf_rm, nextpid,
                 ptlock, tickVars, locVars>>

SchedRelease(c) ==
  /\ Live(c) /\ cproc[c] = 0 /\ ptlock = c /\ Ahead(c) = {}
  /\ ptlock' = NoCPU /\ cursor' = [cursor EXCEPT ![c] = 1]
  /\ UNCHANGED <<procVars, rtVars, nextpid, cproc, tickVars, locVars, panicked>>
-----------------------------------------------------------------------------
(* trap(): system calls *)

\* init.c forks and waits, until a fork() fails: see Ret.  Any other program
\* makes any of the Calls.
UserCalls(p) == IF p = initproc THEN Calls \cap {"fork", "wait"} ELSE Calls

\* Bound: every fork() that is entered still finds a pid up to MaxPid.
ForkBound ==
  nextpid + Cardinality({p \in Slots : pc[p] = "fork"}) <= MaxPid

\* trap() for T_SYSCALL, up to the call of syscall().
Enter(c) ==
  /\ At(c, "user")
  /\ \E call \in UserCalls(cproc[c]) \ {"fault"} :
       /\ call = "fork" => ForkBound
       /\ Goto(cproc[c], IF killed[cproc[c]] THEN "exit" ELSE call)
  /\ UNCHANGED <<procVars, rtVars, nextpid, cpuVars, tickVars, trap, np, left,
                 panicked>>

\* trap(), default case: a fault in user space marks the process killed and
\* makes it exit.
Fault(c) ==
  /\ At(c, "user") /\ "fault" \in UserCalls(cproc[c])
  /\ killed' = [killed EXCEPT ![cproc[c]] = TRUE]
  /\ Goto(cproc[c], "exit")
  /\ trap' = [trap EXCEPT ![cproc[c]] = "exit"]
  /\ UNCHANGED <<state, pid, parent, chan, kstack, rtVars, nextpid, cpuVars,
                 tickVars, np, left, panicked>>

\* "if(pid < 0) ... exit()" of init.c; other programs make of it what they like.
AfterFork(p) == IF p = initproc THEN "init_fail" ELSE "user"

\* trap() after syscall(): back to user space, with the result of the call.
Ret(c) ==
  /\ At(c, "ret") \/ At(c, "ret_fail")
  /\ LET p == cproc[c] IN
     Goto(p, IF killed[p] THEN "exit"
             ELSE IF pc[p] = "ret" THEN "user" ELSE AfterFork(p))
  /\ UNCHANGED <<procVars, rtVars, nextpid, cpuVars, tickVars, trap, np, left,
                 panicked>>
-----------------------------------------------------------------------------
(* fork() *)

\* allocproc() under ptable.lock: the first UNUSED slot, or failure.
ForkAlloc(c) ==
  /\ At(c, "fork") /\ ptlock = NoCPU
  /\ \/ /\ \A q \in Slots : state[q] # "UNUSED"
        /\ Goto(cproc[c], "ret_fail")
        /\ UNCHANGED <<procVars, rtVars, nextpid, trap, np>>
     \/ \E q \in Slots :
          /\ state[q] = "UNUSED"
          /\ \A r \in Slots : state[r] = "UNUSED" => q <= r
          /\ state' = [state EXCEPT ![q] = "EMBRYO"]
          /\ pid' = [pid EXCEPT ![q] = nextpid] /\ nextpid' = nextpid + 1
          /\ priority' = [priority EXCEPT ![q] = 1]
          /\ deadline' = [deadline EXCEPT ![q] = 0]
          /\ sched_policy' = [sched_policy EXCEPT ![q] = NONE]
          /\ execution_time' = [execution_time EXCEPT ![q] = 1]
          /\ elapsed_time' = [elapsed_time EXCEPT ![q] = 0]
          /\ pc' = [pc EXCEPT ![cproc[c]] = "fork_build", ![q] = "forkret"]
          /\ trap' = [trap EXCEPT ![q] = "none"]
          /\ np' = [np EXCEPT ![cproc[c]] = q]
          /\ UNCHANGED <<parent, killed, chan, kstack, rate, utf_edf, utf_rm>>
  /\ UNCHANGED <<cpuVars, tickVars, left, panicked>>

\* The rest of allocproc() and of fork() before its last acquire: kalloc() or
\* copyuvm() fails and the slot is given back without the lock, its pid left
\* in it; or the child is complete.
ForkBuild(c) ==
  /\ At(c, "fork_build")
  /\ LET q == np[cproc[c]] IN
     \/ /\ state' = [state EXCEPT ![q] = "UNUSED"]
        /\ kstack' = [kstack EXCEPT ![q] = FALSE]
        /\ Goto(cproc[c], "ret_fail")
        /\ np' = [np EXCEPT ![cproc[c]] = 0]
        /\ UNCHANGED parent
     \/ /\ kstack' = [kstack EXCEPT ![q] = TRUE]
        /\ parent' = [parent EXCEPT ![q] = cproc[c]]
        /\ Goto(cproc[c], "fork_pub")
        /\ UNCHANGED <<state, np>>
  /\ UNCHANGED <<pid, killed, chan, rtVars, nextpid, cpuVars, tickVars, trap,
                 left, panicked>>

ForkPublish(c) ==
  /\ At(c, "fork_pub") /\ ptlock = NoCPU
  /\ state' = [state EXCEPT ![np[cproc[c]]] = "RUNNABLE"]
  /\ np' = [np EXCEPT ![cproc[c]] = 0]
  /\ Goto(cproc[c], "ret")
  /\ UNCHANGED <<pid, parent, killed, chan, kstack, rtVars, nextpid, cpuVars,
                 tickVars, trap, left, panicked>>

\* forkret(): the child releases the lock that scheduler() took.
Forkret(c) ==
  /\ At(c, "forkret") /\ ptlock = c
  /\ ptlock' = NoCPU
  /\ Goto(cproc[c], "user")
  /\ UNCHANGED <<procVars, rtVars, nextpid, cproc, cursor, tickVars, trap, np,
                 left, panicked>>
-----------------------------------------------------------------------------
(* exit() and wait() *)

\* Mutation: a child that is a ZOMBIE already is passed over.
Kids_NotZombie(p) == {q \in Slots : parent[q] = p /\ state[q] # "ZOMBIE"}

\* "p->parent == curproc"
Kids(p) == {q \in Slots : parent[q] = p}

\* Mutations: a child inside exit() counts as a ZOMBIE; the loop over the
\* table stops one slot early.
Zombies_Exiting(p) == {q \in Kids(p) : state[q] = "ZOMBIE" \/ pc[q] = "exit"}
Zombies_OffByOne(p) == {q \in Kids(p) : state[q] = "ZOMBIE" /\ q < NPROC}

Zombies(p) == {q \in Kids(p) : state[q] = "ZOMBIE"}

\* exit(), from its acquire of ptable.lock to sched(): the parent is woken
\* before the caller becomes a ZOMBIE, its children go to initproc, which is
\* woken if one of them is a ZOMBIE already.
Exit(c) ==
  /\ Live(c) /\ cproc[c] # 0 /\ pc[cproc[c]] = "exit"
  /\ trap[cproc[c]] \in {"none", "exit"}
  /\ cproc[c] # initproc /\ ptlock = NoCPU
  /\ LET p == cproc[c]
         wake == {parent[p]} \cup IF Zombies(p) = {} THEN {} ELSE {initproc}
     IN  /\ state' = [Woken(wake) EXCEPT ![p] = "ZOMBIE"]
         /\ parent' = [q \in Slots |-> IF q \in Kids(p) THEN initproc
                                       ELSE parent[q]]
         /\ Goto(p, "zombie")
         /\ trap' = [trap EXCEPT ![p] = "none"]
  /\ SwtchToScheduler(c)
  /\ UNCHANGED <<pid, killed, chan, kstack, rtVars, nextpid, tickVars, np, left,
                 panicked>>

\* exit() of init: killed, or called by init.c itself.
ExitInit(c) ==
  /\ Live(c) /\ cproc[c] = initproc /\ pc[initproc] \in {"exit", "init_fail"}
  /\ trap[initproc] \in {"none", "exit"}
  /\ panicked' = "init exiting"
  /\ UNCHANGED <<procVars, rtVars, nextpid, cpuVars, tickVars, locVars>>

\* wait() with ptable.lock held, on entry or back from sleep(): one pass of
\* its for(;;) loop.
InWait(c) == \/ At(c, "wait") /\ ptlock = NoCPU
             \/ At(c, "wait_sleep") /\ ptlock = c

\* kfree() panics on a stack that is not there.
WaitReap(c) ==
  /\ InWait(c)
  /\ \E q \in Zombies(cproc[c]) :
       /\ \A r \in Zombies(cproc[c]) : q <= r
       /\ state' = [state EXCEPT ![q] = "UNUSED"]
       /\ kstack' = [kstack EXCEPT ![q] = FALSE]
       /\ pid' = [pid EXCEPT ![q] = 0]
       /\ parent' = [parent EXCEPT ![q] = 0]
       /\ killed' = [killed EXCEPT ![q] = FALSE]
       /\ panicked' = IF kstack[q] THEN "no" ELSE "kfree"
  /\ chan' = [chan EXCEPT ![cproc[c]] = 0]
  /\ Goto(cproc[c], "ret")
  /\ ptlock' = NoCPU
  /\ UNCHANGED <<rtVars, nextpid, cproc, cursor, tickVars, trap, np, left>>

WaitFail(c) ==
  /\ InWait(c) /\ Zombies(cproc[c]) = {}
  /\ Kids(cproc[c]) = {} \/ killed[cproc[c]]
  /\ chan' = [chan EXCEPT ![cproc[c]] = 0]
  /\ Goto(cproc[c], "ret")
  /\ ptlock' = NoCPU
  /\ UNCHANGED <<state, pid, parent, killed, kstack, rtVars, nextpid, cproc,
                 cursor, tickVars, trap, np, left, panicked>>

WaitSleep(c) ==
  /\ InWait(c) /\ Zombies(cproc[c]) = {}
  /\ Kids(cproc[c]) # {} /\ ~killed[cproc[c]]
  /\ chan' = [chan EXCEPT ![cproc[c]] = cproc[c]]
  /\ state' = [state EXCEPT ![cproc[c]] = "SLEEPING"]
  /\ Goto(cproc[c], "wait_sleep")
  /\ SwtchToScheduler(c)
  /\ UNCHANGED <<pid, parent, killed, kstack, rtVars, nextpid, tickVars, trap,
                 np, left, panicked>>
-----------------------------------------------------------------------------
(* kill() *)

\* Mutations: any process is made RUNNABLE; a sleeping one is left asleep.
KillWakes_Any(q) == state[q] # "UNUSED"
KillWakes_Never(q) == FALSE

\* "Wake process from sleep if necessary."
KillWakes(q) == state[q] = "SLEEPING"

Kill(c) ==
  /\ At(c, "kill") /\ ptlock = NoCPU
  /\ \E k \in PidArgs :
       LET T == FirstWithPid(k) IN
       /\ killed' = [q \in Slots |-> killed[q] \/ q \in T]
       /\ state' = [q \in Slots |-> IF q \in T /\ KillWakes(q)
                                    THEN "RUNNABLE" ELSE state[q]]
  /\ Goto(cproc[c], "ret")
  /\ UNCHANGED <<pid, parent, chan, kstack, rtVars, nextpid, cpuVars, tickVars,
                 trap, np, left, panicked>>
-----------------------------------------------------------------------------
(* sys_sleep(), sleep(&ticks, &tickslock) and the clock *)

\* Mutation: tickslock is released before sleep().
HoldTickslock_Dropped(c) == tickslock' = NoCPU

\* The lock that sys_sleep holds from its test to sleep().
HoldTickslock(c) == tickslock' = c

\* sys_sleep holding tickslock: the test of its while loop, on entry and each
\* time sleep() comes back.  left[p] is n - (ticks - ticks0), floored at 0.
SleepTest(c) ==
  /\ At(c, "sleep") \/ At(c, "sleep_reacq")
  /\ tickslock = NoCPU
  /\ left' \in IF At(c, "sleep")
               THEN {[left EXCEPT ![cproc[c]] = n] : n \in SleepTimes}
               ELSE {left}
  /\ IF left'[cproc[c]] = 0 \/ killed[cproc[c]]
     THEN Goto(cproc[c], "ret") /\ UNCHANGED tickslock
     ELSE Goto(cproc[c], "sleep_acq") /\ HoldTickslock(c)
  /\ UNCHANGED <<procVars, rtVars, nextpid, cpuVars, intick, trap, np, panicked>>

\* sleep(): acquires ptable.lock, then releases tickslock, then sleeps.
SleepSched(c) ==
  /\ At(c, "sleep_acq") /\ ptlock = NoCPU
  /\ tickslock' = NoCPU
  /\ chan' = [chan EXCEPT ![cproc[c]] = TicksChan]
  /\ state' = [state EXCEPT ![cproc[c]] = "SLEEPING"]
  /\ Goto(cproc[c], "sleep_sched")
  /\ SwtchToScheduler(c)
  /\ UNCHANGED <<pid, parent, killed, kstack, rtVars, nextpid, intick, trap, np,
                 left, panicked>>

SleepResume(c) ==
  /\ At(c, "sleep_sched") /\ ptlock = c
  /\ chan' = [chan EXCEPT ![cproc[c]] = 0]
  /\ ptlock' = NoCPU
  /\ Goto(cproc[c], "sleep_reacq")
  /\ UNCHANGED <<state, pid, parent, killed, kstack, rtVars, nextpid, cproc,
                 cursor, tickVars, trap, np, left, panicked>>

\* Interrupts are on: the CPU holds no spinlock and is not in a trap.
Interruptible(c) ==
  /\ Live(c) /\ ptlock # c /\ tickslock # c
  /\ cproc[c] # 0 => trap[cproc[c]] = "none"

\* trap() for the timer on BootCPU: acquire(&tickslock); ticks++.
TickBegin ==
  /\ Interruptible(BootCPU) /\ tickslock = NoCPU
  /\ tickslock' = BootCPU /\ intick' = TRUE
  /\ left' = [p \in Slots |-> IF left[p] = 0 THEN 0 ELSE left[p] - 1]
  /\ UNCHANGED <<procVars, rtVars, nextpid, cpuVars, pc, trap, np, panicked>>

\* ... wakeup(&ticks); release(&tickslock).
TickWakeup ==
  /\ intick /\ panicked = "no" /\ ptlock = NoCPU
  /\ state' = Woken({TicksChan})
  /\ tickslock' = NoCPU /\ intick' = FALSE
  /\ trap' = [p \in Slots |-> IF p = cproc[BootCPU] THEN "intr" ELSE trap[p]]
  /\ UNCHANGED <<pid, parent, killed, chan, kstack, rtVars, nextpid, cpuVars, pc,
                 np, left, panicked>>

\* On the other CPUs the timer only preempts.
TimerIntr(c) ==
  /\ c # BootCPU /\ Interruptible(c) /\ cproc[c] # 0
  /\ trap' = [trap EXCEPT ![cproc[c]] = "intr"]
  /\ UNCHANGED <<procVars, rtVars, nextpid, cpuVars, tickVars, pc, np, left,
                 panicked>>
-----------------------------------------------------------------------------
(* trap() for the timer, after the clock *)

\* exit() from a trap runs with interrupts off.
ExitFromTrap(p) == /\ Goto(p, "exit")
                   /\ trap' = [trap EXCEPT ![p] = "exit"]

\* Mutation: the test for user space is forgotten.
KilledInUser_Anywhere(p) == killed[p]

\* "myproc()->killed && (tf->cs&3) == DPL_USER"
KilledInUser(p) == killed[p] /\ pc[p] \in {"user", "init_fail"}

\* "Force process exit if it has been killed and is in user space."
TrapKilled(c) ==
  /\ InTrap(c, "intr")
  /\ LET p == cproc[c] IN
     IF KilledInUser(p)
     THEN ExitFromTrap(p)
     ELSE trap' = [trap EXCEPT ![p] = "check"] /\ UNCHANGED pc
  /\ UNCHANGED <<procVars, rtVars, nextpid, cpuVars, tickVars, np, left, panicked>>

\* "elapsed_time >= execution_time"
BudgetUsed(p) == elapsed_time[p] >= execution_time[p]

\* A real-time process whose elapsed_time has reached its execution_time
\* exits, in user space or in the middle of a system call; any other RUNNING
\* process yields.  state is read without ptable.lock.
TrapCheck(c) ==
  /\ InTrap(c, "check")
  /\ LET p == cproc[c] IN
     IF /\ state[p] = "RUNNING"
        /\ sched_policy[p] >= 0 /\ BudgetUsed(p)
     THEN ExitFromTrap(p)
     ELSE /\ trap' = [trap EXCEPT ![p] = IF state[p] = "RUNNING"
                                         THEN "yield" ELSE "end"]
          /\ UNCHANGED pc
  /\ UNCHANGED <<procVars, rtVars, nextpid, cpuVars, tickVars, np, left, panicked>>

\* yield(), to its sched() ...
Yield(c) ==
  /\ InTrap(c, "yield") /\ ptlock = NoCPU
  /\ state' = [state EXCEPT ![cproc[c]] = "RUNNABLE"]
  /\ trap' = [trap EXCEPT ![cproc[c]] = "yielded"]
  /\ SwtchToScheduler(c)
  /\ UNCHANGED <<pid, parent, killed, chan, kstack, rtVars, nextpid, tickVars, pc,
                 np, left, panicked>>

\* ... and from there.
YieldResume(c) ==
  /\ InTrap(c, "yielded") /\ ptlock = c
  /\ ptlock' = NoCPU
  /\ trap' = [trap EXCEPT ![cproc[c]] = "end"]
  /\ UNCHANGED <<procVars, rtVars, nextpid, cproc, cursor, tickVars, pc, np, left,
                 panicked>>

\* "Check if the process has been killed since we yielded"
TrapEnd(c) ==
  /\ InTrap(c, "end")
  /\ LET p == cproc[c] IN
     IF KilledInUser(p)
     THEN ExitFromTrap(p)
     ELSE trap' = [trap EXCEPT ![p] = "none"] /\ UNCHANGED pc
  /\ UNCHANGED <<procVars, rtVars, nextpid, cpuVars, tickVars, np, left, panicked>>
-----------------------------------------------------------------------------
(* The real-time system calls *)

\* sched_policy() refuses: the target is marked killed and turned into a
\* ZOMBIE, whatever it is doing.
Refuse(t) == /\ killed' = [killed EXCEPT ![t] = TRUE]
             /\ state' = [state EXCEPT ![t] = "ZOMBIE"]
             /\ UNCHANGED <<sched_policy, utf_edf, utf_rm, panicked>>

\* A divide error in the kernel is a panic.
SetEDF(t) ==
  IF DivideError(execution_time[t], deadline[t])
  THEN /\ panicked' = "trap"
       /\ UNCHANGED <<killed, state, sched_policy, utf_edf, utf_rm>>
  ELSE IF AdmitsEDF(utf_edf, execution_time[t], deadline[t])
  THEN /\ utf_edf' = Wrap(utf_edf + UtilEDF(execution_time[t], deadline[t]))
       /\ sched_policy' = [sched_policy EXCEPT ![t] = EDF]
       /\ UNCHANGED <<killed, state, utf_rm, panicked>>
  ELSE Refuse(t)

SetRM(t) ==
  IF AdmitsRM(utf_rm, execution_time[t], rate[t], pid[t])
  THEN /\ utf_rm' = Wrap(utf_rm + UtilRM(execution_time[t], rate[t]))
       /\ sched_policy' = [sched_policy EXCEPT ![t] = RM]
       /\ UNCHANGED <<killed, state, utf_edf, panicked>>
  ELSE Refuse(t)

SchedPolicy(c) ==
  /\ At(c, "sched_policy") /\ ptlock = NoCPU
  /\ \E k \in PidArgs, policy \in Policies :
       \/ /\ FirstWithPid(k) = {} \/ policy \notin {EDF, RM}
          /\ UNCHANGED <<killed, state, sched_policy, utf_edf, utf_rm, panicked>>
       \/ /\ policy = EDF
          /\ \E t \in FirstWithPid(k) : SetEDF(t)
       \/ /\ policy = RM
          /\ \E t \in FirstWithPid(k) : SetRM(t)
  /\ Goto(cproc[c], "ret")
  /\ UNCHANGED <<pid, parent, chan, kstack, deadline, execution_time,
                 elapsed_time, rate, priority, nextpid, cpuVars, tickVars, trap,
                 np, left>>

Deadline(c) ==
  /\ At(c, "deadline") /\ ptlock = NoCPU
  /\ \E k \in PidArgs, d \in Deadlines :
       deadline' = [t \in Slots |-> IF t \in FirstWithPid(k) THEN d
                                    ELSE deadline[t]]
  /\ Goto(cproc[c], "ret")
  /\ UNCHANGED <<procVars, sched_policy, execution_time, elapsed_time, rate,
                 priority, utf_edf, utf_rm, nextpid, cpuVars, tickVars, trap, np,
                 left, panicked>>

ExecTime(c) ==
  /\ At(c, "exec_time") /\ ptlock = NoCPU
  /\ \E k \in PidArgs, e \in ExecTimes :
       execution_time' = [t \in Slots |-> IF t \in FirstWithPid(k) THEN e
                                          ELSE execution_time[t]]
  /\ Goto(cproc[c], "ret")
  /\ UNCHANGED <<procVars, sched_policy, deadline, elapsed_time, rate, priority,
                 utf_edf, utf_rm, nextpid, cpuVars, tickVars, trap, np, left,
                 panicked>>

Rate(c) ==
  /\ At(c, "rate") /\ ptlock = NoCPU
  /\ \E k \in PidArgs, r \in Rates :
       LET T == FirstWithPid(k) IN
       /\ rate' = [t \in Slots |-> IF t \in T THEN r ELSE rate[t]]
       /\ priority' = [t \in Slots |-> IF t \in T THEN PriorityOf(r)
                                       ELSE priority[t]]
  /\ Goto(cproc[c], "ret")
  /\ UNCHANGED <<procVars, sched_policy, deadline, execution_time, elapsed_time,
                 utf_edf, utf_rm, nextpid, cpuVars, tickVars, trap, np, left,
                 panicked>>
-----------------------------------------------------------------------------
\* panic() freezes every CPU.
Halt == panicked # "no" /\ UNCHANGED vars

Next ==
  \/ \E c \in CPUs :
       \/ SchedAcquire(c) \/ SchedRun(c) \/ SchedRelease(c)
       \/ Enter(c) \/ Fault(c) \/ Ret(c)
       \/ ForkAlloc(c) \/ ForkBuild(c) \/ ForkPublish(c) \/ Forkret(c)
       \/ Exit(c) \/ ExitInit(c)
       \/ WaitReap(c) \/ WaitFail(c) \/ WaitSleep(c)
       \/ Kill(c)
       \/ SleepTest(c) \/ SleepSched(c) \/ SleepResume(c)
       \/ TimerIntr(c)
       \/ TrapKilled(c) \/ TrapCheck(c) \/ Yield(c) \/ YieldResume(c)
       \/ TrapEnd(c)
       \/ SchedPolicy(c) \/ Deadline(c) \/ ExecTime(c) \/ Rate(c)
  \/ TickBegin \/ TickWakeup
  \/ Halt

Spec == Init /\ [][Next]_vars
-----------------------------------------------------------------------------
(* Safety *)

\* A process is RUNNING exactly while one CPU has it as c->proc, and never two
\* CPUs: ptable.lock is handed from sched() to scheduler() and back across
\* swtch(), so no CPU sees a RUNNABLE process whose stack is still in use.
ExactlyOneCPU ==
  /\ \A p \in Slots : state[p] = "RUNNING" <=> \E c \in CPUs : cproc[c] = p
  /\ \A c, d \in CPUs : cproc[c] = cproc[d] /\ cproc[c] # 0 => c = d

\* wait() never frees the kernel stack of a process that a CPU is still
\* executing, although exit() runs on that stack until its last swtch().
StackInUse ==
  \A c \in CPUs : cproc[c] # 0 => /\ kstack[cproc[c]]
                                  /\ state[cproc[c]] \notin {"UNUSED", "EMBRYO"}

\* No lost wakeup in wait(): a parent asleep there has a child to wait for,
\* none that is a ZOMBIE and has left its CPU, and has not been killed.
WaiterNotStranded ==
  \A p \in Slots : state[p] = "SLEEPING" /\ pc[p] = "wait_sleep" =>
     /\ \E q \in Slots : parent[q] = p
     /\ \A q \in Slots : parent[q] = p /\ state[q] = "ZOMBIE" =>
                           \E c \in CPUs : cproc[c] = q
     /\ ~killed[p]

\* No lost wakeup in sys_sleep(): a process asleep there whose ticks have all
\* elapsed is about to be woken by the tick in progress.
SleeperNotStranded ==
  \A p \in Slots : state[p] = "SLEEPING" /\ pc[p] = "sleep_sched" =>
     left[p] > 0 \/ intick

\* exit() leaves no orphan: the parent of a process other than init is itself a
\* process that can still call wait().
ParentsAlive ==
  \A p \in Slots \ {initproc} :
     state[p] \in {"RUNNABLE", "SLEEPING", "RUNNING", "ZOMBIE"} =>
        /\ parent[p] # 0 /\ parent[p] # p
        /\ state[parent[p]] \in {"RUNNABLE", "SLEEPING", "RUNNING"}

\* No slot is lost to a fork() that does not finish: an EMBRYO belongs to
\* exactly one process, which is still inside fork().
EmbryoOwned ==
  \A q \in Slots : state[q] = "EMBRYO" =>
     \E p \in Slots : /\ state[p] \in {"RUNNABLE", "RUNNING"}
                      /\ pc[p] \in {"fork_build", "fork_pub"} /\ np[p] = q
                      /\ \A r \in Slots \ {p} : np[r] # q

\* Two processes in the table never share a pid, nor have pid 0.
PidsDistinct ==
  \A p, q \in Slots : state[p] # "UNUSED" /\ state[q] # "UNUSED" =>
     pid[p] # 0 /\ (pid[p] = pid[q] => p = q)

\* No panic() is reached but the one of exit() for init, and that only if init
\* was killed or init.c exits because its own fork() has failed.
OnlyInitPanics ==
  panicked # "no" => /\ panicked = "init exiting"
                     /\ killed[initproc] \/ pc[initproc] = "init_fail"

\* switchuvm()'s assertion: scheduler() never switches to a process whose
\* kernel stack wait() has freed.
NoStacklessDispatch == panicked # "switchuvm: no kstack"

\* What one step may do to p->state.  In particular a ZOMBIE stays one until
\* wait() frees it, and only a RUNNING process goes to sleep or exits.
Lifecycle(old, new) ==
  <<old, new>> \in {<<"UNUSED", "EMBRYO">>, <<"EMBRYO", "UNUSED">>,
                   <<"EMBRYO", "RUNNABLE">>, <<"RUNNABLE", "RUNNING">>,
                   <<"RUNNING", "RUNNABLE">>, <<"RUNNING", "SLEEPING">>,
                   <<"RUNNING", "ZOMBIE">>, <<"SLEEPING", "RUNNABLE">>,
                   <<"ZOMBIE", "UNUSED">>}
StateChanges ==
  [][\A p \in Slots : state'[p] # state[p] => Lifecycle(state[p], state'[p])]_vars

\* scheduler() gives the CPU to an EDF (RM) process only if no process of that
\* policy with an earlier deadline (smaller priority number), or the same and a
\* smaller pid, is RUNNABLE anywhere in the table, wherever the loop stopped, as
\* long as no process of the other policy is RUNNABLE.
InOrder(q, policy, key) ==
  \A r \in Slots : state[r] = "RUNNABLE" /\ sched_policy[r] = policy =>
     ~Before(key[r], pid[r], key[q], pid[q])
NoneRunnable(policy) ==
  \A r \in Slots : ~(state[r] = "RUNNABLE" /\ sched_policy[r] = policy)
DispatchOrder ==
  [][\A c \in CPUs, q \in Slots : cproc[c] = 0 /\ cproc'[c] = q =>
       /\ sched_policy[q] = EDF /\ NoneRunnable(RM) => InOrder(q, EDF, deadline)
       /\ sched_policy[q] = RM /\ NoneRunnable(EDF) => InOrder(q, RM, priority)
    ]_vars
-----------------------------------------------------------------------------
(* The inductive invariant *)

\* sched_policy() refuses a process, which is not a ZOMBIE yet, in this step.
Refusal == \E c \in CPUs, t \in Slots :
             /\ At(c, "sched_policy") /\ Goto(cproc[c], "ret")
             /\ state[t] # "ZOMBIE" /\ Refuse(t)

\* The behaviours in which no real-time request is refused.
GrantedSpec == Init /\ [][Next /\ ~Refusal]_vars

\* Where the thread of a process stands, given its state.
ThreadInv ==
  \A p \in Slots :
     /\ state[p] = "UNUSED" => pc[p] \in {"zombie", "forkret"} /\ parent[p] = 0
     /\ state[p] = "EMBRYO" => pc[p] = "forkret"
     /\ state[p] = "ZOMBIE" => pc[p] = "zombie"
     /\ state[p] \in {"RUNNABLE", "RUNNING"} => pc[p] # "zombie"
     /\ state[p] = "SLEEPING" => \/ pc[p] = "wait_sleep" /\ chan[p] = p
                                 \/ pc[p] = "sleep_sched" /\ chan[p] = TicksChan

\* A process has a kernel stack from before it is published until it is reaped.
StackInv ==
  \A p \in Slots : state[p] \notin {"UNUSED", "EMBRYO"} => kstack[p]

\* A process inside fork() owns its EMBRYO, alone.
ForkInv ==
  \A p \in Slots : pc[p] \in {"fork_build", "fork_pub"} =>
     /\ np[p] # 0 /\ state[np[p]] = "EMBRYO"
     /\ pc[p] = "fork_build" => parent[np[p]] = 0
     /\ pc[p] = "fork_pub" => kstack[np[p]] /\ parent[np[p]] = p
     /\ \A r \in Slots : pc[r] \in {"fork_build", "fork_pub"} /\ np[r] = np[p]
                          => r = p

\* ParentsAlive, and init never ends.
ParentInv == /\ state[initproc] \in {"RUNNABLE", "SLEEPING", "RUNNING"}
             /\ ParentsAlive

\* A parent asleep in wait() has a child, no ZOMBIE, and is not killed.
WaitInv ==
  \A p \in Slots : state[p] = "SLEEPING" /\ pc[p] = "wait_sleep" =>
     /\ \E q \in Slots : parent[q] = p
     /\ \A q \in Slots : parent[q] = p => state[q] # "ZOMBIE"
     /\ ~killed[p]

\* tickslock covers the test of sys_sleep up to its sleep(), and a clock tick.
TickInv ==
  /\ intick => tickslock = BootCPU
  /\ \A p \in Slots : pc[p] = "sleep_acq" =>
       /\ ~intick /\ left[p] > 0 /\ trap[p] = "none"
       /\ tickslock \in CPUs /\ cproc[tickslock] = p
  /\ SleeperNotStranded

\* Pids are given out once.
PidInv == PidsDistinct /\ nextpid > 0 /\ \A p \in Slots : pid[p] < nextpid

\* No panic about a kernel stack or a dead thread.
PanicInv == panicked \notin {"switchuvm: no kstack", "zombie exit", "kfree"}

\* The conjunction that every step without a refusal preserves: it makes the
\* invariants of this module hold together, for any number of CPUs and slots.
ProcInv ==
  /\ TypeOK /\ ExactlyOneCPU /\ ThreadInv /\ StackInv /\ ForkInv /\ ParentInv
  /\ WaitInv /\ TickInv /\ PidInv /\ PanicInv
-----------------------------------------------------------------------------
(* Liveness *)

\* Steps of the kernel on behalf of the process on CPU c, as opposed to steps of
\* its user program, that a timer interrupt may come in before.
CallStep(c) ==
  \/ Ret(c) \/ ForkAlloc(c) \/ ForkBuild(c) \/ ForkPublish(c)
  \/ Exit(c) \/ ExitInit(c) \/ WaitReap(c) \/ WaitFail(c) \/ WaitSleep(c)
  \/ Kill(c) \/ SleepTest(c)
  \/ SchedPolicy(c) \/ Deadline(c) \/ ExecTime(c) \/ Rate(c)

\* Steps that CPU c takes with interrupts off.
CLIStep(c) ==
  \/ SchedRun(c) \/ SchedRelease(c) \/ Forkret(c) \/ SleepSched(c)
  \/ SleepResume(c) \/ WaitReap(c) \/ WaitFail(c) \/ WaitSleep(c)
  \/ TrapKilled(c) \/ TrapCheck(c) \/ Yield(c) \/ YieldResume(c) \/ TrapEnd(c)
  \/ c = BootCPU /\ TickWakeup

\* A CPU with interrupts off goes on.  A tick is long compared with the steps
\* of the kernel, so scheduler(), and a process that is on a CPU again and
\* again, is not forever interrupted just before the same step; a timer
\* interrupt stays pending in the APIC until interrupts are on; and init,
\* which has nothing else to do, calls wait().
Fairness ==
  /\ \A c \in CPUs : WF_vars(CLIStep(c)) /\ SF_vars(SchedAcquire(c))
  /\ \A p \in Slots : SF_vars(\E c \in CPUs : cproc[c] = p /\ CallStep(c))
  /\ SF_vars(TickBegin)
  /\ SF_vars(\E c \in CPUs : /\ cproc[c] = initproc /\ Enter(c)
                            /\ pc'[initproc] = "wait")

FairSpec == Spec /\ Fairness

\* The machine has stopped: as OnlyInitPanics says, because init was killed or
\* could not fork.
Stopped == panicked # "no"

\* kill() works: the process stops existing, whatever it was doing.
KilledDies ==
  \A p \in Slots \ {initproc} :
     killed[p] /\ state[p] # "UNUSED" ~> state[p] \in {"ZOMBIE", "UNUSED"} \/ Stopped

\* init reaps: a ZOMBIE that was inherited by init is freed, unless the machine
\* stops because a fork() of init failed.
OrphansReaped ==
  \A p \in Slots \ {initproc} :
     state[p] = "ZOMBIE" /\ parent[p] = initproc ~> state[p] = "UNUSED" \/ Stopped

\* sleep() comes back.
SleepReturns ==
  \A p \in Slots \ {initproc} :
     pc[p] = "sleep_acq" ~> pc[p] \in {"ret", "exit"} \/ Stopped

\* scheduler() starves nobody.
NoStarvation ==
  \A p \in Slots : state[p] = "RUNNABLE" ~> state[p] # "RUNNABLE" \/ Stopped

\* scheduler() lets every EDF process that is RUNNABLE run, so that it gets to
\* the end of its execution_time.
EDFRuns ==
  \A p \in Slots \ {initproc} :
     state[p] = "RUNNABLE" /\ sched_policy[p] = EDF ~>
        state[p] # "RUNNABLE" \/ Stopped
=============================================================================
