------------------------------ MODULE Spinlock ------------------------------
(***************************************************************************)
(* Spin locks and interrupts: acquire(), release(), holding(), pushcli()   *)
(* and popcli() of spinlock.c, with the interrupts that come between their *)
(* steps, and the passing of ptable.lock from thread to thread by sched(), *)
(* scheduler() and forkret() of proc.c.                                    *)
(*                                                                         *)
(* The threads are the processes and, for each CPU, its scheduler(), which *)
(* has the name of the CPU.  A step is what a CPU does between two points  *)
(* where an interrupt, or another CPU, can make a difference.  Which locks *)
(* a thread takes is left open.  A local variable is reset once nothing    *)
(* reads it again.                                                         *)
(***************************************************************************)
EXTENDS Integers, FiniteSets

CONSTANTS CPUs, Procs, Locks,
          ptable             \* ptable.lock

VARIABLES
  ncli, intena,              \* struct cpu
  FL_IF,                     \* whether each CPU takes interrupts
  run,                       \* the thread each CPU executes
  locked, cpu,               \* struct spinlock; cpu is {} for 0
  pc,                        \* where each thread is
  lk, eflags,                \* its argument of acquire() or release(), and
                             \* the local variable of pushcli()
  saved,                     \* these, of what an interrupt handler interrupted
  held,                      \* ghost: the locks of the thread, or its handler
  kept,                      \* the local variable intena of sched()
  fresh,                     \* forkret() has not yet returned to user space
  panicked

cpuVars    == <<ncli, intena, FL_IF>>
lockVars   == <<locked, cpu>>
threadVars == <<pc, lk, eflags, saved, held, kept, fresh>>
vars == <<cpuVars, run, lockVars, threadVars, panicked>>

Threads == Procs \cup CPUs
NoFrame == [pc |-> "none", lk |-> ptable, eflags |-> FALSE, held |-> {}]

\* Names of CPUs and processes differ.
ThreadAssumption == CPUs \cap Procs = {} /\ ptable \in Locks

Init ==
  /\ ncli = [c \in CPUs |-> 0] /\ intena = [c \in CPUs |-> FALSE]
  /\ FL_IF = [c \in CPUs |-> FALSE] /\ run = [c \in CPUs |-> c]
  /\ locked = [l \in Locks |-> FALSE] /\ cpu = [l \in Locks |-> {}]
  /\ pc = [t \in Threads |-> IF t \in CPUs THEN "loop" ELSE "new"]
  /\ lk = [t \in Threads |-> ptable] /\ eflags = [t \in Threads |-> FALSE]
  /\ saved = [t \in Threads |-> NoFrame] /\ held = [t \in Threads |-> {}]
  /\ kept = [p \in Procs |-> FALSE] /\ fresh = [p \in Procs |-> TRUE]
  /\ panicked = FALSE

InHandler(t) == saved[t].pc # "none"
\* scheduler() itself, not an interrupt handler above it.
Schedules(c) == run[c] = c /\ ~InHandler(c)
At(c, l) == ~panicked /\ pc[run[c]] = l
Goto(c, l) == pc' = [pc EXCEPT ![run[c]] = l]

\* Mutant: does not ask which CPU has the lock.
holding_Any(c, l) == locked[l]
\* holding(); its own pushcli() and popcli() undo each other.
holding(c, l) == locked[l] /\ cpu[l] = {c}

-----------------------------------------------------------------------------
(* acquire() *)

\* readeflags() of pushcli().  scheduler() takes ptable.lock only.
Acquire(c, l) ==
  LET t == run[c]
  IN /\ At(c, "run") /\ l \notin held[t]
     /\ Schedules(c) => l = ptable
     /\ lk' = [lk EXCEPT ![t] = l]
     /\ eflags' = [eflags EXCEPT ![t] = FL_IF[c]]
     /\ Goto(c, "push")
     /\ UNCHANGED <<cpuVars, run, lockVars, saved, held, kept, fresh, panicked>>

\* Mutant: no cli().
pushcli_NoCli(c) ==
  /\ FL_IF' = FL_IF
  /\ intena' = [intena EXCEPT ![c] = IF ncli[c] = 0 THEN eflags[run[c]] ELSE @]
  /\ ncli' = [ncli EXCEPT ![c] = @ + 1]

\* The rest of pushcli(), from cli() on.
pushcli(c) ==
  /\ FL_IF' = [FL_IF EXCEPT ![c] = FALSE]
  /\ intena' = [intena EXCEPT ![c] = IF ncli[c] = 0 THEN eflags[run[c]] ELSE @]
  /\ ncli' = [ncli EXCEPT ![c] = @ + 1]

Pushcli(c) ==
  /\ At(c, "push")
  /\ pushcli(c) /\ panicked' = holding(c, lk[run[c]])
  /\ eflags' = [eflags EXCEPT ![run[c]] = FALSE] /\ Goto(c, "spin")
  /\ UNCHANGED <<run, lockVars, lk, saved, held, kept, fresh>>

\* Mutant: takes a lock that is not free.
Xchg_Blind(c) ==
  LET t == run[c]
  IN /\ At(c, "spin")
     /\ locked' = [locked EXCEPT ![lk[t]] = TRUE]
     /\ held' = [held EXCEPT ![t] = @ \cup {lk[t]}]
     /\ Goto(c, "own")
     /\ UNCHANGED <<cpuVars, run, cpu, lk, eflags, saved, kept, fresh, panicked>>

\* The xchg that finds the lock free.
Xchg(c) ==
  LET t == run[c]
  IN /\ At(c, "spin") /\ ~locked[lk[t]]
     /\ locked' = [locked EXCEPT ![lk[t]] = TRUE]
     /\ held' = [held EXCEPT ![t] = @ \cup {lk[t]}]
     /\ Goto(c, "own")
     /\ UNCHANGED <<cpuVars, run, cpu, lk, eflags, saved, kept, fresh, panicked>>

Own(c) ==
  /\ At(c, "own")
  /\ cpu' = [cpu EXCEPT ![lk[run[c]]] = {c}]
  /\ lk' = [lk EXCEPT ![run[c]] = ptable] /\ Goto(c, "run")
  /\ UNCHANGED <<cpuVars, run, locked, eflags, saved, held, kept, fresh, panicked>>

-----------------------------------------------------------------------------
(* release() *)

Release(c, l) ==
  LET t == run[c]
  IN /\ At(c, "run") /\ l \in held[t]
     /\ panicked' = ~holding(c, l)
     /\ cpu' = [cpu EXCEPT ![l] = {}] /\ lk' = [lk EXCEPT ![t] = l]
     /\ Goto(c, "unlock")
     /\ UNCHANGED <<cpuVars, run, locked, eflags, saved, held, kept, fresh>>

Unlock(c) ==
  LET t == run[c]
  IN /\ At(c, "unlock")
     /\ locked' = [locked EXCEPT ![lk[t]] = FALSE]
     /\ held' = [held EXCEPT ![t] = @ \ {lk[t]}]
     /\ lk' = [lk EXCEPT ![t] = ptable] /\ Goto(c, "pop")
     /\ UNCHANGED <<cpuVars, run, cpu, eflags, saved, kept, fresh, panicked>>

\* popcli(); scheduler() then goes round its loop.
Popcli(c) ==
  /\ At(c, "pop")
  /\ panicked' = (FL_IF[c] \/ ncli[c] < 1)
  /\ ncli' = [ncli EXCEPT ![c] = @ - 1]
  /\ FL_IF' = [FL_IF EXCEPT ![c] = ncli[c] = 1 /\ intena[c]]
  /\ Goto(c, IF Schedules(c) THEN "loop" ELSE "run")
  /\ UNCHANGED <<intena, run, lockVars, lk, eflags, saved, held, kept, fresh>>

-----------------------------------------------------------------------------
(* Interrupts *)

\* The CPU turns interrupts off for the handler, which runs on the stack of
\* the thread.
Interrupt(c) ==
  LET t == run[c]
  IN /\ ~panicked /\ FL_IF[c]
     /\ saved' = [saved EXCEPT ![t] = [pc |-> pc[t], lk |-> lk[t],
                                       eflags |-> eflags[t], held |-> held[t]]]
     /\ lk' = [lk EXCEPT ![t] = ptable] /\ eflags' = [eflags EXCEPT ![t] = FALSE]
     /\ held' = [held EXCEPT ![t] = {}]
     /\ FL_IF' = [FL_IF EXCEPT ![c] = FALSE]
     /\ Goto(c, "run")
     /\ UNCHANGED <<ncli, intena, run, lockVars, kept, fresh, panicked>>

\* iret of the handler.
Iret(c) ==
  LET t == run[c]
  IN /\ At(c, "run") /\ InHandler(t) /\ held[t] = {}
     /\ pc' = [pc EXCEPT ![t] = saved[t].pc] /\ lk' = [lk EXCEPT ![t] = saved[t].lk]
     /\ eflags' = [eflags EXCEPT ![t] = saved[t].eflags]
     /\ held' = [held EXCEPT ![t] = saved[t].held]
     /\ saved' = [saved EXCEPT ![t] = NoFrame]
     /\ FL_IF' = [FL_IF EXCEPT ![c] = TRUE]
     /\ UNCHANGED <<ncli, intena, run, lockVars, kept, fresh, panicked>>

-----------------------------------------------------------------------------
(* Switching threads *)

\* sti() at the top of the loop of scheduler().
Sti(c) ==
  /\ At(c, "loop")
  /\ FL_IF' = [FL_IF EXCEPT ![c] = TRUE] /\ Goto(c, "run")
  /\ UNCHANGED <<ncli, intena, run, lockVars, lk, eflags, saved, held, kept, fresh,
                 panicked>>

\* sched() of a process, in a system call or in a handler, which has
\* ptable.lock and no other; its lock is scheduler()'s now.
Sched(c) ==
  LET p == run[c]
  IN /\ At(c, "run") /\ p \in Procs /\ held[p] = {ptable}
     /\ panicked' = (~holding(c, ptable) \/ ncli[c] # 1 \/ FL_IF[c])
     /\ kept' = [kept EXCEPT ![p] = intena[c]]
     /\ pc' = [pc EXCEPT ![p] = "away"] /\ run' = [run EXCEPT ![c] = c]
     /\ held' = [held EXCEPT ![p] = {}, ![c] = {ptable}]
     /\ UNCHANGED <<cpuVars, lockVars, lk, eflags, saved, fresh>>

\* Mutant: sched() does not keep intena.
Restored_Current(c, p) == intena[c]
\* What intena becomes when sched() of p returns on CPU c; a new process
\* starts in forkret(), which does not touch it.
Restored(c, p) == IF pc[p] = "new" THEN intena[c] ELSE kept[p]

\* swtch() of scheduler() to a process, and the end of its sched().
Switch(c, p) ==
  /\ At(c, "run") /\ Schedules(c) /\ held[c] = {ptable}
  /\ pc[p] \in {"new", "away"}
  /\ intena' = [intena EXCEPT ![c] = Restored(c, p)]
  /\ pc' = [pc EXCEPT ![p] = "run"] /\ run' = [run EXCEPT ![c] = p]
  /\ held' = [held EXCEPT ![c] = {}, ![p] = {ptable}]
  /\ kept' = [kept EXCEPT ![p] = FALSE]
  /\ UNCHANGED <<ncli, FL_IF, lockVars, lk, eflags, saved, fresh, panicked>>

\* forkret() ends in the iret of trapret, which turns interrupts on.
Forkret(c) ==
  LET p == run[c]
  IN /\ At(c, "run") /\ p \in Procs /\ fresh[p] /\ ~InHandler(p) /\ held[p] = {}
     /\ fresh' = [fresh EXCEPT ![p] = FALSE]
     /\ FL_IF' = [FL_IF EXCEPT ![c] = TRUE]
     /\ UNCHANGED <<ncli, intena, run, lockVars, pc, lk, eflags, saved, held, kept,
                    panicked>>

Next == \E c \in CPUs :
  \/ \E l \in Locks : Acquire(c, l) \/ Release(c, l)
  \/ Pushcli(c) \/ Xchg(c) \/ Own(c) \/ Unlock(c) \/ Popcli(c)
  \/ Interrupt(c) \/ Iret(c)
  \/ Sti(c) \/ Sched(c) \/ Forkret(c) \/ \E p \in Procs : Switch(c, p)

Spec == Init /\ [][Next]_vars

-----------------------------------------------------------------------------
(* Properties *)

Owns(t) == held[t] \cup saved[t].held

\* A lock has one holder, also while ptable.lock goes from a process to
\* scheduler() and on to another process; holding() is right about it.
MutualExclusion ==
  /\ \A t, u \in Threads : t # u => Owns(t) \cap Owns(u) = {}
  /\ \A c \in CPUs, l \in Locks : pc[run[c]] = "run" /\ l \in held[run[c]] => holding(c, l)

\* No interrupt comes while the CPU has a lock, so that a handler never spins
\* for a lock of the code below it, and none comes in a handler.
HandlersAlone ==
  \A t \in Threads : saved[t].held = {} /\ saved[t].pc \in {"none", "loop", "run", "push"}
                     /\ (InHandler(t) => \A c \in CPUs : run[c] = t => ~FL_IF[c])

\* pushcli() and popcli() undo each other, on whatever CPU the thread goes on
\* after sched(): a process without locks takes interrupts again, and an
\* interrupt handler still does not.
FlagsRestored ==
  \A c \in CPUs : run[c] \in Procs /\ pc[run[c]] = "run" /\ held[run[c]] = {} =>
    /\ ncli[c] = 0
    /\ InHandler(run[c]) => ~FL_IF[c]
    /\ ~InHandler(run[c]) /\ ~fresh[run[c]] => FL_IF[c]

\* None of the panics of acquire(), release(), popcli() and sched() happens to
\* threads that release what they acquire.
NoPanic == ~panicked

\* What acquire(), release(), pushcli(), popcli() and sched() owe the kernel
\* together: exclusion between CPUs, between a thread and the interrupts of its
\* CPU, the interrupt flag as it was, and none of their panics.
SpinlockSafe == MutualExclusion /\ HandlersAlone /\ FlagsRestored /\ NoPanic
=============================================================================
