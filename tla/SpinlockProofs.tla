--------------------------- MODULE SpinlockProofs ---------------------------
(***************************************************************************)
(* release() and the hand-over of ptable.lock keep the invariant of        *)
(* SpinlockLockProofs; what follows from it: locks exclude, handlers stay  *)
(* away from critical sections, the interrupt flag goes with its thread,   *)
(* and nothing panics.                                                     *)
(***************************************************************************)
EXTENDS SpinlockLockProofs

\* release() finds its lock and clears lk->cpu.
LEMMA ReleaseStep ==
  ASSUME ThreadAssumption, Inv, NEW c \in CPUs, NEW l \in Locks, Release(c, l)
  PROVE  Inv'
<1> DEFINE t == run[c]
<1>a. /\ t \in Threads /\ c \in Threads
      /\ \A d \in CPUs : run[d] \in Threads /\ (d # c => run[d] # t)
  BY Zenon, CpuFacts
<1>1. /\ pc[t] = "run" /\ pc'[t] = "unlock" /\ lk'[t] = l /\ l \in held[t]
      /\ \A m \in Locks : cpu'[m] = IF m = l THEN {} ELSE cpu[m]
      /\ run' = run /\ saved' = saved /\ held' = held /\ locked' = locked /\ fresh' = fresh
      /\ ncli' = ncli /\ intena' = intena /\ FL_IF' = FL_IF
  BY Zenon, <1>a DEF Inv, Types, Release, At, Goto, cpuVars
<1>2. Types'
  BY <1>a, <1>1 DEF Inv, Types, PCs, ThreadAssumption, Release, At, Goto, cpuVars
<1>3. Local(c) BY <1>a, <1>1 DEF Local, Inv, Types, Release, At, Goto, cpuVars
<1>4. Exclusive' BY Zenon, <1>1 DEF Inv, Exclusive
<1>5. Marks'
  <2>1. \A d \in CPUs : d # c => l \notin held[run[d]] BY <1>a, <1>1 DEF Inv, Exclusive
  <2> QED BY <1>a, <1>1, <1>3, <2>1 DEF Inv, Marks, Marked, Local
<1>6. FrameAt(t)' /\ ArgsAt(t)' /\ LoopAt(t)'
  BY <1>a, <1>1 DEF Inv, Framed, FrameAt, Args, ArgsAt, Loops, LoopAt, InHandler
<1>7. CountAt(c)' BY Zenon, <1>1 DEF Inv, Counted, CountAt, Count
<1>8. FlagsAt(c)' BY Zenon, <1>1 DEF Inv, Flags, FlagsAt, Known, InHandler
<1>9. ~panicked'
  <2>1. Marked(c, l) BY Zenon, <1>1 DEF Marked
  <2> QED BY Zenon, <2>1, CpuFacts DEF Release
<1> QED BY Zenon, <1>2, <1>3, <1>4, <1>5, <1>6, <1>7, <1>8, <1>9, LocalStep

\* Giving a lock up keeps the invariant.
LEMMA UnlockStep ==
  ASSUME ThreadAssumption, Inv, NEW c \in CPUs, Unlock(c)
  PROVE  Inv'
<1> DEFINE t == run[c]
<1>a. /\ t \in Threads /\ c \in Threads
      /\ \A d \in CPUs : run[d] \in Threads /\ (d # c => run[d] # t)
  BY Zenon, CpuFacts
<1>b. /\ lk[t] \in held[t] /\ lk[t] \in Locks
      /\ \A u \in Threads : u # t => lk[t] \notin held[u]
  BY <1>a DEF Inv, Types, Args, ArgsAt, Exclusive, Unlock, At
<1>1. /\ pc[t] = "unlock" /\ pc'[t] = "pop" /\ lk'[t] = ptable /\ held'[t] = held[t] \ {lk[t]}
      /\ \A m \in Locks : locked'[m] <=> m # lk[t] /\ locked[m]
      /\ run' = run /\ saved' = saved /\ cpu' = cpu /\ fresh' = fresh
      /\ ncli' = ncli /\ intena' = intena /\ FL_IF' = FL_IF
  BY Zenon, <1>a, <1>b DEF Inv, Types, Unlock, At, Goto, cpuVars
<1>2. Types'
  BY <1>a, <1>1 DEF Inv, Types, PCs, ThreadAssumption, Unlock, At, Goto, cpuVars
<1>3. Local(c) BY <1>a, <1>1 DEF Local, Inv, Types, Unlock, At, Goto, cpuVars
<1>4. Exclusive'
  <2>1. \A u, v \in Threads : u # v => held'[u] \cap held'[v] = {}
    BY <1>1, <1>3 DEF Inv, Exclusive, Local
  <2>2. ASSUME NEW m \in Locks, m # lk[t]
        PROVE  \A u \in Threads : m \in held'[u] <=> m \in held[u]
    BY Zenon, <1>1, <1>3, <2>2 DEF Local
  <2>3. \A u \in Threads : lk[t] \notin held'[u] BY Zenon, <1>1, <1>3, <1>b DEF Local
  <2>4. \A m \in Locks : locked'[m] <=> \E u \in Threads : m \in held'[u]
    BY <1>1, <2>2, <2>3 DEF Inv, Exclusive
  <2> QED BY <1>1, <1>3, <2>1, <2>4 DEF Inv, Exclusive, Local
<1>5. Marks' BY SMTT(20), <1>a, <1>1, <1>3, <1>b DEF Inv, Marks, Marked, Local
<1>6. FrameAt(t)' /\ ArgsAt(t)' /\ LoopAt(t)'
  BY SMTT(20), <1>a, <1>1 DEF Inv, Placed, Framed, FrameAt, ArgsAt, Loops, LoopAt, InHandler
<1>7. CountAt(c)'
  <2>1. IsFiniteSet(held[t]) /\ ncli[c] = Cardinality(held[t]) + 0
    BY Zenon, <1>1 DEF Inv, Counted, CountAt, Count
  <2>2. /\ IsFiniteSet(held[t] \ {lk[t]})
        /\ Cardinality(held[t] \ {lk[t]}) = Cardinality(held[t]) - 1
    BY Zenon, <1>b, <2>1, FS_RemoveElement
  <2>3. Cardinality(held[t]) \in Nat BY Zenon, <2>1, FS_CardinalityType
  <2>4. Count(c)' = Cardinality(held[t] \ {lk[t]}) + 1 BY Zenon, <1>1 DEF Count
  <2>5. ncli'[c] = Count(c)' BY <1>1, <2>1, <2>2, <2>3, <2>4
  <2> QED BY Zenon, <1>1, <2>2, <2>5 DEF CountAt
<1>8. FlagsAt(c)' BY Zenon, <1>1 DEF Inv, Flags, FlagsAt, Known, InHandler
<1>9. ~panicked' BY Zenon DEF Inv, Unlock
<1> QED BY Zenon, <1>2, <1>3, <1>4, <1>5, <1>6, <1>7, <1>8, <1>9, LocalStep

\* popcli() keeps the invariant and does not panic.
LEMMA PopcliStep ==
  ASSUME ThreadAssumption, Inv, NEW c \in CPUs, Popcli(c)
  PROVE  Inv'
<1> DEFINE t == run[c]
<1>a. /\ t \in Threads /\ c \in Threads
      /\ \A d \in CPUs : run[d] \in Threads /\ (d # c => run[d] # t)
  BY Zenon, CpuFacts
<1>b. ncli[c] \in Int /\ ncli[c] > 0 /\ ~FL_IF[c]
  <2>1. ncli[c] # 0 /\ ncli[c] \in Int /\ ncli[c] >= 0 BY Zenon, CpuFacts DEF Popcli, At
  <2>2. ncli[c] # 0 => ~FL_IF[c] BY Zenon DEF Inv, Flags, FlagsAt
  <2> QED BY <2>1, <2>2
<1>c. Schedules(c) => t = c /\ ~InHandler(c) /\ held[t] = {}
  BY Zenon, <1>a DEF Inv, Loops, LoopAt, Schedules, Popcli, At
<1>1. /\ pc[t] = "pop" /\ pc'[t] = (IF Schedules(c) THEN "loop" ELSE "run")
      /\ ncli'[c] = ncli[c] - 1 /\ (FL_IF'[c] <=> ncli[c] = 1 /\ intena[c])
      /\ run' = run /\ saved' = saved /\ held' = held /\ locked' = locked /\ cpu' = cpu
      /\ lk' = lk /\ fresh' = fresh /\ intena' = intena
  BY Zenon, <1>a, <1>b DEF Inv, Types, Popcli, At, Goto, lockVars
<1>2. Types'
  BY <1>a, <1>1 DEF Inv, Types, PCs, ThreadAssumption, Popcli, At, Goto, lockVars
<1>3. Local(c) BY Zenon, <1>a, <1>1 DEF Local, Inv, Types, Popcli, At, Goto, lockVars
<1>4. Exclusive' BY Zenon, <1>1 DEF Inv, Exclusive
<1>5. Marks' BY <1>a, <1>1, <1>3 DEF Inv, Marks, Marked, Local
<1>6. FrameAt(t)' /\ ArgsAt(t)' /\ LoopAt(t)'
  BY Zenon, <1>a, <1>1, <1>c DEF Inv, Framed, FrameAt, ArgsAt, Loops, LoopAt, InHandler
<1>7. CountAt(c)'
  <2>1. IsFiniteSet(held[t]) /\ ncli[c] = Cardinality(held[t]) + 1
    BY Zenon, <1>1 DEF Inv, Counted, CountAt, Count
  <2>2. Cardinality(held[t]) \in Nat BY Zenon, <2>1, FS_CardinalityType
  <2> QED BY <1>1, <2>1, <2>2 DEF CountAt, Count
<1>8. FlagsAt(c)' BY <1>1, <1>b DEF Inv, Flags, FlagsAt, Known, InHandler
<1>9. ~panicked'
  <2>1. ~(FL_IF[c] \/ ncli[c] < 1) BY <1>b
  <2> QED BY Zenon, <2>1 DEF Popcli
<1> QED BY Zenon, <1>2, <1>3, <1>4, <1>5, <1>6, <1>7, <1>8, <1>9, LocalStep

\* sti() of scheduler() comes when the CPU has no lock.
LEMMA StiStep ==
  ASSUME ThreadAssumption, Inv, NEW c \in CPUs, Sti(c)
  PROVE  Inv'
<1> DEFINE t == run[c]
<1>a. /\ t \in Threads /\ c \in Threads
      /\ \A d \in CPUs : run[d] \in Threads /\ (d # c => run[d] # t)
  BY Zenon, CpuFacts
<1>b. pc[t] = "loop" /\ ncli[c] = 0 /\ ~InHandler(t) /\ t \in CPUs
  <2>1. pc[t] = "loop" BY Zenon DEF Sti, At
  <2>2. held[t] = {} /\ ~InHandler(t) /\ t \in CPUs
    BY Zenon, <1>a, <2>1 DEF Inv, Args, ArgsAt, Framed, FrameAt
  <2> QED BY Zenon, <2>1, <2>2, CpuFacts
<1>1. /\ pc'[t] = "run" /\ FL_IF'[c] = TRUE /\ lk' = lk
      /\ run' = run /\ saved' = saved /\ held' = held /\ locked' = locked /\ cpu' = cpu
      /\ ncli' = ncli /\ intena' = intena /\ fresh' = fresh
  BY Zenon, <1>a, <1>b DEF Inv, Types, Sti, At, Goto, lockVars
<1>2. Types' BY Zenon, <1>a, <1>1 DEF Inv, Types, PCs, ThreadAssumption, Sti, At, Goto, lockVars
<1>3. Local(c) BY Zenon, <1>a, <1>1 DEF Local, Inv, Types, Sti, At, Goto, lockVars
<1>4. Exclusive' BY Zenon, <1>1 DEF Inv, Exclusive
<1>5. Marks' BY <1>a, <1>1, <1>3, <1>b DEF Inv, Marks, Marked, Local
<1>6. FrameAt(t)' /\ ArgsAt(t)' /\ LoopAt(t)'
  BY Zenon, <1>a, <1>1 DEF Inv, Framed, FrameAt, Args, ArgsAt, Loops, LoopAt, InHandler
<1>7. CountAt(c)' BY Zenon, <1>1, <1>b DEF Inv, Counted, CountAt, Count
<1>8. FlagsAt(c)' BY Zenon, <1>1, <1>b DEF FlagsAt, Known, InHandler, ThreadAssumption
<1>9. ~panicked' BY Zenon DEF Inv, Sti
<1> QED BY Zenon, <1>2, <1>3, <1>4, <1>5, <1>6, <1>7, <1>8, <1>9, LocalStep

\* forkret() returns to user space without locks.
LEMMA ForkretStep ==
  ASSUME ThreadAssumption, Inv, NEW c \in CPUs, Forkret(c)
  PROVE  Inv'
<1> DEFINE t == run[c]
<1>a. /\ t \in Threads /\ c \in Threads
      /\ \A d \in CPUs : run[d] \in Threads /\ (d # c => run[d] # t)
  BY Zenon, CpuFacts
<1>b. pc[t] = "run" /\ ncli[c] = 0 /\ ~InHandler(t) /\ t \in Procs
  BY Zenon, CpuFacts DEF Forkret, At
<1>1. /\ pc' = pc /\ lk' = lk /\ FL_IF'[c] = TRUE
      /\ run' = run /\ saved' = saved /\ held' = held /\ locked' = locked /\ cpu' = cpu
      /\ ncli' = ncli /\ intena' = intena
  BY Zenon, <1>a, <1>b DEF Inv, Types, Forkret, At, lockVars
<1>2. Types' BY Zenon, <1>a, <1>1 DEF Inv, Types, PCs, ThreadAssumption, Forkret, At, lockVars
<1>3. Local(c) BY Zenon, <1>a, <1>1 DEF Local, Inv, Types, Forkret, At, lockVars
<1>4. Exclusive' BY Zenon, <1>1 DEF Inv, Exclusive
<1>5. Marks' BY <1>a, <1>1, <1>3 DEF Inv, Marks, Marked, Local
<1>6. FrameAt(t)' /\ ArgsAt(t)' /\ LoopAt(t)'
  BY Zenon, <1>a, <1>1 DEF Inv, Framed, FrameAt, Args, ArgsAt, Loops, LoopAt, InHandler
<1>7. CountAt(c)' BY Zenon, <1>1 DEF Inv, Counted, CountAt, Count
<1>8. FlagsAt(c)' BY Zenon, <1>1, <1>b DEF FlagsAt, InHandler
<1>9. ~panicked' BY Zenon DEF Inv, Forkret
<1> QED BY Zenon, <1>2, <1>3, <1>4, <1>5, <1>6, <1>7, <1>8, <1>9, LocalStep

\* sched() hands ptable.lock to scheduler(), keeps the flag of the process and
\* does not panic.
LEMMA SchedStep ==
  ASSUME ThreadAssumption, Inv, NEW c \in CPUs, Sched(c)
  PROVE  Inv'
<1> DEFINE t == run[c]
<1>a. /\ t \in Threads /\ c \in Threads
      /\ \A d \in CPUs : run[d] \in Threads /\ (d # c => run[d] # t)
  BY Zenon, CpuFacts
<1>b. /\ t \in Procs /\ t # c /\ pc[t] = "run" /\ held[t] = {ptable}
      /\ pc[c] = "run" /\ ~InHandler(c) /\ \A d \in CPUs : run[d] # c
  BY DEF Inv, Placed, ThreadAssumption, Sched, At
<1>c. held[c] = {} /\ \A u \in Threads : u # t => ptable \notin held[u]
  BY Zenon, <1>a, <1>b DEF Inv, Exclusive
<1>d. ncli[c] = 1 /\ ~FL_IF[c] BY Zenon, <1>b, OneLock
<1>1. /\ \A u \in Threads : pc'[u] = IF u = t THEN "away" ELSE pc[u]
      /\ \A u \in Threads : held'[u] = IF u = c THEN {ptable}
                                       ELSE IF u = t THEN {} ELSE held[u]
      /\ \A d \in CPUs : run'[d] = IF d = c THEN c ELSE run[d]
      /\ \A q \in Procs : kept'[q] = IF q = t THEN intena[c] ELSE kept[q]
      /\ ncli' = ncli /\ intena' = intena /\ FL_IF' = FL_IF /\ locked' = locked /\ cpu' = cpu
      /\ lk' = lk /\ eflags' = eflags /\ saved' = saved /\ fresh' = fresh
  BY Zenon, <1>a, <1>b DEF Inv, Types, Sched, cpuVars, lockVars
<1>2. Types'
  BY Zenon, <1>a, <1>b DEF Inv, Types, PCs, ThreadAssumption, Sched, cpuVars, lockVars
<1>3. Placed' BY <1>a, <1>b, <1>1 DEF Inv, Placed, InHandler, ThreadAssumption, Threads
<1>4. Framed' BY <1>1 DEF Inv, Framed, FrameAt, InHandler, Threads
<1>5. Exclusive'
  <2>1. \A u, v \in Threads : u # v => held'[u] \cap held'[v] = {}
    BY <1>c, <1>1 DEF Inv, Exclusive
  <2>2. \A m \in Locks : (\E u \in Threads : m \in held'[u])
                         <=> \E u \in Threads : m \in held[u]
    BY <1>a, <1>b, <1>c, <1>1
  <2> QED BY <1>a, <1>b, <1>1, <2>1, <2>2 DEF Inv, Exclusive
<1>6. \A d \in CPUs : /\ held'[run'[d]] = held[run[d]] /\ pc'[run'[d]] = pc[run[d]]
                      /\ d # c => run'[d] = run[d]
  BY <1>a, <1>b, <1>1
<1>7. run'[c] = c /\ held'[c] = {ptable} /\ pc'[c] = "run" BY Zenon, <1>a, <1>b, <1>1
<1>8. Marks' /\ Counted'
  <2>1. Marks' BY <1>b, <1>1, <1>6 DEF Inv, Marks, Marked
  <2>2. Counted' BY <1>1, <1>6 DEF Inv, Counted, CountAt, Count
  <2> QED BY Zenon, <2>1, <2>2
<1>9. Args' /\ Loops'
  <2>1. ASSUME NEW u \in Threads PROVE ArgsAt(u)' /\ LoopAt(u)'
    <3>1. CASE u \in {c, t}
      BY <1>b, <1>1, <3>1 DEF Inv, ArgsAt, Loops, LoopAt, InHandler, ThreadAssumption
    <3>2. CASE u \notin {c, t}
      BY Zenon, <1>1, <3>2 DEF Inv, Args, ArgsAt, Loops, LoopAt, InHandler
    <3> QED BY Zenon, <3>1, <3>2
  <2> QED BY Zenon, <2>1 DEF Args, Loops
<1>10. ASSUME NEW d \in CPUs PROVE FlagsAt(d)'
  <2>1. CASE d = c
    BY Zenon, <1>b, <1>d, <1>1, <1>7, <2>1 DEF FlagsAt, Known, InHandler, ThreadAssumption
  <2>2. CASE d # c BY SMTT(20), <1>1, <1>6, <2>2 DEF Inv, Flags, FlagsAt, Known, InHandler
  <2> QED BY Zenon, <2>1, <2>2
<1>11. ASSUME NEW q \in Procs PROVE FlagsKept(q)'
  BY <1>d, <1>1 DEF Inv, Flags, FlagsAt, FlagsKept, Known, InHandler, Threads
<1>12. ~panicked'
  <2>1. holding(c, ptable) BY Zenon, <1>b, CpuFacts DEF Marked, ThreadAssumption
  <2>2. ~(~holding(c, ptable) \/ ncli[c] # 1 \/ FL_IF[c]) BY Zenon, <1>d, <2>1
  <2> QED BY Zenon, <2>2 DEF Sched
<1> QED BY Zenon, <1>2, <1>3, <1>4, <1>5, <1>8, <1>9, <1>10, <1>11, <1>12 DEF Inv, Flags

\* scheduler() hands ptable.lock to a process and restores its flag.
LEMMA SwitchStep ==
  ASSUME ThreadAssumption, Inv, NEW c \in CPUs, NEW p \in Procs, Switch(c, p)
  PROVE  Inv'
<1>a. /\ c \in Threads /\ p \in Threads
      /\ \A d \in CPUs : run[d] \in Threads /\ (d # c => run[d] # run[c])
  BY Zenon, CpuFacts DEF Threads
<1>b. /\ run[c] = c /\ ~InHandler(c) /\ pc[c] = "run" /\ held[c] = {ptable}
      /\ pc[p] \in {"new", "away"} /\ p # c /\ \A d \in CPUs : run[d] # p
  BY Zenon DEF Inv, Placed, ThreadAssumption, Switch, Schedules, At
<1>c. held[p] = {} /\ \A u \in Threads : u # c => ptable \notin held[u]
  BY Zenon, <1>a, <1>b DEF Inv, Exclusive
<1>d. ncli[c] = 1 /\ ~FL_IF[c] BY Zenon, <1>b, OneLock
<1>1. /\ \A u \in Threads : pc'[u] = IF u = p THEN "run" ELSE pc[u]
      /\ \A u \in Threads : held'[u] = IF u = p THEN {ptable}
                                       ELSE IF u = c THEN {} ELSE held[u]
      /\ \A d \in CPUs : run'[d] = IF d = c THEN p ELSE run[d]
      /\ \A d \in CPUs : intena'[d] = IF d = c THEN Restored(c, p) ELSE intena[d]
      /\ \A q \in Procs : q # p => kept'[q] = kept[q]
      /\ ncli' = ncli /\ FL_IF' = FL_IF /\ locked' = locked /\ cpu' = cpu
      /\ lk' = lk /\ eflags' = eflags /\ saved' = saved /\ fresh' = fresh
  BY Zenon, <1>a, <1>b DEF Inv, Types, Switch, lockVars
<1>2. Types'
  BY Zenon, <1>a, <1>b DEF Inv, Types, PCs, ThreadAssumption, Switch, Restored, lockVars
<1>3. Placed' BY <1>a, <1>b, <1>1 DEF Inv, Placed, InHandler, ThreadAssumption, Threads
<1>4. Framed'
  <2>1. ASSUME NEW u \in Threads PROVE FrameAt(u)'
    <3>1. FrameAt(u) BY Zenon DEF Inv, Framed
    <3>2. CASE u = p
      <4>1. pc'[u] # "loop" BY <1>1, <3>2
      <4> QED BY Zenon, <1>1, <3>1, <4>1 DEF FrameAt
    <3>3. CASE u # p BY Zenon, <1>1, <3>1, <3>3 DEF FrameAt, InHandler
    <3> QED BY <3>2, <3>3
  <2>2. ASSUME NEW q \in Procs, pc'[q] = "new" PROVE fresh'[q] /\ ~InHandler(q)'
    <3>1. q \in Threads /\ pc[q] = "new" BY <1>1, <2>2 DEF Threads
    <3> QED BY Zenon, <1>1, <3>1 DEF Inv, Framed, InHandler
  <2> QED BY Zenon, <2>1, <2>2 DEF Framed
<1>5. Exclusive'
  <2>1. \A u, v \in Threads : u # v => held'[u] \cap held'[v] = {}
    BY <1>c, <1>1 DEF Inv, Exclusive
  <2>2. \A m \in Locks : (\E u \in Threads : m \in held'[u])
                         <=> \E u \in Threads : m \in held[u]
    BY Zenon, <1>a, <1>b, <1>c, <1>1
  <2>3. ASSUME NEW u \in Threads, \A d \in CPUs : run'[d] # u PROVE held'[u] = {}
    <3>1. u # p BY Zenon, <1>1, <2>3
    <3>2. ASSUME u # c PROVE \A d \in CPUs : run[d] # u
      BY Zenon, <1>b, <1>1, <2>3, <3>2
    <3> QED BY Zenon, <1>1, <3>1, <3>2 DEF Inv, Exclusive
  <2> QED BY Zenon, <1>1, <2>1, <2>2, <2>3 DEF Inv, Exclusive
<1>6. \A d \in CPUs : /\ held'[run'[d]] = held[run[d]] /\ pc'[run'[d]] = pc[run[d]]
                      /\ d # c => run'[d] = run[d]
  <2> SUFFICES ASSUME NEW d \in CPUs
               PROVE  /\ held'[run'[d]] = held[run[d]] /\ pc'[run'[d]] = pc[run[d]]
                      /\ d # c => run'[d] = run[d]
    OBVIOUS
  <2>1. CASE d = c BY Zenon, <1>a, <1>b, <1>1, <2>1
  <2>2. CASE d # c
    <3>1. run'[d] = run[d] /\ run[d] \in Threads /\ run[d] # p /\ run[d] # c
      BY Zenon, <1>a, <1>b, <1>1, <2>2
    <3> QED BY Zenon, <1>1, <3>1
  <2> QED BY <2>1, <2>2
<1>7. run'[c] = p /\ held'[p] = {ptable} /\ pc'[p] = "run" BY Zenon, <1>a, <1>b, <1>1
<1>8. Marks' /\ Counted'
  <2>1. Marks' BY <1>b, <1>1, <1>6 DEF Inv, Marks, Marked
  <2>2. Counted' BY <1>1, <1>6 DEF Inv, Counted, CountAt, Count
  <2> QED BY Zenon, <2>1, <2>2
<1>9. Args' /\ Loops'
  <2>1. ASSUME NEW u \in Threads PROVE ArgsAt(u)' /\ LoopAt(u)'
    <3>1. CASE u \in {c, p}
      BY <1>b, <1>1, <3>1 DEF Inv, ArgsAt, Loops, LoopAt, InHandler, ThreadAssumption
    <3>2. CASE u \notin {c, p}
      BY Zenon, <1>1, <3>2 DEF Inv, Args, ArgsAt, Loops, LoopAt, InHandler
    <3> QED BY Zenon, <3>1, <3>2
  <2> QED BY Zenon, <2>1 DEF Args, Loops
<1>10. ASSUME NEW d \in CPUs PROVE FlagsAt(d)'
  <2>1. Known(p) => (Restored(c, p) <=> ~InHandler(p))
    BY Zenon, <1>b DEF Inv, Framed, Flags, FlagsKept, Known, Restored
  <2>2. CASE d = c BY <1>d, <1>1, <1>7, <2>1, <2>2 DEF FlagsAt, Known, InHandler
  <2>3. CASE d # c BY SMTT(20), <1>1, <1>6, <2>3 DEF Inv, Flags, FlagsAt, Known, InHandler
  <2> QED BY Zenon, <2>2, <2>3
<1>11. ASSUME NEW q \in Procs PROVE FlagsKept(q)'
  BY <1>1 DEF Inv, Flags, FlagsKept, Known, InHandler, Threads
<1>12. ~panicked' BY Zenon DEF Inv, Switch
<1> QED BY Zenon, <1>2, <1>3, <1>4, <1>5, <1>8, <1>9, <1>10, <1>11, <1>12 DEF Inv, Flags

\* mpmain() and userinit() start every CPU in scheduler() with the invariant.
LEMMA InitInv == ASSUME ThreadAssumption, Init PROVE Inv
<1> USE DEF Init, InHandler, NoFrame, Threads
<1>1. Types BY DEF Types, PCs, ThreadAssumption
<1>2. Placed /\ Framed /\ Loops
  BY Zenon DEF Placed, Framed, FrameAt, Loops, LoopAt, ThreadAssumption
<1>3. Exclusive /\ Marks /\ Args
  BY Zenon DEF Exclusive, Marks, Marked, Args, ArgsAt, ThreadAssumption
<1>4. Counted BY FS_EmptySet DEF Counted, CountAt, Count, ThreadAssumption
<1>5. Flags BY Zenon DEF Flags, FlagsAt, FlagsKept, Known, ThreadAssumption
<1> QED BY Zenon, <1>1, <1>2, <1>3, <1>4, <1>5 DEF Inv

\* The invariant is inductive: every step of a CPU keeps it.
LEMMA Invariant == ASSUME ThreadAssumption PROVE Spec => []Inv
<1>1. Init => Inv BY Zenon, InitInv
<1>2. Inv /\ [Next]_vars => Inv'
  <2> SUFFICES ASSUME Inv, [Next]_vars PROVE Inv'
    OBVIOUS
  <2>1. CASE Next
    BY Zenon, <2>1, AcquireStep, PushcliStep, XchgStep, OwnStep, ReleaseStep, UnlockStep,
       PopcliStep,
       InterruptStep, IretStep, StiStep, SchedStep, SwitchStep, ForkretStep DEF Next
  <2>2. CASE UNCHANGED vars
    <3>0. Types' BY Zenon, <2>2 DEF vars, cpuVars, lockVars, threadVars, Inv, Types
    <3>1. Placed' /\ Framed'
      BY <2>2 DEF vars, cpuVars, lockVars, threadVars, Inv, Placed, Framed, FrameAt, InHandler
    <3>3. Exclusive' /\ Marks'
      BY Zenon, <2>2 DEF vars, cpuVars, lockVars, threadVars, Inv, Exclusive, Marks, Marked
    <3>2. Args' /\ Loops' /\ Counted' /\ Flags' /\ ~panicked'
      BY Zenon, <2>2 DEF vars, cpuVars, lockVars, threadVars, Inv, Args, ArgsAt, Loops, LoopAt,
         Counted, CountAt, Count, Flags, FlagsAt, FlagsKept, Known, InHandler
    <3> QED BY Zenon, <3>0, <3>1, <3>2, <3>3 DEF Inv
  <2> QED BY Zenon, <2>1, <2>2
<1> QED BY <1>1, <1>2, PTL DEF Spec

\* Any number of CPUs exclude each other from what a spin lock protects, and
\* from the process table while ptable.lock passes from thread to thread.
THEOREM Excludes == ASSUME ThreadAssumption PROVE Spec => []MutualExclusion
<1>1. Inv => MutualExclusion
  <2> SUFFICES ASSUME Inv PROVE MutualExclusion
    OBVIOUS
  <2>1. \A t, u \in Threads : t # u => Owns(t) \cap Owns(u) = {}
    BY Zenon DEF Inv, Exclusive, Framed, FrameAt, Owns
  <2>2. ASSUME NEW c \in CPUs, NEW l \in Locks, pc[run[c]] = "run", l \in held[run[c]]
        PROVE  holding(c, l)
    <3>1. Marked(c, l) BY Zenon, <2>2 DEF Marked
    <3> QED BY Zenon, <3>1, CpuFacts
  <2> QED BY Zenon, <2>1, <2>2 DEF MutualExclusion
<1> QED BY <1>1, Invariant, PTL

\* cli() comes before the lock and sti() after it, so that no handler runs
\* above a critical section or above another handler.
THEOREM Uninterrupted == ASSUME ThreadAssumption PROVE Spec => []HandlersAlone
<1>1. Inv => HandlersAlone
  <2> SUFFICES ASSUME Inv, NEW t \in Threads
               PROVE  /\ saved[t].held = {}
                      /\ saved[t].pc \in {"none", "loop", "run", "push"}
                      /\ InHandler(t) => \A c \in CPUs : run[c] = t => ~FL_IF[c]
    BY Zenon DEF HandlersAlone
  <2>1. InHandler(t) => \A c \in CPUs : run[c] = t => ~FL_IF[c] BY Zenon, CpuFacts
  <2> QED BY Zenon, <2>1 DEF Inv, Framed, FrameAt
<1> QED BY <1>1, Invariant, PTL

\* The interrupt flag comes back to what the thread had, on any CPU it goes on.
THEOREM FlagsComeBack == ASSUME ThreadAssumption PROVE Spec => []FlagsRestored
<1>1. Inv => FlagsRestored
  <2> SUFFICES ASSUME Inv, NEW c \in CPUs, run[c] \in Procs, pc[run[c]] = "run",
                      held[run[c]] = {}
               PROVE  /\ ncli[c] = 0
                      /\ InHandler(run[c]) => ~FL_IF[c]
                      /\ ~InHandler(run[c]) /\ ~fresh[run[c]] => FL_IF[c]
    BY Zenon DEF FlagsRestored
  <2>1. ncli[c] = 0 BY Zenon, CpuFacts
  <2> QED BY Zenon, <2>1 DEF Inv, Flags, FlagsAt, Known
<1> QED BY <1>1, Invariant, PTL

\* The tests of acquire(), release(), popcli() and sched() never fail.
THEOREM NeverPanics == ASSUME ThreadAssumption PROVE Spec => []NoPanic
<1>1. Inv => NoPanic BY Zenon DEF Inv, NoPanic
<1> QED BY <1>1, Invariant, PTL

\* Together: spin locks, interrupts and the passing of ptable.lock are safe for
\* any number of CPUs, processes and locks.
THEOREM SpinlockCorrect == ASSUME ThreadAssumption PROVE Spec => []SpinlockSafe
BY Excludes, Uninterrupted, FlagsComeBack, NeverPanics, PTL DEF SpinlockSafe
=============================================================================
