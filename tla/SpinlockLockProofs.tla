------------------------- MODULE SpinlockLockProofs -------------------------
(***************************************************************************)
(* The inductive invariant of Spinlock, for any number of CPUs, processes  *)
(* and locks, and the steps of acquire() and of interrupts.                *)
(***************************************************************************)
EXTENDS Spinlock, FiniteSetTheorems, TLAPS

PCs == {"new", "away", "loop", "run", "push", "spin", "own", "unlock", "pop"}

Types ==
  /\ ncli \in [CPUs -> Int]
  /\ intena \in [CPUs -> BOOLEAN] /\ FL_IF \in [CPUs -> BOOLEAN]
  /\ run \in [CPUs -> Threads]
  /\ locked \in [Locks -> BOOLEAN] /\ cpu \in [Locks -> SUBSET CPUs]
  /\ pc \in [Threads -> PCs] /\ lk \in [Threads -> Locks]
  /\ eflags \in [Threads -> BOOLEAN]
  /\ saved \in [Threads -> [pc : PCs \cup {"none"}, lk : Locks, eflags : BOOLEAN,
                            held : SUBSET Locks]]
  /\ held \in [Threads -> SUBSET Locks]
  /\ kept \in [Procs -> BOOLEAN] /\ fresh \in [Procs -> BOOLEAN]

\* A CPU runs its scheduler() or a process, which no other CPU runs; a
\* scheduler() that does not run is in its call of swtch().
Placed ==
  /\ \A c \in CPUs : run[c] \in Procs \/ run[c] = c
  /\ \A c, d \in CPUs : run[c] = run[d] => c = d
  /\ \A p \in Procs : pc[p] \in {"new", "away"} <=> \A c \in CPUs : run[c] # p
  /\ \A c \in CPUs : pc[c] \notin {"new", "away"}
  /\ \A c \in CPUs : run[c] # c => pc[c] = "run" /\ ~InHandler(c)

\* What an interrupt can have interrupted; a new process is not a handler.
FrameAt(t) ==
  /\ saved[t].held = {} /\ saved[t].pc \in {"none", "loop", "run", "push"}
  /\ saved[t].pc = "loop" => t \in CPUs
  /\ saved[t].pc = "push" => saved[t].eflags
  /\ pc[t] = "loop" => t \in CPUs /\ ~InHandler(t)
Framed ==
  /\ \A t \in Threads : FrameAt(t)
  /\ \A p \in Procs : pc[p] = "new" => fresh[p] /\ ~InHandler(p)

\* A lock is locked while one thread has it.
Exclusive ==
  /\ \A t, u \in Threads : t # u => held[t] \cap held[u] = {}
  /\ \A l \in Locks : locked[l] <=> \E t \in Threads : l \in held[t]
  /\ \A t \in Threads : (\A c \in CPUs : run[c] # t) => held[t] = {}

\* lk->cpu is set from the end of acquire() to the start of release().
Marked(c, l) == l \in held[run[c]] /\ (pc[run[c]] \in {"own", "unlock"} => lk[run[c]] # l)
Marks == \A l \in Locks, c \in CPUs : c \in cpu[l] <=> Marked(c, l)

\* What acquire() and release() work on.
ArgsAt(t) ==
  /\ pc[t] \in {"push", "spin"} => lk[t] \notin held[t]
  /\ pc[t] \in {"own", "unlock"} => lk[t] \in held[t]
  /\ pc[t] = "loop" => held[t] = {}
Args == \A t \in Threads : ArgsAt(t)

\* scheduler() has no other lock than ptable.lock.
LoopAt(t) == t \in CPUs =>
  /\ saved[t].lk = ptable
  /\ ~InHandler(t) => /\ held[t] \subseteq {ptable} /\ lk[t] = ptable
                      /\ pc[t] = "pop" => held[t] = {}
Loops == \A t \in Threads : LoopAt(t)

\* ncli counts the locks, and the one about to be taken or just released.
Count(c) == Cardinality(held[run[c]]) + (IF pc[run[c]] \in {"spin", "pop"} THEN 1 ELSE 0)
CountAt(c) == IsFiniteSet(held[run[c]]) /\ ncli[c] = Count(c)
Counted == \A c \in CPUs : CountAt(c)

\* A handler wants interrupts off, a process that has been in user space wants
\* them on; FL_IF says so while ncli is 0, intena while it is not, and the
\* local variable of sched() while the process does not run.
Known(t) == InHandler(t) \/ (t \in Procs /\ ~fresh[t])
FlagsAt(c) ==
  /\ ncli[c] # 0 => ~FL_IF[c]
  /\ pc[run[c]] = "push" => (eflags[run[c]] <=> FL_IF[c])
  /\ Known(run[c]) /\ ncli[c] = 0 => (FL_IF[c] <=> ~InHandler(run[c]))
  /\ Known(run[c]) /\ ncli[c] # 0 => (intena[c] <=> ~InHandler(run[c]))
FlagsKept(p) == pc[p] = "away" /\ Known(p) => (kept[p] <=> ~InHandler(p))
Flags == (\A c \in CPUs : FlagsAt(c)) /\ (\A p \in Procs : FlagsKept(p))

\* The inductive invariant.
Inv == /\ Types /\ Placed /\ Framed /\ Exclusive /\ Marks /\ Args /\ Loops
       /\ Counted /\ Flags /\ ~panicked

-----------------------------------------------------------------------------
\* What the invariant says of the CPU that takes a step: ncli is 0 when it has
\* no lock and is not about to, lk->cpu is right for holding(), and interrupts
\* are on only outside critical sections and handlers.
LEMMA CpuFacts ==
  ASSUME ThreadAssumption, Inv, NEW c \in CPUs
  PROVE  /\ run[c] \in Threads /\ c \in Threads /\ ncli[c] \in Int
         /\ \A d \in CPUs : run[d] \in Threads /\ (d # c => run[d] # run[c])
         /\ ncli[c] >= 0
         /\ ncli[c] = 0 <=> held[run[c]] = {} /\ pc[run[c]] \notin {"spin", "pop"}
         /\ \A l \in Locks : holding(c, l) <=> Marked(c, l)
         /\ FL_IF[c] => /\ held[run[c]] = {} /\ ~InHandler(run[c])
                       /\ pc[run[c]] \in {"loop", "run", "push"}
<1>1. run[c] \in Threads /\ c \in Threads /\ ncli[c] \in Int BY Zenon DEF Inv, Types, Threads
<1>7. \A d \in CPUs : run[d] \in Threads /\ (d # c => run[d] # run[c])
  BY DEF Inv, Types, Placed
<1>2. /\ Cardinality(held[run[c]]) \in Nat
      /\ Cardinality(held[run[c]]) = 0 <=> held[run[c]] = {}
  BY Zenon, FS_EmptySet, FS_CardinalityType DEF Inv, Counted, CountAt
<1>3. ncli[c] >= 0 /\ (ncli[c] = 0 <=> held[run[c]] = {} /\ pc[run[c]] \notin {"spin", "pop"})
  BY <1>2 DEF Inv, Counted, CountAt, Count
<1>4. ASSUME NEW l \in Locks PROVE holding(c, l) <=> Marked(c, l)
  <2>1. c \in cpu[l] <=> Marked(c, l) BY Zenon DEF Inv, Marks
  <2>2. ASSUME c \in cpu[l] PROVE cpu[l] = {c} /\ locked[l]
    <3>1. ASSUME NEW d \in cpu[l] PROVE d = c
      <4>1. d \in CPUs /\ l \in held[run[d]] /\ l \in held[run[c]]
        BY Zenon, <2>2 DEF Inv, Types, Marks, Marked
      <4>2. run[d] = run[c] BY Zenon, <1>1, <4>1 DEF Inv, Exclusive, Types
      <4> QED BY Zenon, <4>1, <4>2 DEF Inv, Placed
    <3>2. l \in held[run[c]] BY Zenon, <2>1, <2>2 DEF Marked
    <3> QED BY <1>1, <2>2, <3>1, <3>2 DEF Inv, Exclusive
  <2> QED BY Zenon, <2>1, <2>2 DEF holding
<1>5. pc[run[c]] \notin {"new", "away"} BY Zenon DEF Inv, Placed
<1>6. FL_IF[c] => /\ held[run[c]] = {} /\ ~InHandler(run[c])
                  /\ pc[run[c]] \in {"loop", "run", "push"}
  <2>1. FL_IF[c] => ncli[c] = 0 /\ ~InHandler(run[c]) BY Zenon DEF Inv, Flags, FlagsAt, Known
  <2>2. pc[run[c]] \in PCs BY Zenon, <1>1 DEF Inv, Types
  <2>3. pc[run[c]] \in {"own", "unlock"} => held[run[c]] # {}
    BY Zenon, <1>1 DEF Inv, Args, ArgsAt
  <2> QED BY Zenon, <1>3, <1>5, <2>1, <2>2, <2>3 DEF PCs
<1> QED BY Zenon, <1>1, <1>3, <1>4, <1>6, <1>7

\* With one lock in hand, ncli is 1 and interrupts are off, as sched() demands.
LEMMA OneLock ==
  ASSUME ThreadAssumption, Inv, NEW c \in CPUs, NEW l, held[run[c]] = {l}, pc[run[c]] = "run"
  PROVE  ncli[c] = 1 /\ ~FL_IF[c]
<1>1. ncli[c] = Cardinality({l}) + 0 BY Zenon DEF Inv, Counted, CountAt, Count
<1>2. Cardinality({l}) = 1 BY Zenon, FS_Singleton
<1>3. ncli[c] = 1 BY <1>1, <1>2
<1> QED BY <1>3 DEF Inv, Flags, FlagsAt

\* A step of a CPU that keeps its thread: it changes nothing of the others.
Local(c) ==
  /\ run' = run /\ kept' = kept /\ pc'[run[c]] \notin {"new", "away"}
  /\ \A u \in Threads : u # run[c] =>
       pc'[u] = pc[u] /\ lk'[u] = lk[u] /\ eflags'[u] = eflags[u]
       /\ saved'[u] = saved[u] /\ held'[u] = held[u]
  /\ \A d \in CPUs : d # c =>
       ncli'[d] = ncli[d] /\ intena'[d] = intena[d] /\ FL_IF'[d] = FL_IF[d]
  /\ \A q \in Procs : q # run[c] => fresh'[q] = fresh[q]

\* Such a step keeps the invariant if it does so for its own CPU and thread.
LEMMA LocalStep ==
  ASSUME ThreadAssumption, Inv, NEW c \in CPUs, Local(c), Types', Exclusive', Marks',
         FrameAt(run[c])', ArgsAt(run[c])', LoopAt(run[c])', CountAt(c)', FlagsAt(c)',
         ~panicked'
  PROVE  Inv'
<1>a. /\ run[c] \in Threads /\ c \in Threads
      /\ \A d \in CPUs : run[d] \in Threads /\ (d # c => run[d] # run[c])
  BY Zenon, CpuFacts
<1>1. Placed' BY <1>a DEF Local, Inv, Placed, InHandler, ThreadAssumption, Threads
<1>2. Framed' BY <1>a DEF Local, Inv, Framed, FrameAt, InHandler, Threads
<1>3. Args' /\ Loops' BY <1>a DEF Local, Inv, Args, ArgsAt, Loops, LoopAt, InHandler
<1>4. Counted' BY <1>a DEF Local, Inv, Counted, CountAt, Count
<1>5. ASSUME NEW d \in CPUs PROVE FlagsAt(d)'
  BY <1>a DEF Local, Inv, Flags, FlagsAt, Known, InHandler
<1>6. ASSUME NEW q \in Procs PROVE FlagsKept(q)'
  BY <1>a DEF Local, Inv, Flags, FlagsKept, Known, InHandler, Threads
<1> QED BY Zenon, <1>1, <1>2, <1>3, <1>4, <1>5, <1>6 DEF Inv, Flags

\* readeflags() of acquire() keeps the invariant.
LEMMA AcquireStep ==
  ASSUME ThreadAssumption, Inv, NEW c \in CPUs, NEW l \in Locks, Acquire(c, l)
  PROVE  Inv'
<1> DEFINE t == run[c]
<1>a. /\ t \in Threads /\ c \in Threads
      /\ \A d \in CPUs : run[d] \in Threads /\ (d # c => run[d] # t)
  BY Zenon, CpuFacts
<1>1. /\ pc[t] = "run" /\ l \notin held[t] /\ (Schedules(c) => l = ptable)
      /\ pc'[t] = "push" /\ lk'[t] = l /\ eflags'[t] = FL_IF[c]
      /\ run' = run /\ saved' = saved /\ held' = held /\ locked' = locked /\ cpu' = cpu
      /\ ncli' = ncli /\ intena' = intena /\ FL_IF' = FL_IF /\ fresh' = fresh
  BY Zenon, <1>a DEF Inv, Types, Acquire, At, Goto, cpuVars, lockVars
<1>2. Types'
  BY Zenon, <1>a, <1>1 DEF Inv, Types, PCs, ThreadAssumption, Acquire, At, Goto, cpuVars,
     lockVars
<1>3. Local(c) BY Zenon, <1>a, <1>1 DEF Local, Inv, Types, Acquire, At, Goto, cpuVars, lockVars
<1>4. Exclusive' BY Zenon, <1>1 DEF Inv, Exclusive
<1>5. Marks' BY SMTT(20), <1>a, <1>1, <1>3 DEF Inv, Marks, Marked, Local
<1>6. FrameAt(t)' /\ ArgsAt(t)' /\ LoopAt(t)'
  <2>1. FrameAt(t)' BY Zenon, <1>a, <1>1 DEF Inv, Framed, FrameAt, InHandler
  <2>2. ArgsAt(t)' BY Zenon, <1>1 DEF ArgsAt
  <2>3. ASSUME t \in CPUs, ~InHandler(t) PROVE l = ptable
    BY <1>1, <2>3 DEF Inv, Placed, Schedules, InHandler, ThreadAssumption
  <2>4. LoopAt(t)' BY Zenon, <1>a, <1>1, <2>3 DEF Inv, Loops, LoopAt, InHandler
  <2> QED BY Zenon, <2>1, <2>2, <2>4
<1>7. CountAt(c)' BY Zenon, <1>1 DEF Inv, Counted, CountAt, Count
<1>8. FlagsAt(c)' BY Zenon, <1>1 DEF Inv, Flags, FlagsAt, Known, InHandler
<1>9. ~panicked' BY Zenon DEF Inv, Acquire
<1> QED BY Zenon, <1>2, <1>3, <1>4, <1>5, <1>6, <1>7, <1>8, <1>9, LocalStep

\* cli() and the count of pushcli() keep the invariant; acquire() does not panic.
LEMMA PushcliStep ==
  ASSUME ThreadAssumption, Inv, NEW c \in CPUs, Pushcli(c)
  PROVE  Inv'
<1> DEFINE t == run[c]
<1>a. /\ t \in Threads /\ c \in Threads
      /\ \A d \in CPUs : run[d] \in Threads /\ (d # c => run[d] # t)
  BY Zenon, CpuFacts
<1>b. ncli[c] \in Int /\ ncli[c] >= 0 /\ ncli[c] + 1 # 0 BY CpuFacts
<1>1. /\ pc[t] = "push" /\ pc'[t] = "spin" /\ ncli'[c] = ncli[c] + 1 /\ FL_IF'[c] = FALSE
      /\ (ncli[c] = 0 => intena'[c] = eflags[t]) /\ (ncli[c] # 0 => intena'[c] = intena[c])
      /\ run' = run /\ saved' = saved /\ held' = held /\ locked' = locked /\ cpu' = cpu
      /\ lk' = lk /\ fresh' = fresh
  BY Zenon, <1>a, <1>b DEF Inv, Types, Pushcli, pushcli, At, Goto, lockVars
<1>2. Types'
  <2>1. intena' \in [CPUs -> BOOLEAN] /\ ncli' \in [CPUs -> Int]
    BY <1>a DEF Inv, Types, Pushcli, pushcli
  <2> QED BY Zenon, <1>a, <2>1 DEF Inv, Types, PCs, Pushcli, pushcli, Goto, lockVars
<1>3. Local(c) BY Zenon, <1>a, <1>1 DEF Local, Inv, Types, Pushcli, pushcli, At, Goto, lockVars
<1>4. Exclusive' BY Zenon, <1>1 DEF Inv, Exclusive
<1>5. Marks' BY SMTT(20), <1>a, <1>1, <1>3 DEF Inv, Marks, Marked, Local
<1>6. FrameAt(t)' /\ ArgsAt(t)' /\ LoopAt(t)'
  BY Zenon, <1>a, <1>1 DEF Inv, Framed, FrameAt, Args, ArgsAt, Loops, LoopAt, InHandler
<1>7. CountAt(c)'
  <2>1. IsFiniteSet(held[t]) /\ ncli[c] = Cardinality(held[t]) + 0
    BY Zenon, <1>1 DEF Inv, Counted, CountAt, Count
  <2>2. Cardinality(held[t]) \in Nat BY Zenon, <2>1, FS_CardinalityType
  <2> QED BY <1>1, <2>1, <2>2 DEF CountAt, Count
<1>8. FlagsAt(c)' BY Zenon, <1>1, <1>b DEF Inv, Flags, FlagsAt, Known, InHandler
<1>9. ~panicked'
  <2>1. ~Marked(c, lk[t]) /\ lk[t] \in Locks
    BY Zenon, <1>a, <1>1 DEF Inv, Types, Args, ArgsAt, Marked
  <2> QED BY Zenon, <2>1, CpuFacts DEF Pushcli
<1> QED BY <1>2, <1>3, <1>4, <1>5, <1>6, <1>7, <1>8, <1>9, LocalStep

\* Taking a lock keeps the invariant: no other thread had it.
LEMMA XchgStep ==
  ASSUME ThreadAssumption, Inv, NEW c \in CPUs, Xchg(c)
  PROVE  Inv'
<1> DEFINE t == run[c]
<1>a. /\ t \in Threads /\ c \in Threads
      /\ \A d \in CPUs : run[d] \in Threads /\ (d # c => run[d] # t)
  BY Zenon, CpuFacts
<1>b. lk[t] \in Locks /\ \A u \in Threads : lk[t] \notin held[u]
  BY <1>a DEF Inv, Types, Exclusive, Xchg
<1>1. /\ pc[t] = "spin" /\ pc'[t] = "own" /\ held'[t] = held[t] \cup {lk[t]}
      /\ \A m \in Locks : locked'[m] <=> m = lk[t] \/ locked[m]
      /\ run' = run /\ saved' = saved /\ cpu' = cpu /\ lk' = lk /\ fresh' = fresh
      /\ ncli' = ncli /\ intena' = intena /\ FL_IF' = FL_IF
  BY Zenon, <1>a, <1>b DEF Inv, Types, Xchg, At, Goto, cpuVars
<1>2. Types' BY <1>a, <1>1 DEF Inv, Types, PCs, ThreadAssumption, Xchg, At, Goto, cpuVars
<1>3. Local(c) BY SMTT(20), <1>a, <1>1 DEF Local, Inv, Types, Xchg, At, Goto, cpuVars
<1>4. Exclusive'
  <2>1. \A u, v \in Threads : u # v => held'[u] \cap held'[v] = {}
    BY <1>1, <1>3, <1>b DEF Inv, Exclusive, Local
  <2>2. \A m \in Locks : locked'[m] <=> \E u \in Threads : m \in held'[u]
    BY <1>a, <1>1, <1>3 DEF Inv, Exclusive, Local
  <2>3. ASSUME NEW u \in Threads, \A d \in CPUs : run'[d] # u PROVE held'[u] = {}
    <3>1. u # t /\ \A d \in CPUs : run[d] # u BY Zenon, <1>1, <2>3
    <3> QED BY Zenon, <1>3, <3>1 DEF Inv, Exclusive, Local
  <2> QED BY Zenon, <2>1, <2>2, <2>3 DEF Exclusive
<1>5. Marks' BY SMTT(20), <1>a, <1>1, <1>3, <1>b DEF Inv, Marks, Marked, Local
<1>6. FrameAt(t)' /\ ArgsAt(t)' /\ LoopAt(t)'
  BY Zenon, <1>a, <1>1 DEF Inv, Framed, FrameAt, ArgsAt, Loops, LoopAt, InHandler
<1>7. CountAt(c)'
  <2>1. IsFiniteSet(held[t]) /\ ncli[c] = Cardinality(held[t]) + 1
    BY Zenon, <1>1 DEF Inv, Counted, CountAt, Count
  <2>2. /\ IsFiniteSet(held[t] \cup {lk[t]})
        /\ Cardinality(held[t] \cup {lk[t]}) = Cardinality(held[t]) + 1
    BY Zenon, <1>a, <1>b, <2>1, FS_AddElement
  <2>3. Cardinality(held[t]) \in Nat BY Zenon, <2>1, FS_CardinalityType
  <2>4. Count(c)' = Cardinality(held[t] \cup {lk[t]}) + 0 BY Zenon, <1>1 DEF Count
  <2>5. ncli'[c] = Count(c)' BY <1>1, <2>1, <2>2, <2>3, <2>4
  <2> QED BY Zenon, <1>1, <2>2, <2>5 DEF CountAt
<1>8. FlagsAt(c)' BY Zenon, <1>1 DEF Inv, Flags, FlagsAt, Known, InHandler
<1>9. ~panicked' BY Zenon DEF Inv, Xchg
<1> QED BY Zenon, <1>2, <1>3, <1>4, <1>5, <1>6, <1>7, <1>8, <1>9, LocalStep

\* Setting lk->cpu keeps the invariant.
LEMMA OwnStep ==
  ASSUME ThreadAssumption, Inv, NEW c \in CPUs, Own(c)
  PROVE  Inv'
<1> DEFINE t == run[c]
<1>a. /\ t \in Threads /\ c \in Threads
      /\ \A d \in CPUs : run[d] \in Threads /\ (d # c => run[d] # t)
  BY Zenon, CpuFacts
<1>b. lk[t] \in Locks /\ lk[t] \in held[t] BY Zenon, <1>a DEF Inv, Types, Args, ArgsAt, Own, At
<1>1. /\ pc[t] = "own" /\ pc'[t] = "run" /\ lk'[t] = ptable /\ lk[t] \in held[t]
      /\ \A m \in Locks : cpu'[m] = IF m = lk[t] THEN {c} ELSE cpu[m]
      /\ run' = run /\ saved' = saved /\ held' = held /\ locked' = locked /\ fresh' = fresh
      /\ ncli' = ncli /\ intena' = intena /\ FL_IF' = FL_IF
  BY Zenon, <1>a, <1>b DEF Inv, Types, Own, At, Goto, cpuVars
<1>2. Types' BY <1>a, <1>1 DEF Inv, Types, PCs, ThreadAssumption, Own, At, Goto, cpuVars
<1>3. Local(c) BY SMTT(20), <1>a, <1>1 DEF Local, Inv, Types, Own, At, Goto, cpuVars
<1>4. Exclusive' BY Zenon, <1>1 DEF Inv, Exclusive
<1>5. Marks'
  <2>1. \A d \in CPUs : d # c => lk[t] \notin held[run[d]]
    BY Zenon, <1>a, <1>1 DEF Inv, Exclusive
  <2> QED BY <1>a, <1>1, <1>3, <2>1 DEF Inv, Marks, Marked, Local
<1>6. FrameAt(t)' /\ ArgsAt(t)' /\ LoopAt(t)'
  BY Zenon, <1>a, <1>1 DEF Inv, Framed, FrameAt, Args, ArgsAt, Loops, LoopAt, InHandler
<1>7. CountAt(c)' BY Zenon, <1>1 DEF Inv, Counted, CountAt, Count
<1>8. FlagsAt(c)' BY Zenon, <1>1 DEF Inv, Flags, FlagsAt, Known, InHandler
<1>9. ~panicked' BY Zenon DEF Inv, Own
<1> QED BY Zenon, <1>2, <1>3, <1>4, <1>5, <1>6, <1>7, <1>8, <1>9, LocalStep

\* An interrupt comes only outside critical sections and handlers.
LEMMA InterruptStep ==
  ASSUME ThreadAssumption, Inv, NEW c \in CPUs, Interrupt(c)
  PROVE  Inv'
<1> DEFINE t == run[c]
<1>a. /\ t \in Threads /\ c \in Threads
      /\ \A d \in CPUs : run[d] \in Threads /\ (d # c => run[d] # t)
  BY Zenon, CpuFacts
<1>b. /\ held[t] = {} /\ ~InHandler(t) /\ ncli[c] = 0 /\ FL_IF[c]
      /\ pc[t] \in {"loop", "run", "push"}
  BY Zenon, CpuFacts DEF Interrupt
<1>1. /\ pc'[t] = "run" /\ lk'[t] = ptable /\ FL_IF'[c] = FALSE /\ held' = held
      /\ saved'[t] = [pc |-> pc[t], lk |-> lk[t], eflags |-> eflags[t], held |-> held[t]]
      /\ run' = run /\ locked' = locked /\ cpu' = cpu
      /\ ncli' = ncli /\ intena' = intena /\ fresh' = fresh
  BY Zenon, <1>a, <1>b DEF Inv, Types, Interrupt, Goto, lockVars
<1>2. Types'
  BY <1>a, <1>1 DEF Inv, Types, PCs, ThreadAssumption, Interrupt, Goto, lockVars
<1>3. Local(c) BY Zenon, <1>a, <1>1 DEF Local, Inv, Types, Interrupt, Goto, lockVars
<1>4. Exclusive' BY Zenon, <1>1 DEF Inv, Exclusive
<1>5. Marks'
  <2>1. ASSUME NEW l \in Locks, NEW d \in CPUs PROVE Marked(d, l)' <=> Marked(d, l)
    <3>1. CASE d = c BY Zenon, <1>1, <1>b, <3>1 DEF Marked
    <3>2. CASE d # c
      <4>1. pc'[run[d]] = pc[run[d]] /\ lk'[run[d]] = lk[run[d]]
        BY Zenon, <1>a, <1>3, <3>2 DEF Local
      <4>2. run'[d] = run[d] /\ held'[run[d]] = held[run[d]] BY Zenon, <1>1
      <4> QED BY Zenon, <4>1, <4>2 DEF Marked
    <3> QED BY <3>1, <3>2
  <2> QED BY Zenon, <1>1, <2>1 DEF Inv, Marks
<1>6. FrameAt(t)' /\ ArgsAt(t)' /\ LoopAt(t)'
  <2>1. pc[t] = "push" => eflags[t] BY Zenon, <1>b DEF Inv, Flags, FlagsAt
  <2> QED
    BY <1>a, <1>1, <1>b, <2>1 DEF Inv, Framed, FrameAt, ArgsAt, Loops, LoopAt, InHandler
<1>7. CountAt(c)' BY Zenon, <1>1, <1>b DEF Inv, Counted, CountAt, Count
<1>8. FlagsAt(c)'
  <2>1. InHandler(run[c])' /\ pc'[run'[c]] # "push" BY <1>1, <1>b DEF InHandler
  <2>2. ncli'[c] = 0 /\ ~FL_IF'[c] BY Zenon, <1>1, <1>b
  <2> QED BY Zenon, <2>1, <2>2 DEF FlagsAt
<1>9. ~panicked' BY Zenon DEF Inv, Interrupt
<1> QED BY Zenon, <1>2, <1>3, <1>4, <1>5, <1>6, <1>7, <1>8, <1>9, LocalStep

\* A return from a handler keeps the invariant: interrupts are on again.
LEMMA IretStep ==
  ASSUME ThreadAssumption, Inv, NEW c \in CPUs, Iret(c)
  PROVE  Inv'
<1> DEFINE t == run[c]
<1>a. /\ t \in Threads /\ c \in Threads
      /\ \A d \in CPUs : run[d] \in Threads /\ (d # c => run[d] # t)
  BY Zenon, CpuFacts
<1>b. /\ pc[t] = "run" /\ InHandler(t) /\ held[t] = {} /\ ncli[c] = 0
      /\ saved[t].held = {} /\ saved[t].pc \in {"loop", "run", "push"}
  BY Zenon, <1>a, CpuFacts DEF Inv, Framed, FrameAt, InHandler, Iret, At
<1>1. /\ pc'[t] = saved[t].pc /\ lk'[t] = saved[t].lk /\ eflags'[t] = saved[t].eflags
      /\ saved'[t] = [pc |-> "none", lk |-> ptable, eflags |-> FALSE, held |-> {}]
      /\ run' = run /\ held' = held /\ locked' = locked /\ cpu' = cpu /\ FL_IF'[c] = TRUE
      /\ ncli' = ncli /\ intena' = intena /\ fresh' = fresh
  BY Zenon, <1>a, <1>b DEF Inv, Types, Iret, At, NoFrame, lockVars
<1>2. Types'
  <2>1. saved' \in [Threads -> [pc : PCs \cup {"none"}, lk : Locks, eflags : BOOLEAN,
                                held : SUBSET Locks]]
    BY Zenon, <1>a DEF Inv, Types, Iret, NoFrame, ThreadAssumption
  <2>2. /\ pc' \in [Threads -> PCs] /\ lk' \in [Threads -> Locks]
        /\ eflags' \in [Threads -> BOOLEAN]
    BY Zenon, <1>a, <1>b DEF Inv, Types, PCs, Iret
  <2> QED BY <1>1, <2>1, <2>2 DEF Inv, Types, Iret
<1>3. Local(c) BY <1>a, <1>b, <1>1 DEF Local, Inv, Types, Iret, At, NoFrame, lockVars
<1>4. Exclusive' BY Zenon, <1>1 DEF Inv, Exclusive
<1>5. Marks'
  <2>1. ASSUME NEW l \in Locks, NEW d \in CPUs PROVE Marked(d, l)' <=> Marked(d, l)
    <3>1. CASE d = c BY Zenon, <1>1, <1>b, <3>1 DEF Marked
    <3>2. CASE d # c
      <4>1. pc'[run[d]] = pc[run[d]] /\ lk'[run[d]] = lk[run[d]]
        BY Zenon, <1>a, <1>3, <3>2 DEF Local
      <4>2. run'[d] = run[d] /\ held'[run[d]] = held[run[d]] BY Zenon, <1>1
      <4> QED BY Zenon, <4>1, <4>2 DEF Marked
    <3> QED BY <3>1, <3>2
  <2> QED BY Zenon, <1>1, <2>1 DEF Inv, Marks
<1>6. FrameAt(t)' /\ ArgsAt(t)' /\ LoopAt(t)'
  <2>1. FrameAt(t) BY Zenon, <1>a DEF Inv, Framed
  <2>2. run' = run /\ saved'[t].held = {} /\ saved'[t].pc = "none" BY <1>1
  <2>3. FrameAt(t)'
    <3>1. pc'[t] = "loop" => t \in CPUs BY Zenon, <1>1, <2>1 DEF FrameAt
    <3> QED BY <2>2, <3>1 DEF FrameAt, InHandler
  <2>4. ArgsAt(t)'
    <3>1. held'[t] = {} /\ pc'[t] \notin {"own", "unlock"} BY <1>1, <1>b
    <3> QED BY Zenon, <2>2, <3>1 DEF ArgsAt
  <2>5. LoopAt(t)' BY <1>a, <1>1, <1>b DEF Inv, Loops, LoopAt, InHandler
  <2> QED BY Zenon, <2>3, <2>4, <2>5
<1>7. CountAt(c)' BY Zenon, <1>1, <1>b DEF Inv, Counted, CountAt, Count
<1>8. FlagsAt(c)'
  <2>1. pc'[t] = "push" => eflags'[t] = TRUE
    BY Zenon, <1>a, <1>1 DEF Inv, Types, Framed, FrameAt
  <2> QED BY <1>1, <1>b, <2>1 DEF FlagsAt, InHandler
<1>9. ~panicked' BY Zenon DEF Inv, Iret
<1> QED BY Zenon, <1>2, <1>3, <1>4, <1>5, <1>6, <1>7, <1>8, <1>9, LocalStep
=============================================================================
