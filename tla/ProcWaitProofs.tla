--------------------------- MODULE ProcWaitProofs ---------------------------
(***************************************************************************)
(* The parts of ProcInv about parents, wait() and pids are kept by every   *)
(* step of Proc.                                                           *)
(***************************************************************************)
EXTENDS ProcThreadProofs
-----------------------------------------------------------------------------
\* exit() hands every child to initproc in the step in which the parent dies,
\* and initproc never does.
LEMMA ParentInvStep ==
  ASSUME ProcInv, [Next /\ ~Refusal]_vars PROVE ParentInv'
<1> DEFINE Alive == {"RUNNABLE", "SLEEPING", "RUNNING"}
<1>0. ParentInv
  BY DEF ProcInv
<1>a. \A c \in CPUs : cproc[c] # 0 => cproc[c] \in Slots
                                      /\ state[cproc[c]] = "RUNNING"
  BY OnCPU
<1>1. ASSUME \A q \in Slots : state[q] \in Alive => state'[q] \in Alive,
             \A q \in Slots : state'[q] \in Alive \cup {"ZOMBIE"} =>
                state[q] \in Alive \cup {"ZOMBIE"} /\ parent'[q] = parent[q]
      PROVE  ParentInv'
  BY <1>0, <1>1, Types DEF ParentInv, ParentsAlive
<1>3. CASE Quiet
  BY <1>0, <1>3, Zenon DEF Quiet, ParentInv, ParentsAlive
<1>4. ASSUME NEW c \in CPUs, SchedRun(c) PROVE ParentInv'
  <2>1. PICK h \in Slots : /\ state[h] = "RUNNABLE"
                           /\ state' = [state EXCEPT ![h] = "RUNNING"]
    BY <1>4, RunStep, Zenon
  <2> QED
    BY <1>1, <1>4, <2>1, RunStep, Types, Zenon
<1>5. ASSUME NEW c \in CPUs, ForkAlloc(c) PROVE ParentInv'
  <2>1. CASE state' = state /\ pc' = [pc EXCEPT ![cproc[c]] = "ret_fail"]
    BY Zenon, <1>1, <1>5, <2>1, AllocStep, Types
  <2>2. ASSUME NEW q \in Slots, state[q] = "UNUSED",
               state' = [state EXCEPT ![q] = "EMBRYO"],
               pc' = [pc EXCEPT ![cproc[c]] = "fork_build", ![q] = "forkret"]
        PROVE  ParentInv'
    BY <1>1, <1>5, <2>2, AllocStep, Types
  <2> QED
    BY <1>5, <2>1, <2>2, AllocStep, Zenon
<1>6. ASSUME NEW c \in CPUs, ForkBuild(c) PROVE ParentInv'
  <2>1. np[cproc[c]] \in Slots /\ state[np[cproc[c]]] = "EMBRYO"
    BY <1>a, <1>6, Types DEF ForkBuild, At, ProcInv, ForkInv
  <2> QED
    BY <1>1, <1>6, <2>1, Types DEF ForkBuild
<1>7. ASSUME NEW c \in CPUs, ForkPublish(c) PROVE ParentInv'
  <2>1. /\ cproc[c] \in Slots /\ state[cproc[c]] = "RUNNING"
        /\ np[cproc[c]] \in Slots /\ state[np[cproc[c]]] = "EMBRYO"
        /\ parent[np[cproc[c]]] = cproc[c]
    BY <1>a, <1>7, Types DEF ForkPublish, At, ProcInv, ForkInv
  <2>2. /\ state' = [state EXCEPT ![np[cproc[c]]] = "RUNNABLE"]
        /\ parent' = parent
    BY <1>7 DEF ForkPublish
  <2> QED
    BY <1>0, <2>1, <2>2, Types DEF ParentInv, ParentsAlive
<1>8. ASSUME NEW c \in CPUs, Exit(c) PROVE ParentInv'
  <2> DEFINE p == cproc[c]
  <2>1. p \in Slots /\ state[p] = "RUNNING" /\ p # initproc
    BY <1>a, <1>8 DEF Exit
  <2>2. /\ state'[p] = "ZOMBIE"
        /\ \A q \in Slots \ {p} : state'[q] = state[q] \/
              (state[q] = "SLEEPING" /\ state'[q] = "RUNNABLE")
        /\ \A q \in Slots : parent'[q] = IF parent[q] = p THEN initproc
                                         ELSE parent[q]
    BY <1>8, <2>1, Types DEF Exit, Woken, Kids
  <2> HIDE DEF p
  <2>3. state'[initproc] \in Alive
    BY <1>0, <2>1, <2>2, Types DEF ParentInv
  <2>4. ASSUME NEW q \in Slots \ {initproc}, state'[q] \in Alive \cup {"ZOMBIE"}
        PROVE  /\ parent'[q] # 0 /\ parent'[q] # q
               /\ state'[parent'[q]] \in Alive
    <3>1. /\ parent[q] # 0 /\ parent[q] # q /\ parent[q] \in Slots
          /\ state[parent[q]] \in Alive
      BY <1>0, <2>1, <2>2, <2>4, Types DEF ParentInv, ParentsAlive
    <3> QED
      BY <2>1, <2>2, <2>3, <3>1, Types
  <2> QED
    BY <2>3, <2>4 DEF ParentInv, ParentsAlive
<1>9. ASSUME NEW c \in CPUs, WaitReap(c) PROVE ParentInv'
  <2>1. PICK q \in Slots : /\ state[q] = "ZOMBIE"
                           /\ state' = [state EXCEPT ![q] = "UNUSED"]
                           /\ parent' = [parent EXCEPT ![q] = 0]
    BY <1>9, Zenon DEF WaitReap, Zombies, Kids
  <2> QED
    BY <1>1, <2>1, Types
<1>10. ASSUME NEW c \in CPUs, WaitSleep(c) PROVE ParentInv'
  BY Zenon, <1>1, <1>a, <1>10, Types DEF WaitSleep, InWait, At
<1>11. ASSUME NEW c \in CPUs, Kill(c) PROVE ParentInv'
  BY <1>1, <1>11, Types DEF Kill, KillWakes
<1>12. ASSUME NEW c \in CPUs, SleepSched(c) PROVE ParentInv'
  BY <1>1, <1>a, <1>12, Types DEF SleepSched, At
<1>13. ASSUME NEW c \in CPUs, Yield(c) PROVE ParentInv'
  BY <1>1, <1>a, <1>13, Types DEF Yield, InTrap
<1>14. CASE TickWakeup
  BY <1>1, <1>14, Types DEF TickWakeup, Woken
<1> QED
  BY Zenon, <1>3, <1>4, <1>5, <1>6, <1>7, <1>8, <1>9, <1>10, <1>11, <1>12, <1>13,
     <1>14, StepCases

\* No lost wakeup in wait(): the parent tests for a ZOMBIE and goes to sleep in
\* one critical section, and a child that becomes a ZOMBIE, or is handed over as
\* one, wakes the parent in the same step.
LEMMA WaitInvStep ==
  ASSUME ProcInv, [Next /\ ~Refusal]_vars PROVE WaitInv'
<1>0. WaitInv /\ ThreadInv
  BY DEF ProcInv
<1>a. \A c \in CPUs : cproc[c] # 0 => cproc[c] \in Slots
                                      /\ state[cproc[c]] = "RUNNING"
  BY OnCPU
\* A step preserves WaitInv if it puts nobody to sleep in wait(), kills no
\* sleeper, takes no child from one and makes no ZOMBIE.
<1>1. ASSUME \A q \in Slots : state'[q] = "SLEEPING" /\ pc'[q] = "wait_sleep" =>
                state[q] = "SLEEPING" /\ pc[q] = "wait_sleep"
                /\ killed'[q] = killed[q],
             \A q \in Slots : state'[q] = "ZOMBIE" => state[q] = "ZOMBIE",
             \A q \in Slots : parent'[q] = parent[q]
      PROVE  WaitInv'
  <2> SUFFICES ASSUME NEW p \in Slots, state'[p] = "SLEEPING", pc'[p] = "wait_sleep"
               PROVE  /\ \E q \in Slots : parent'[q] = p
                      /\ \A q \in Slots : parent'[q] = p => state'[q] # "ZOMBIE"
                      /\ ~killed'[p]
    BY Zenon DEF WaitInv
  <2>1. /\ state[p] = "SLEEPING" /\ pc[p] = "wait_sleep" /\ killed'[p] = killed[p]
    BY <1>1, Zenon
  <2>2. /\ \E q \in Slots : parent[q] = p
        /\ \A q \in Slots : parent[q] = p => state[q] # "ZOMBIE"
        /\ ~killed[p]
    BY <1>0, <2>1, Zenon DEF WaitInv
  <2> QED
    BY <1>1, <2>1, <2>2, Zenon
<1>3. CASE Quiet
  BY Zenon, <1>1, <1>3 DEF Quiet
<1>4. ASSUME NEW c \in CPUs, SchedRun(c) PROVE WaitInv'
  <2>1. PICK h \in Slots : /\ state[h] = "RUNNABLE"
                           /\ state' = [state EXCEPT ![h] = "RUNNING"]
    BY <1>4, RunStep, Zenon
  <2> QED
    BY <1>1, <1>4, <2>1, RunStep, Types, Zenon
<1>5. ASSUME NEW c \in CPUs, ForkAlloc(c) PROVE WaitInv'
  <2>1. CASE UNCHANGED procVars /\ pc' = [pc EXCEPT ![cproc[c]] = "ret_fail"]
    BY <1>1, <2>1, Types DEF procVars
  <2>2. ASSUME NEW q \in Slots, state[q] = "UNUSED",
               state' = [state EXCEPT ![q] = "EMBRYO"],
               pc' = [pc EXCEPT ![cproc[c]] = "fork_build", ![q] = "forkret"],
               UNCHANGED <<parent, killed>>
        PROVE  WaitInv'
    BY <1>1, <2>2, Types
  <2> QED
    BY Zenon, <1>5, <2>1, <2>2 DEF ForkAlloc, Goto
<1>6. ASSUME NEW c \in CPUs, ForkBuild(c) PROVE WaitInv'
  <2> DEFINE q == np[cproc[c]]
  <2>1. /\ cproc[c] \in Slots /\ state[cproc[c]] = "RUNNING"
        /\ q \in Slots /\ state[q] = "EMBRYO" /\ parent[q] = 0
    BY <1>a, <1>6, Types DEF ForkBuild, At, ProcInv, ForkInv
  <2>2. /\ killed' = killed
        /\ state' \in {state, [state EXCEPT ![q] = "UNUSED"]}
        /\ parent' \in {parent, [parent EXCEPT ![q] = cproc[c]]}
        /\ pc'[cproc[c]] # "wait_sleep"
        /\ \A r \in Slots \ {cproc[c]} : pc'[r] = pc[r]
    BY <1>6, <2>1, Types DEF ForkBuild, Goto
  <2> HIDE DEF q
  <2>3. ASSUME NEW p \in Slots, state'[p] = "SLEEPING", pc'[p] = "wait_sleep"
        PROVE  /\ \E r \in Slots : parent'[r] = p
               /\ \A r \in Slots : parent'[r] = p => state'[r] # "ZOMBIE"
               /\ ~killed'[p]
    <3>1. p # cproc[c] /\ state[p] = "SLEEPING" /\ pc[p] = "wait_sleep"
      BY <2>1, <2>2, <2>3, Types
    <3>2. PICK r \in Slots : parent[r] = p
      BY <1>0, <3>1 DEF WaitInv
    <3>3. parent'[r] = p
      BY <2>1, <2>2, <3>2, Types
    <3>4. \A s \in Slots : parent'[s] = p => state'[s] # "ZOMBIE"
      BY <1>0, <2>1, <2>2, <3>1, Types DEF WaitInv
    <3> QED
      BY <1>0, <2>2, <3>1, <3>3, <3>4, Zenon DEF WaitInv
  <2> QED
    BY <2>3 DEF WaitInv
<1>7. ASSUME NEW c \in CPUs, ForkPublish(c) PROVE WaitInv'
  BY <1>1, <1>7, Types DEF ForkPublish, Goto
<1>8. ASSUME NEW c \in CPUs, Exit(c) PROVE WaitInv'
  <2> DEFINE x == cproc[c]
             wake == {parent[x]} \cup IF Zombies(x) = {} THEN {} ELSE {initproc}
  <2>1. /\ x \in Slots /\ state[x] = "RUNNING" /\ x # initproc
        /\ parent[x] # x /\ parent[x] \in Slots
    BY Zenon, <1>a, <1>8, Types DEF Exit, ProcInv, ParentInv, ParentsAlive
  <2>2. /\ state' = [Woken(wake) EXCEPT ![x] = "ZOMBIE"] /\ killed' = killed
        /\ \A q \in Slots : parent'[q] = IF parent[q] = x THEN initproc
                                         ELSE parent[q]
        /\ pc' = [pc EXCEPT ![x] = "zombie"]
    BY Zenon, <1>8, Types DEF Exit, Kids, Goto
  <2>3. /\ state'[x] = "ZOMBIE"
        /\ \A q \in Slots \ {x} : state'[q] = IF state[q] = "SLEEPING"
                                                 /\ chan[q] \in wake
                                              THEN "RUNNABLE" ELSE state[q]
    BY Zenon, <2>1, <2>2, Types DEF Woken
  <2>4. \A q \in Slots : parent[q] = x /\ state[q] = "ZOMBIE" => initproc \in wake
    BY DEF Zombies, Kids
  <2> HIDE DEF x, wake
  <2>5. ASSUME NEW p \in Slots, state'[p] = "SLEEPING", pc'[p] = "wait_sleep"
        PROVE  /\ \E r \in Slots : parent'[r] = p
               /\ \A r \in Slots : parent'[r] = p => state'[r] # "ZOMBIE"
               /\ ~killed'[p]
    <3>1. /\ p # x /\ state[p] = "SLEEPING" /\ pc[p] = "wait_sleep"
          /\ chan[p] \notin wake
      BY <2>2, <2>3, <2>5, Types
    <3>2. chan[p] = p
      BY <1>0, <3>1 DEF ThreadInv
    <3>3. PICK r \in Slots : parent[r] = p
      BY <1>0, <3>1 DEF WaitInv
    <3>4. parent'[r] = p
      BY <2>2, <3>1, <3>3
    <3>5. ASSUME NEW s \in Slots, parent'[s] = p PROVE state'[s] # "ZOMBIE"
      <4>1. CASE parent[s] = x
        BY <2>1, <2>2, <2>3, <2>4, <3>1, <3>2, <3>5, <4>1
      <4>2. CASE parent[s] # x
        <5>1. parent[s] = p /\ state[s] # "ZOMBIE"
          BY <1>0, <2>2, <3>1, <3>5, <4>2, Zenon DEF WaitInv
        <5>2. s # x
          BY Zenon, <3>1, <3>2, <5>1 DEF wake
        <5> QED
          BY <2>3, <5>1, <5>2
      <4> QED
        BY <4>1, <4>2
    <3> QED
      BY <1>0, <2>2, <3>1, <3>4, <3>5, Zenon DEF WaitInv
  <2> QED
    BY <2>5 DEF WaitInv
<1>9. ASSUME NEW c \in CPUs, WaitReap(c) PROVE WaitInv'
  <2>1. PICK q \in Slots : /\ state[q] = "ZOMBIE" /\ parent[q] = cproc[c]
                           /\ state' = [state EXCEPT ![q] = "UNUSED"]
                           /\ parent' = [parent EXCEPT ![q] = 0]
                           /\ killed' = [killed EXCEPT ![q] = FALSE]
    BY <1>9, Zenon DEF WaitReap, Zombies, Kids
  <2>2. /\ cproc[c] \in Slots /\ state[cproc[c]] = "RUNNING"
        /\ pc' = [pc EXCEPT ![cproc[c]] = "ret"]
    BY Zenon, <1>a, <1>9 DEF WaitReap, InWait, At, Goto
  <2>3. ASSUME NEW p \in Slots, state'[p] = "SLEEPING", pc'[p] = "wait_sleep"
        PROVE  /\ \E r \in Slots : parent'[r] = p
               /\ \A r \in Slots : parent'[r] = p => state'[r] # "ZOMBIE"
               /\ ~killed'[p]
    <3>1. /\ p # cproc[c] /\ state[p] = "SLEEPING" /\ pc[p] = "wait_sleep"
          /\ p # q
      BY Zenon, <2>1, <2>2, <2>3, Types
    <3>2. PICK r \in Slots : parent[r] = p
      BY <1>0, <3>1 DEF WaitInv
    <3>3. parent'[r] = p
      BY Zenon, <2>1, <3>1, <3>2, Types
    <3> QED
      BY <1>0, <2>1, <3>1, <3>3, Types DEF WaitInv
  <2> QED
    BY <2>3 DEF WaitInv
<1>10. ASSUME NEW c \in CPUs, WaitSleep(c) PROVE WaitInv'
  <2>1. /\ cproc[c] \in Slots /\ state[cproc[c]] = "RUNNING"
        /\ Zombies(cproc[c]) = {} /\ Kids(cproc[c]) # {} /\ ~killed[cproc[c]]
        /\ state' = [state EXCEPT ![cproc[c]] = "SLEEPING"]
        /\ pc' = [pc EXCEPT ![cproc[c]] = "wait_sleep"]
        /\ UNCHANGED <<parent, killed>>
    BY Zenon, <1>a, <1>10 DEF WaitSleep, InWait, At, Goto
  <2>2. /\ \E r \in Slots : parent[r] = cproc[c]
        /\ \A r \in Slots : parent[r] = cproc[c] => state[r] # "ZOMBIE"
    BY Zenon, <2>1 DEF Zombies, Kids
  <2>3. \A r \in Slots : state'[r] = "ZOMBIE" <=> state[r] = "ZOMBIE"
    BY Zenon, <2>1, Types
  <2>4. \A p \in Slots \ {cproc[c]} : state'[p] = state[p] /\ pc'[p] = pc[p]
    BY Zenon, <2>1, Types
  <2> QED
    BY <1>0, <2>1, <2>2, <2>3, <2>4 DEF WaitInv
<1>11. ASSUME NEW c \in CPUs, Kill(c) PROVE WaitInv'
  <2>1. PICK k \in PidArgs :
          /\ killed' = [q \in Slots |-> killed[q] \/ q \in FirstWithPid(k)]
          /\ state' = [q \in Slots |-> IF q \in FirstWithPid(k) /\ KillWakes(q)
                                       THEN "RUNNABLE" ELSE state[q]]
    BY <1>11, Zenon DEF Kill
  <2>2. parent' = parent /\ pc' = [pc EXCEPT ![cproc[c]] = "ret"]
    BY Zenon, <1>11 DEF Kill, Goto
  <2> QED
    BY Zenon, <1>1, <2>1, <2>2, Types DEF KillWakes
<1>12. ASSUME NEW c \in CPUs, SleepSched(c) PROVE WaitInv'
  BY Zenon, <1>1, <1>a, <1>12, Types DEF SleepSched, At, Goto
<1>13. ASSUME NEW c \in CPUs, Yield(c) PROVE WaitInv'
  BY Zenon, <1>1, <1>a, <1>13, Types DEF Yield, InTrap
<1>14. CASE TickWakeup
  BY Zenon, <1>1, <1>14, Types DEF TickWakeup, Woken
<1> QED
  BY <1>3, <1>4, <1>5, <1>6, <1>7, <1>8, <1>9, <1>10, <1>11, <1>12, <1>13,
     <1>14, StepCases

\* nextpid grows with every pid it gives out, so no two processes share one.
LEMMA PidInvStep ==
  ASSUME ProcInv, [Next /\ ~Refusal]_vars PROVE PidInv'
<1>0. PidInv
  BY DEF ProcInv
<1>a. \A c \in CPUs : cproc[c] # 0 => cproc[c] \in Slots
                                      /\ state[cproc[c]] = "RUNNING"
  BY OnCPU
<1>1. ASSUME UNCHANGED <<pid, nextpid>>,
             \A q \in Slots : state'[q] = "UNUSED" \/ state[q] # "UNUSED"
      PROVE  PidInv'
  BY <1>0, <1>1, Zenon DEF PidInv, PidsDistinct
<1>3. CASE Quiet
  BY Zenon, <1>1, <1>3 DEF Quiet
<1>4. ASSUME NEW c \in CPUs, SchedRun(c) PROVE PidInv'
  <2>1. PICK h \in Slots : /\ state[h] = "RUNNABLE"
                           /\ state' = [state EXCEPT ![h] = "RUNNING"]
    BY <1>4, RunStep, Zenon
  <2> QED
    BY <1>1, <1>4, <2>1, RunStep, Types, Zenon
<1>5. ASSUME NEW c \in CPUs, ForkAlloc(c) PROVE PidInv'
  <2>1. CASE UNCHANGED <<procVars, nextpid>>
    BY <1>1, <2>1 DEF procVars
  <2>2. ASSUME NEW q \in Slots, state' = [state EXCEPT ![q] = "EMBRYO"],
               pid' = [pid EXCEPT ![q] = nextpid], nextpid' = nextpid + 1
        PROVE  PidInv'
    BY <1>0, <2>2, Types DEF PidInv, PidsDistinct
  <2> QED
    BY <1>5, <2>1, <2>2, Zenon DEF ForkAlloc
<1>6. ASSUME NEW c \in CPUs, ForkBuild(c) PROVE PidInv'
  BY Zenon, <1>1, <1>6, Types DEF ForkBuild
<1>7. ASSUME NEW c \in CPUs, ForkPublish(c) PROVE PidInv'
  <2>1. np[cproc[c]] \in Slots /\ state[np[cproc[c]]] = "EMBRYO"
    BY <1>a, <1>7, Types DEF ForkPublish, At, ProcInv, ForkInv
  <2> QED
    BY Zenon, <1>1, <1>7, <2>1, Types DEF ForkPublish
<1>8. ASSUME NEW c \in CPUs, Exit(c) PROVE PidInv'
  BY Zenon, <1>1, <1>a, <1>8, Types DEF Exit, Woken
<1>9. ASSUME NEW c \in CPUs, WaitReap(c) PROVE PidInv'
  <2>1. PICK q \in Slots : /\ state' = [state EXCEPT ![q] = "UNUSED"]
                           /\ pid' = [pid EXCEPT ![q] = 0]
    BY <1>9, Zenon DEF WaitReap, Zombies, Kids
  <2>2. nextpid' = nextpid
    BY Zenon, <1>9 DEF WaitReap
  <2> QED
    BY <1>0, <2>1, <2>2, Types DEF PidInv, PidsDistinct
<1>10. ASSUME NEW c \in CPUs, WaitSleep(c) PROVE PidInv'
  BY Zenon, <1>1, <1>a, <1>10, Types DEF WaitSleep, InWait, At
<1>11. ASSUME NEW c \in CPUs, Kill(c) PROVE PidInv'
  BY Zenon, <1>1, <1>11, Types DEF Kill, KillWakes
<1>12. ASSUME NEW c \in CPUs, SleepSched(c) PROVE PidInv'
  BY Zenon, <1>1, <1>a, <1>12, Types DEF SleepSched, At
<1>13. ASSUME NEW c \in CPUs, Yield(c) PROVE PidInv'
  BY Zenon, <1>1, <1>a, <1>13, Types DEF Yield, InTrap
<1>14. CASE TickWakeup
  BY Zenon, <1>1, <1>14, Types DEF TickWakeup, Woken
<1> QED
  BY <1>3, <1>4, <1>5, <1>6, <1>7, <1>8, <1>9, <1>10, <1>11, <1>12, <1>13,
     <1>14, StepCases
=============================================================================
