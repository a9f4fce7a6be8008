----------------------------- MODULE Admission -----------------------------
(***************************************************************************)
(* The real-time requests that programs make of sched_policy(), seen as    *)
(* arithmetic on the two global counters utf_edf and utf_rm of proc.c.  A  *)
(* script is the sequence of programs that sh runs, one after the other; a *)
(* program is the sequence of its requests, each of them made after        *)
(* exec_time() and deadline() or rate() have set the parameters.  As in    *)
(* assig2_1.c to assig2_5.c the first is for the program's own process and *)
(* each of the others for a child that it has just forked; the processes   *)
(* then loop until trap() finds that their execution_time is used up.      *)
(***************************************************************************)
EXTENDS RTPolicy, FiniteSetsExt, TLC

\* Sequences of sequences of [policy, e, arg], arg being the deadline, not 0, or
\* the rate.
CONSTANT Scripts

VARIABLES
  script,                        \* the programs of this run
  started,                       \* how many of them sh has started
  main, newest,                  \* pids: of the last one, and allocated last
  task,                          \* the request made for each pid
  granted, refused, finished,    \* pids: admitted and alive, killed, exited
  utf_edf, utf_rm

vars == <<script, started, main, newest, task, granted, refused, finished,
          utf_edf, utf_rm>>

FirstPid == 3                    \* 1 and 2 are init and sh

TypeOK ==
  /\ started \in 0..Len(script)
  /\ main \in Nat /\ newest \in Nat /\ main <= newest
  /\ DOMAIN task \subseteq FirstPid..newest
  /\ granted \union refused \union finished = DOMAIN task
  /\ utf_edf \in Int /\ utf_edf < 100 /\ utf_rm \in Int /\ utf_rm <= 1000

Init ==
  /\ script \in Scripts /\ started = 0 /\ main = 2 /\ newest = 2
  /\ task = << >> /\ granted = {} /\ refused = {} /\ finished = {}
  /\ utf_edf = 0 /\ utf_rm = 0

\* What sched_policy() adds to utf_edf or utf_rm for the request t.
Share(t) == IF t.policy = EDF THEN UtilEDF(t.e, t.arg) ELSE UtilRM(t.e, t.arg)

\* Mutation: utf_edf -= ... is forgotten when the request is refused.
Refuse_KeepShare(k, t) ==
  /\ refused' = refused \union {k}
  /\ utf_edf' = IF t.policy = EDF THEN Wrap(utf_edf + Share(t)) ELSE utf_edf
  /\ UNCHANGED <<granted, utf_rm>>

\* The counters are left as they were; the process is killed.
Refuse(k, t) == /\ refused' = refused \union {k}
                /\ UNCHANGED <<granted, utf_edf, utf_rm>>

Grant(k, t) ==
  /\ granted' = granted \union {k}
  /\ IF t.policy = EDF
     THEN utf_edf' = Wrap(utf_edf + Share(t)) /\ UNCHANGED utf_rm
     ELSE utf_rm' = Wrap(utf_rm + Share(t)) /\ UNCHANGED utf_edf
  /\ UNCHANGED refused

Admits(k, t) ==
  IF t.policy = EDF
  THEN AdmitsEDF(utf_edf, t.e, t.arg)
  ELSE AdmitsRM(utf_rm, t.e, t.arg, k)

\* main is there, in its loop or before its first request.
MainAlive == started > 0 /\ (main \in DOMAIN task => main \in granted)

\* sh waits for the program that it has started, not for the children of that.
Start ==
  /\ started < Len(script) /\ ~MainAlive /\ started' = started + 1
  /\ newest' = newest + 1 /\ main' = newest + 1
  /\ UNCHANGED <<script, task, granted, refused, finished, utf_edf, utf_rm>>

\* main forks the child that its next request is for.
Fork ==
  /\ MainAlive /\ newest \in DOMAIN task
  /\ newest - main + 1 < Len(script[started]) /\ newest' = newest + 1
  /\ UNCHANGED <<script, started, main, task, granted, refused, finished,
                 utf_edf, utf_rm>>

\* main makes its next request, for itself or for the child it forked last.
SchedPolicy ==
  /\ MainAlive /\ newest \notin DOMAIN task
  /\ LET t == script[started][newest - main + 1] IN
     /\ task' = task @@ (newest :> t)
     /\ \/ Admits(newest, t) /\ Grant(newest, t)
        \/ ~Admits(newest, t) /\ Refuse(newest, t)
  /\ UNCHANGED <<script, started, main, newest, finished>>

\* trap() makes an admitted process exit() when its execution_time is used up;
\* neither trap() nor exit() touches utf_edf or utf_rm.
Complete ==
  \E k \in granted :
     /\ granted' = granted \ {k} /\ finished' = finished \union {k}
     /\ UNCHANGED <<script, started, main, newest, task, refused, utf_edf, utf_rm>>

Next == Start \/ Fork \/ SchedPolicy \/ Complete

Spec == Init /\ [][Next]_vars
-----------------------------------------------------------------------------
Tasks(S, policy) == {k \in S : task[k].policy = policy}
Load(S, policy) == MapThenSumSet(LAMBDA k : Share(task[k]), Tasks(S, policy))

\* No request has had a parameter that is not positive or that overflows.
Sane == \A k \in DOMAIN task : task[k].arg > 0 /\ task[k].e \in 0..(INT_MAX \div 100)

\* utf_edf and utf_rm are exactly what has been granted so far, whatever was
\* refused in between, and stay below one processor each.
LedgerExact ==
  /\ utf_edf = Wrap(Load(granted \union finished, EDF)) /\ utf_edf < 100
  /\ utf_rm = Wrap(Load(granted \union finished, RM)) /\ utf_rm <= 1000

\* The RM processes alive at any time meet the bound for their own number: the
\* table is indexed by pid - 2, which is at least that number when pids from 3
\* on ask in order, and the bound falls with it.
RMBoundMet ==
  LET n == Cardinality(Tasks(granted, RM))
  IN  Sane /\ n > 0 => Load(granted, RM) <= RMTable[n]

\* Each share of sched_policy() is rounded down to hundredths, so that the EDF
\* processes alive may ask for more than the processor, but by less than a
\* hundredth for each of them after the first.
OverbookingBounded ==
  LET S == Tasks(granted, EDF)
      all == FoldSet(LAMBDA a, b : a * b, 1, {task[k].arg : k \in S})
      exact == MapThenSumSet(LAMBDA k : 100 * task[k].e * (all \div task[k].arg), S)
  IN  Sane /\ S # {} => exact < (99 + Cardinality(S)) * all

\* What sched_policy() has granted fits, by the ledger it keeps and, unless a
\* parameter was zero, negative or overflowed, by the bound that RM needs and but
\* for the rounding by what was really asked for.
AdmittedFits == TypeOK /\ LedgerExact /\ RMBoundMet /\ OverbookingBounded

\* sched_policy() never refuses a process that asks for less than the processor
\* while every other process that was started has ended.
IdleAdmits ==
  [][\A k \in refused' \ refused :
        Share(task'[k]) < 100 =>
          \E j \in (FirstPid..newest) \ {k} : j \notin refused \union finished]_vars
=============================================================================
