------------------------------ MODULE RTPolicy ------------------------------
(***************************************************************************)
(* The arithmetic of real-time scheduling in proc.c: the utilisation tests *)
(* of sched_policy(), the priority computed by rate(), and the orders in   *)
(* which scheduler() compares two RUNNABLE processes.                      *)
(***************************************************************************)
EXTENDS Integers, Sequences

CONSTANT INT_MAX     \* the largest int: 2^31 - 1 on the x86

ASSUME IntAssumption == INT_MAX \in Nat

\* A sum or product that does not fit an int, in the instructions of the build.
Wrap(n) == ((n + INT_MAX + 1) % (2 * (INT_MAX + 1))) - (INT_MAX + 1)

\* "n / d" for ints is rounded towards zero.
Quotient(n, d) ==
  LET Abs(i) == IF i < 0 THEN -i ELSE i
      q == Abs(n) \div Abs(d)
  IN  IF n < 0 <=> d < 0 THEN q ELSE -q

\* The values of p->sched_policy.
NONE == -1
EDF  == 0
RM   == 1

\* Mutation: the division comes first.
UtilEDF_DivFirst(execution_time, deadline) ==
  Quotient(execution_time, deadline) * 100

\* Hundredths of a processor that an EDF process asks for, unless DivideError.
UtilEDF(execution_time, deadline) == Quotient(Wrap(execution_time * 100), deadline)

\* The division of UtilEDF faults: by zero, or with a quotient beyond INT_MAX.
DivideError(execution_time, deadline) ==
  \/ deadline = 0
  \/ deadline = -1 /\ Wrap(execution_time * 100) = -(INT_MAX + 1)

\* Thousandths of a processor that an RM process asks for.
UtilRM(execution_time, rate) == Wrap(Wrap(execution_time * rate) * 10)

\* chk_lproc for lproc = 1..62, in thousandths.
RMTable ==
  << 1000, 828, 779, 756, 743, 734, 728, 724, 720, 717, 715, 713, 711, 710,
     709, 708, 707, 706, 705, 705, 704, 704, 703, 703, 702, 702, 702, 701,
     701, 701, 700, 700, 700, 700, 700, 699, 699, 699, 699, 699, 699, 698,
     698, 698, 698, 698, 698, 698, 698, 697, 697, 697, 697, 697, 697, 697,
     697, 697, 697, 697, 697, 697 >>

\* Mutation: the table is not consulted.
RMBound_Full(pid) == 1000

\* The bound is looked up by lproc = pid - 2, not by a count of processes.
RMBound(pid) == LET lproc == pid - 2
                IN  IF 1 <= lproc /\ lproc <= 62 THEN RMTable[lproc] ELSE 696

\* Mutation: what was granted before is not counted.
AdmitsEDF_Alone(utf_edf, execution_time, deadline) ==
  UtilEDF(execution_time, deadline) < 100

\* Whether sched_policy() grants the policy, given what was granted before.
AdmitsEDF(utf_edf, execution_time, deadline) ==
  Wrap(utf_edf + UtilEDF(execution_time, deadline)) < 100

AdmitsRM(utf_rm, execution_time, rate, pid) ==
  Wrap(utf_rm + UtilRM(execution_time, rate)) <= RMBound(pid)

\* rate(): a higher rate gives a smaller, that is more urgent, number.
PriorityOf(rate) == LET t == Quotient(Wrap(118 - 3 * rate), 29)
                    IN  IF t < 1 THEN 1 ELSE t

\* Mutation: of two equal keys the later slot wins.
Better_LastWins(key1, pid1, key2, pid2) == key1 <= key2

\* The test of both inner loops of scheduler(), on p->deadline or p->priority:
\* the process p1 with key1 and pid1 replaces highP with key2 and pid2.
Better(key1, pid1, key2, pid2) ==
  /\ key1 <= key2
  /\ key1 = key2 => pid1 < pid2

\* The order that the loops are meant to follow: the smaller key first and, of
\* equal keys, the smaller pid.
Before(key1, pid1, key2, pid2) ==
  \/ key1 < key2
  \/ key1 = key2 /\ pid1 < pid2

=============================================================================
