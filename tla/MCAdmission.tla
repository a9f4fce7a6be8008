---------------------------- MODULE MCAdmission ----------------------------
(***************************************************************************)
(* Admission with the scripts of TestScripts.                              *)
(***************************************************************************)
EXTENDS Admission, TestScripts

\* sched_policy() refuses just the processes that the comments at the top of
\* assig2_1.c to assig2_5.c announce, whichever finish in the meantime.
AgreesWithTests ==
  script \in TestPrograms => refused = Expected(script) \intersect DOMAIN task
=============================================================================
