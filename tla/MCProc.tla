------------------------------- MODULE MCProc -------------------------------
(***************************************************************************)
(* Proc with arguments that a configuration file cannot write.             *)
(***************************************************************************)
EXTENDS Proc

\* deadline() takes any int.  The utilisation of one tick in 200, or in -200,
\* is rounded to 0, so that grants can be repeated.
EitherSign == {-200, 200}
=============================================================================
