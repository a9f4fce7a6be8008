---------------------------- MODULE TestScripts ----------------------------
(***************************************************************************)
(* The real-time requests of the five test programs assig2_1.c to          *)
(* assig2_5.c, and families of small scripts.                              *)
(***************************************************************************)
EXTENDS RTPolicy, Sequences

Edf(e, d) == [policy |-> EDF, e |-> e, arg |-> d]
Rm(e, r)  == [policy |-> RM, e |-> e, arg |-> r]

TC1 == <<Edf(4, 19), Edf(5, 18), Edf(6, 24), Edf(4, 21)>>
TC2 == <<Rm(10, 1), Rm(1, 21), Rm(2, 11)>>
TC3 == <<Edf(5, 23), Edf(4, 16), Edf(9, 14), Edf(6, 18), Edf(8, 21)>>
TC4 == <<Edf(6, 19), Edf(8, 20), Edf(4, 20), Edf(5, 24), Edf(4, 52)>>
TC5 == <<Rm(5, 2), Rm(1, 22), Rm(3, 11), Rm(5, 4), Rm(4, 2)>>

TestPrograms == {<<TC1>>, <<TC2>>, <<TC3>>, <<TC4>>, <<TC5>>}

\* The processes that the comments of the test programs call non-schedulable.
Expected(s) == CASE s = <<TC3>> -> {5, 7} [] s \in {<<TC4>>, <<TC5>>} -> {6}
                 [] OTHER -> {}

Programs(requests, n) == UNION {[1..i -> requests] : i \in 1..n}

\* All programs of up to three requests over a few parameters, and of up to four
\* over fewer.
Requests == {Edf(1, 3), Edf(2, 3), Edf(1, 2), Edf(1, 101),
             Rm(1, 20), Rm(1, 30), Rm(2, 25)}
SmallScripts == {<<p>> : p \in Programs(Requests, 3) \union
                              Programs({Edf(1, 3), Edf(2, 7), Rm(1, 20), Rm(2, 25)}, 4)}

\* Two programs, one after the other.
ShortPrograms == Programs({Edf(2, 3), Rm(1, 30)}, 2)
TwoPrograms == ShortPrograms \X ShortPrograms

\* Parameters that are negative and that overflow.
OddScripts == {<<p>> : p \in Programs({Edf(2, 3), Edf(1, -2), Edf(400, 3), Rm(1, -9),
                                      Rm(1, 90)}, 3)}

AllScripts == TestPrograms \union SmallScripts \union TwoPrograms \union OddScripts

\* TC#1 run twice on the same machine.
TC1Twice == {<<TC1, TC1>>}
=============================================================================
