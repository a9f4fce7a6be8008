----------------------------- MODULE AtomicDisk -----------------------------
(***************************************************************************)
(* What log.c promises to the file system calls between begin_op() and     *)
(* end_op(): a disk on which the writes of several calls reach the disk    *)
(* together or, if the machine crashes, not at all, and never while one of *)
(* the calls is unfinished.                                                *)
(***************************************************************************)
CONSTANTS Blocks, Vals, Ops   \* block numbers, contents, processes

VARIABLES
  current,   \* what the calls read and write
  stable,    \* what a crash would leave
  open       \* the processes between begin_op() and end_op()

vars == <<current, stable, open>>

Init ==
  /\ stable \in [Blocks -> Vals] /\ current = stable
  /\ open = {}

Begin(p) == /\ open' = open \cup {p}
            /\ UNCHANGED <<current, stable>>

Write(p, b, v) == /\ p \in open
                  /\ current' = [current EXCEPT ![b] = v]
                  /\ UNCHANGED <<stable, open>>

End(p) == /\ p \in open
          /\ open' = open \ {p}
          /\ UNCHANGED <<current, stable>>

Commit == /\ open = {}
          /\ stable' = current
          /\ UNCHANGED <<current, open>>

Crash == /\ current' = stable /\ open' = {}
         /\ UNCHANGED stable

Next == \/ \E p \in Ops : Begin(p) \/ End(p)
        \/ \E p \in Ops, b \in Blocks, v \in Vals : Write(p, b, v)
        \/ Commit \/ Crash

Spec == Init /\ [][Next]_vars
=============================================================================
