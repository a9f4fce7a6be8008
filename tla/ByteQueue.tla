----------------------------- MODULE ByteQueue -----------------------------
(***************************************************************************)
(* What pipe.c promises to the programs at its two ends: a queue of at     *)
(* most Capacity bytes that loses, repeats and reorders nothing, takes no  *)
(* byte after its write end is closed, gives none after its read end is    *)
(* closed, and is created again, empty, only when both ends are closed.    *)
(***************************************************************************)
EXTENDS Naturals, Sequences

CONSTANTS Bytes, Capacity

VARIABLES queue, readopen, writeopen

vars == <<queue, readopen, writeopen>>

Init == queue = <<>> /\ readopen \in BOOLEAN /\ writeopen = readopen

Create == /\ ~readopen /\ ~writeopen
          /\ queue' = <<>> /\ readopen' /\ writeopen'

Put == /\ writeopen
       /\ \E n \in 1..(Capacity - Len(queue)) : \E s \in [1..n -> Bytes] :
            queue' = queue \o s
       /\ UNCHANGED <<readopen, writeopen>>

Get == /\ readopen
       /\ \E n \in 1..Len(queue) : queue' = SubSeq(queue, n + 1, Len(queue))
       /\ UNCHANGED <<readopen, writeopen>>

CloseRead == /\ readopen /\ ~readopen'
             /\ UNCHANGED writeopen
             /\ queue' = IF writeopen THEN queue ELSE <<>>

CloseWrite == /\ writeopen /\ ~writeopen'
              /\ UNCHANGED readopen
              /\ queue' = IF readopen THEN queue ELSE <<>>

Next == Create \/ Put \/ Get \/ CloseRead \/ CloseWrite

Spec == Init /\ [][Next]_vars
=============================================================================
