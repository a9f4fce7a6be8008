------------------------------ MODULE Console ------------------------------
(***************************************************************************)
(* Keyboard input of console.c: consoleintr() edits the current line in    *)
(* the ring input.buf, consoleread() takes committed characters out of it  *)
(* and sleeps while there are none.  A step is what runs under cons.lock,  *)
(* but for consoleread(), which tests killed and then calls sleep(), as    *)
(* kill() takes only ptable.lock and may come in between.                  *)
(* consoleread() gives ip->lock up for as long as it may sleep, and nobody *)
(* holds it across a step, so it does not show here.                       *)
(***************************************************************************)
EXTENDS Integers, Sequences

CONSTANTS
  Readers,
  INPUT_BUF,
  Width,             \* input.r, w and e are unsigned integers modulo 2^Width
  Start,             \* the values they may have come to after a long time
  Keys,              \* what is typed: letters, "nl", "cr", "D", "U", "H", "nul"
  Counts,            \* arguments of read()
  MaxKeys            \* bound: keys typed

VARIABLES
  buf, r, w, e,      \* input
  rd,                \* consoleread() of each reader: where it is, n and target;
                     \* "to_sleep": about to call sleep(), with cons.lock
  killed,
  committed, typed,   \* ghost: what readers may have, what is being edited
  ret,               \* what read() returned last, or -1
  keys

input == <<buf, r, w, e>>
vars  == <<buf, r, w, e, rd, killed, committed, typed, ret, keys>>

Plus(a, b) == (a + b) % 2^Width
Minus(a, b) == (a - b) % 2^Width
At(i) == buf[i % INPUT_BUF]
User == [st |-> "user", n |-> 0, target |-> 0]

\* acquire(&cons.lock) does not have to wait.
LockFree == \A p \in Readers : rd[p].st # "to_sleep"

Init ==
  /\ buf = [i \in 0..(INPUT_BUF - 1) |-> "nul"]
  /\ r \in Start /\ w = r /\ e = r
  /\ rd = [p \in Readers |-> User] /\ killed = [p \in Readers |-> FALSE]
  /\ committed = <<>> /\ typed = <<>> /\ ret = [p \in Readers |-> 0]
  /\ keys = 0

-----------------------------------------------------------------------------
(* consoleintr() *)

\* wakeup(&input.r).
wakeup_None == rd' = rd
wakeup == rd' = [p \in Readers |->
                   IF rd[p].st = "sleeping" THEN [rd[p] EXCEPT !.st = "runnable"]
                   ELSE rd[p]]

\* The erase loop of ^U, from index i back.
RECURSIVE KillLine(_)
KillLine(i) == IF i = w \/ At(Minus(i, 1)) = "nl" THEN i ELSE KillLine(Minus(i, 1))

Erase(c) ==
  /\ c \in {"U", "H"}
  /\ e' = IF c = "U" THEN KillLine(e) ELSE IF e = w THEN e ELSE Minus(e, 1)
  /\ typed' = IF c = "U" \/ typed = <<>> THEN <<>>
             ELSE SubSeq(typed, 1, Len(typed) - 1)
  /\ UNCHANGED <<buf, r, w, rd, committed>>

Room_OneMore == Minus(e, r) <= INPUT_BUF
Room == Minus(e, r) < INPUT_BUF
Full_Late == e = Plus(r, INPUT_BUF)
Full == Plus(e, 1) = Plus(r, INPUT_BUF)      \* by the character now stored

\* A character that does not fit is dropped; the end of a line, end of file and
\* the last free place hand the line over to the readers.
Insert(c) ==
  LET d == IF c = "cr" THEN "nl" ELSE c
      fits == c # "nul" /\ Room
  IN /\ c \notin {"U", "H"}
     /\ \/ ~fits /\ UNCHANGED <<input, rd, committed, typed>>
        \/ /\ fits
           /\ buf' = [buf EXCEPT ![e % INPUT_BUF] = d]
           /\ e' = Plus(e, 1)
           /\ IF d \in {"nl", "D"} \/ Full
              THEN /\ w' = e' /\ wakeup
                   /\ committed' = Append(committed \o typed, d) /\ typed' = <<>>
              ELSE /\ typed' = Append(typed, d) /\ UNCHANGED <<w, rd, committed>>
           /\ UNCHANGED r

Consoleintr(c) ==
  /\ LockFree /\ keys < MaxKeys /\ keys' = keys + 1
  /\ Erase(c) \/ Insert(c)
  /\ UNCHANGED <<killed, ret>>

-----------------------------------------------------------------------------
(* consoleread() *)

Read(p, n) ==
  /\ rd[p].st = "user" /\ ~killed[p]
  /\ rd' = [rd EXCEPT ![p] = [st |-> "runnable", n |-> n, target |-> n]]
  /\ UNCHANGED <<input, killed, committed, typed, ret, keys>>

\* ^D is taken out also when there were characters before it.
RECURSIVE Take_Swallows(_, _, _)
Take_Swallows(i, n, target) ==
  LET c == At(i)
  IN IF n = 0 \/ i = w THEN [r |-> i, n |-> n, done |-> n = 0]
     ELSE IF c = "D" THEN [r |-> Plus(i, 1), n |-> n, done |-> TRUE]
     ELSE IF c = "nl" THEN [r |-> Plus(i, 1), n |-> n - 1, done |-> TRUE]
     ELSE Take_Swallows(Plus(i, 1), n - 1, target)
\* The loop, as far as it gets without sleeping, from index i with n to go.
RECURSIVE Take(_, _, _)
Take(i, n, target) ==
  LET c == At(i)
  IN IF n = 0 \/ i = w THEN [r |-> i, n |-> n, done |-> n = 0]
     ELSE IF c = "D"
     THEN [r |-> IF n < target THEN i ELSE Plus(i, 1), n |-> n, done |-> TRUE]
     ELSE IF c = "nl" THEN [r |-> Plus(i, 1), n |-> n - 1, done |-> TRUE]
     ELSE Take(Plus(i, 1), n - 1, target)

\* consoleread() from acquire(), or from where sleep() returns, to its return or
\* to the call of sleep().
ReadLoop(p) ==
  LET t == Take(r, rd[p].n, rd[p].target)
  IN /\ LockFree /\ rd[p].st = "runnable"
     /\ r' = t.r
     /\ committed' = SubSeq(committed, Minus(t.r, r) + 1, Len(committed))
     /\ IF t.done \/ killed[p]
        THEN /\ ret' = [ret EXCEPT ![p] = IF t.done THEN rd[p].target - t.n ELSE -1]
             /\ rd' = [rd EXCEPT ![p] = User]
        ELSE /\ rd' = [rd EXCEPT ![p].st = "to_sleep", ![p].n = t.n]
             /\ UNCHANGED ret
     /\ UNCHANGED <<buf, w, e, killed, typed, keys>>

\* sleep() releases cons.lock only once it holds ptable.lock.
Sleep(p) ==
  /\ rd[p].st = "to_sleep" /\ rd' = [rd EXCEPT ![p].st = "sleeping"]
  /\ UNCHANGED <<input, killed, committed, typed, ret, keys>>


\* kill() wakes who sleeps.
Kill(p) ==
  /\ ~killed[p] /\ killed' = [killed EXCEPT ![p] = TRUE]
  /\ rd' = IF rd[p].st = "sleeping" THEN [rd EXCEPT ![p].st = "runnable"] ELSE rd
  /\ UNCHANGED <<input, committed, typed, ret, keys>>

Next == \/ \E c \in Keys : Consoleintr(c)
        \/ \E p \in Readers : \/ ReadLoop(p) \/ Sleep(p) \/ Kill(p)
                             \/ \E n \in Counts : Read(p, n)

Spec == Init /\ [][Next]_vars

-----------------------------------------------------------------------------
(* Properties *)

Between(i, j) == [k \in 1..Minus(j, i) |-> At(Plus(i, k - 1))]

\* The ring is the two queues of a terminal, also when the indices wrap around
\* and when it is full: what was committed is never edited, lost or
\* overwritten, and what is erased is only the line being typed.
RingIsTerminal == Between(r, w) = committed /\ Between(w, e) = typed

\* Nobody sleeps in consoleread() with characters to read.
ReaderNotStranded ==
  \A p \in Readers : rd[p].st \in {"to_sleep", "sleeping"} => committed = <<>>


\* A full ring has been handed over, so that a line of any length is read in
\* the end and typing can go on.
FullIsCommitted == Minus(e, r) = INPUT_BUF => typed = <<>>

Count(q, c) == Len(SelectSeq(q, LAMBDA x : x = c))

\* End of file is seen: ^D leaves the ring only in a read() that returns 0, one
\* for each; a read() that has characters leaves it for the next.
EofSeen ==
  [][Count(committed', "D") < Count(committed, "D") =>
       \E p \in Readers : /\ rd[p].st = "runnable" /\ rd'[p] = User /\ ret'[p] = 0
                          /\ Count(committed', "D") = Count(committed, "D") - 1]_vars

\* consoleintr() and consoleread() together are a terminal: lines are edited,
\* handed over when they end or the ring is full, and nobody sleeps past them.
ConsoleSafe == RingIsTerminal /\ FullIsCommitted /\ ReaderNotStranded
=============================================================================
