-------------------------------- MODULE Pipe --------------------------------
(***************************************************************************)
(* Pipes and the file table: pipe.c, the part of file.c that counts        *)
(* references and closes pipes, and the system calls that reach them       *)
(* (sys_pipe, sys_dup, sys_close, sys_read, sys_write; fork() and exit()   *)
(* for the descriptors).                                                   *)
(*                                                                         *)
(* A critical section under ftable.lock is one action.  p->lock is a       *)
(* variable, because pipewrite() and piperead() test killed, which kill()  *)
(* sets without that lock, and go to sleep only afterwards.                *)
(***************************************************************************)
EXTENDS Integers, Sequences, FiniteSets

CONSTANTS
  Procs, initproc,   \* processes; the first one
  NFILE, NOFILE,     \* files in ftable, descriptors of a process
  Pages,             \* pages kalloc() can give to pipes
  PIPESIZE,
  Width,             \* nread and nwrite are counted modulo Width
  Bytes, Messages,   \* bytes, and what a program may pass to write()
  Counts,            \* and the n it may pass to read()
  Programs,          \* sets of system calls that the programs use
  NoProc, NoFile, NoPage

Files == 1..NFILE
FDs   == 0..(NOFILE - 1)

VARIABLES
  file,      \* ftable.file: ref, type, pipe, writable
  ofile,     \* the descriptors of each process
  pipe,      \* struct pipe in each page
  lock,      \* who holds the lock of each pipe
  free,      \* pages kalloc() can return
  pc,        \* where each process is
  arg,       \* the pipe it reads, writes or closes, and the bytes or count
  todo,      \* files it has allocated, or has still to pass to fileclose()
  killed,
  prog       \* the system calls of the programs that run; never changes

vars == <<file, ofile, pipe, lock, free, pc, arg, todo, killed, prog>>

Reading == {"read", "read_sleep", "read_wait"}
Writing == {"write", "write_sleep", "write_wait"}
Places  == Reading \cup Writing \cup
           {"unused", "user", "alloc", "kalloc", "close", "exit"}

NoArg == [pipe |-> NoPage, writable |-> FALSE, n |-> 0, s |-> <<>>]
Junk  == [data |-> [i \in 0..(PIPESIZE - 1) |-> CHOOSE b \in Bytes : TRUE],
          nread |-> 0, nwrite |-> 0, readopen |-> FALSE, writeopen |-> FALSE]

NoneFile == [ref |-> 0, type |-> "FD_NONE", pipe |-> NoPage, writable |-> FALSE]

PipeFile(g, w) == [ref |-> 1, type |-> "FD_PIPE", pipe |-> g, writable |-> w]

\* A pipe as pipealloc() makes it; the data is what was in the page.
Made(q) == [q EXCEPT !.readopen = TRUE, !.writeopen = TRUE,
                     !.nread = 0, !.nwrite = 0]

\* initproc runs, with the console open as its descriptor 0, or with the two
\* ends of a pipe it has made as its only descriptors.
Init ==
  /\ \/ /\ file = [[f \in Files |-> NoneFile]
                   EXCEPT ![1].ref = 1, ![1].type = "FD_INODE"]
        /\ ofile = [[p \in Procs |-> [d \in FDs |-> NoFile]]
                    EXCEPT ![initproc][0] = 1]
        /\ free = Pages /\ pipe = [g \in Pages |-> Junk]
     \/ \E g \in Pages :
          /\ file = [[f \in Files |-> NoneFile]
                     EXCEPT ![1] = PipeFile(g, FALSE), ![2] = PipeFile(g, TRUE)]
          /\ ofile = [[p \in Procs |-> [d \in FDs |-> NoFile]]
                      EXCEPT ![initproc][0] = 1, ![initproc][1] = 2]
          /\ free = Pages \ {g}
          /\ pipe = [[h \in Pages |-> Junk] EXCEPT ![g] = Made(Junk)]
  /\ lock = [g \in Pages |-> NoProc] /\ prog \in Programs
  /\ pc = [p \in Procs |-> IF p = initproc THEN "user" ELSE "unused"]
  /\ arg = [p \in Procs |-> NoArg] /\ todo = [p \in Procs |-> <<>>]
  /\ killed = [p \in Procs |-> FALSE]

-----------------------------------------------------------------------------
(* File table *)

\* What filealloc() finds: the first file without a reference.
Unused(f) == file[f].ref = 0 /\ \A g \in 1..(f - 1) : file[g].ref # 0
TableFull == \A f \in Files : file[f].ref # 0

\* What fdalloc() finds in the descriptors fds.
FreeFd(fds, d) == fds[d] = NoFile /\ \A e \in 0..(d - 1) : fds[e] # NoFile

\* A process in user mode, which trap() does not send to exit(), makes a call.
User(p, call) == pc[p] = "user" /\ ~killed[p] /\ call \in prog

Goto(p, l) == pc' = [pc EXCEPT ![p] = l]

\* pipealloc() takes its first file; without one it fails at once.
PipeAlloc0(p) ==
  /\ User(p, "pipe")
  /\ \E f \in Files :
       /\ Unused(f)
       /\ file' = [file EXCEPT ![f].ref = 1]
       /\ todo' = [todo EXCEPT ![p] = <<f>>]
  /\ Goto(p, "alloc")
  /\ UNCHANGED <<ofile, pipe, lock, free, arg, killed, prog>>

\* pipealloc() takes its second file, or closes the first one again.
PipeAlloc1(p) ==
  /\ pc[p] = "alloc"
  /\ \/ /\ TableFull /\ Goto(p, "close")
        /\ UNCHANGED <<file, todo>>
     \/ \E f \in Files :
          /\ Unused(f)
          /\ file' = [file EXCEPT ![f].ref = 1]
          /\ todo' = [todo EXCEPT ![p] = Append(@, f)]
          /\ Goto(p, "kalloc")
  /\ UNCHANGED <<ofile, pipe, lock, free, arg, killed, prog>>

\* The two descriptors sys_pipe() takes from fds, if there are two.
TwoFds(fds, d, e) == FreeFd(fds, d) /\ FreeFd([fds EXCEPT ![d] = 1], e)

\* pipealloc() takes a page for the pipe and fills in the pipe and its two
\* files; sys_pipe() then gives them descriptors.  Without a page, or without
\* two descriptors, both files are closed again.
PipeAlloc2(p) ==
  /\ pc[p] = "kalloc"
  /\ \/ /\ free = {} /\ Goto(p, "close")
        /\ UNCHANGED <<file, pipe, free, ofile, todo>>
     \/ \E g \in free :
          /\ free' = free \ {g}
          /\ pipe' = [pipe EXCEPT ![g] = Made(@)]
          /\ LET r == todo[p][1]
                 w == todo[p][2]
             IN
             /\ file' = [file EXCEPT
                  ![r].type = "FD_PIPE", ![r].pipe = g, ![r].writable = FALSE,
                  ![w].type = "FD_PIPE", ![w].pipe = g, ![w].writable = TRUE]
             /\ \/ \E d, e \in FDs :
                     /\ TwoFds(ofile[p], d, e)
                     /\ ofile' = [ofile EXCEPT ![p][d] = r, ![p][e] = w]
                     /\ todo' = [todo EXCEPT ![p] = <<>>]
                     /\ Goto(p, "user")
                \/ /\ ~\E d, e \in FDs : TwoFds(ofile[p], d, e)
                   /\ Goto(p, "close")
                   /\ UNCHANGED <<ofile, todo>>
  /\ UNCHANGED <<lock, arg, killed, prog>>

\* sys_dup(): fdalloc(), then filedup().
SysDup(p) ==
  /\ User(p, "dup")
  /\ \E d, e \in FDs :
       /\ ofile[p][d] # NoFile /\ FreeFd(ofile[p], e)
       /\ ofile' = [ofile EXCEPT ![p][e] = ofile[p][d]]
       /\ file' = [file EXCEPT ![ofile[p][d]].ref = @ + 1]
  /\ UNCHANGED <<pipe, lock, free, pc, arg, todo, killed, prog>>

\* sys_close() clears the descriptor and calls fileclose().
SysClose(p) ==
  /\ User(p, "close")
  /\ \E d \in FDs :
       /\ ofile[p][d] # NoFile
       /\ ofile' = [ofile EXCEPT ![p][d] = NoFile]
       /\ todo' = [todo EXCEPT ![p] = <<ofile[p][d]>>]
  /\ Goto(p, "close")
  /\ UNCHANGED <<file, pipe, lock, free, arg, killed, prog>>

\* fork() calls filedup() for every open descriptor; the parent's own
\* references keep the files open, so the loop is one step.
Fork(p, q) ==
  /\ User(p, "fork") /\ pc[q] = "unused"
  /\ ofile' = [ofile EXCEPT ![q] = ofile[p]]
  /\ file' = [f \in Files |-> [file[f] EXCEPT
       !.ref = @ + Cardinality({d \in FDs : ofile[p][d] = f})]]
  /\ Goto(q, "user")
  /\ UNCHANGED <<pipe, lock, free, arg, todo, killed, prog>>

\* The loop of exit(), from descriptor 1.
OpenFiles_From1(p) == SelectSeq([d \in 1..(NOFILE - 1) |-> ofile[p][d]],
                                LAMBDA f : f # NoFile)
\* The open files of a process, by descriptor.
OpenFiles(p) ==
  SelectSeq([d \in 1..NOFILE |-> ofile[p][d - 1]], LAMBDA f : f # NoFile)

\* exit() closes every descriptor; initproc never calls it.  killed, which
\* wait() clears when it frees the process, is not looked at any more.
Exit(p) ==
  /\ pc[p] = "user" /\ p # initproc /\ (killed[p] \/ "exit" \in prog)
  /\ todo' = [todo EXCEPT ![p] = OpenFiles(p)]
  /\ ofile' = [ofile EXCEPT ![p] = [d \in FDs |-> NoFile]]
  /\ Goto(p, IF OpenFiles(p) = <<>> THEN "unused" ELSE "exit")
  /\ killed' = [killed EXCEPT ![p] = FALSE]
  /\ UNCHANGED <<file, pipe, lock, free, arg, prog>>

\* Back from the last fileclose() of a call.
Return(p, rest) == Goto(p, IF rest # <<>> THEN pc[p]
                           ELSE IF pc[p] = "exit" THEN "unused" ELSE "user")

\* fileclose(): the last reference frees the file, and pipeclose() follows
\* outside ftable.lock with a copy of it.
FileClose(p) ==
  /\ pc[p] \in {"close", "exit"} /\ arg[p] = NoArg
  /\ LET f == Head(todo[p])
         r == file[f].ref - 1
     IN /\ file' = [file EXCEPT ![f].ref = r,
                                ![f].type = IF r = 0 THEN "FD_NONE" ELSE @]
        /\ todo' = [todo EXCEPT ![p] = Tail(@)]
        /\ IF r = 0 /\ file[f].type = "FD_PIPE"
           THEN /\ arg' = [arg EXCEPT ![p].pipe = file[f].pipe,
                                      ![p].writable = file[f].writable]
                /\ UNCHANGED pc
           ELSE Return(p, Tail(todo[p])) /\ UNCHANGED arg
  /\ UNCHANGED <<ofile, pipe, lock, free, killed, prog>>

-----------------------------------------------------------------------------
(* Pipes *)

\* wakeup(&p->nread) and wakeup(&p->nwrite): the sleepers test again.
wakeReaders_None(g, l) == l
wakeReaders(g, l) == [q \in Procs |-> IF l[q] = "read_wait" /\ arg[q].pipe = g
                                      THEN "read" ELSE l[q]]
wakeWriters_None(g, l) == l
wakeWriters(g, l) == [q \in Procs |-> IF l[q] = "write_wait" /\ arg[q].pipe = g
                                      THEN "write" ELSE l[q]]

Stored(g) == (pipe[g].nwrite - pipe[g].nread) % Width

\* A pipe with its write end (w) or its read end closed.
CloseEnd_Swapped(q, w) == [q EXCEPT !.readopen = @ /\ ~w, !.writeopen = @ /\ w]
CloseEnd(q, w) == [q EXCEPT !.readopen = @ /\ w, !.writeopen = @ /\ ~w]

\* pipeclose(): the other end is woken, and the last end frees the page.
PipeClose(p) ==
  /\ pc[p] \in {"close", "exit"} /\ arg[p] # NoArg
  /\ LET g == arg[p].pipe
         w == arg[p].writable
         q == CloseEnd(pipe[g], w)
         done == IF todo[p] # <<>> THEN pc[p]
                 ELSE IF pc[p] = "exit" THEN "unused" ELSE "user"
         woken == IF w THEN wakeReaders(g, pc) ELSE wakeWriters(g, pc)
     IN /\ lock[g] = NoProc
        /\ pc' = [woken EXCEPT ![p] = done]
        /\ IF q.readopen \/ q.writeopen
           THEN pipe' = [pipe EXCEPT ![g] = q] /\ UNCHANGED free
           ELSE pipe' = [pipe EXCEPT ![g] = Junk] /\ free' = free \cup {g}
  /\ arg' = [arg EXCEPT ![p] = NoArg]
  /\ UNCHANGED <<file, ofile, lock, todo, killed, prog>>

\* sys_write() and sys_read() on a pipe: argfd(), and the tests of
\* filewrite() and fileread().
SysWrite(p) ==
  /\ User(p, "write")
  /\ \E d \in FDs, m \in Messages :
       /\ ofile[p][d] # NoFile /\ file[ofile[p][d]].writable
       /\ arg' = [arg EXCEPT ![p] = [NoArg EXCEPT
                                     !.pipe = file[ofile[p][d]].pipe, !.s = m]]
  /\ Goto(p, "write")
  /\ UNCHANGED <<file, ofile, pipe, lock, free, todo, killed, prog>>

SysRead(p) ==
  /\ User(p, "read")
  /\ \E d \in FDs, n \in Counts :
       /\ ofile[p][d] # NoFile /\ ~file[ofile[p][d]].writable
       /\ file[ofile[p][d]].type = "FD_PIPE"
       /\ arg' = [arg EXCEPT ![p] = [NoArg EXCEPT
                                     !.pipe = file[ofile[p][d]].pipe, !.n = n]]
  /\ Goto(p, "read")
  /\ UNCHANGED <<file, ofile, pipe, lock, free, todo, killed, prog>>

\* Bytes stored from the start of the page.
Store_AtZero(q, s) ==
  [q EXCEPT !.nwrite = (@ + Len(s)) % Width,
            !.data = [i \in DOMAIN @ |-> IF i < Len(s) THEN s[i + 1] ELSE @[i]]]
\* The pipe after bytes have been stored at nwrite.
Store(q, s) ==
  [q EXCEPT !.nwrite = (@ + Len(s)) % Width,
            !.data = [i \in DOMAIN @ |->
              LET k == (i - q.nwrite) % PIPESIZE
              IN IF k < Len(s) THEN s[k + 1] ELSE @[i]]]

\* pipewrite() from acquire(), or from where sleep() returns, to its return or
\* to the call of sleep(): it stores what fits.
PipeWrite(p) ==
  LET g == arg[p].pipe
      s == arg[p].s
      space == PIPESIZE - Stored(g)
      m == IF Len(s) < space THEN Len(s) ELSE space
      full == m < Len(s)
      fails == full /\ (~pipe[g].readopen \/ killed[p])
  IN /\ pc[p] = "write" /\ lock[g] = NoProc
     /\ pipe' = [pipe EXCEPT ![g] = Store(@, SubSeq(s, 1, m))]
     /\ lock' = [lock EXCEPT ![g] = IF full /\ ~fails THEN p ELSE NoProc]
     /\ pc' = [(IF fails THEN pc ELSE wakeReaders(g, pc))
               EXCEPT ![p] = IF full /\ ~fails THEN "write_sleep" ELSE "user"]
     /\ arg' = [arg EXCEPT ![p] = IF full /\ ~fails
                                  THEN [@ EXCEPT !.s = SubSeq(s, m + 1, Len(s))]
                                  ELSE NoArg]
     /\ UNCHANGED <<file, ofile, free, todo, killed, prog>>

\* piperead() in the same way: it takes what there is.
PipeRead(p) ==
  LET g == arg[p].pipe
      m == IF arg[p].n < Stored(g) THEN arg[p].n ELSE Stored(g)
      empty == Stored(g) = 0 /\ pipe[g].writeopen
      sleeps == empty /\ ~killed[p]
  IN /\ pc[p] = "read" /\ lock[g] = NoProc
     /\ pipe' = [pipe EXCEPT ![g].nread = (@ + m) % Width]
     /\ lock' = [lock EXCEPT ![g] = IF sleeps THEN p ELSE NoProc]
     /\ pc' = [(IF empty THEN pc ELSE wakeWriters(g, pc))
               EXCEPT ![p] = IF sleeps THEN "read_sleep" ELSE "user"]
     /\ arg' = [arg EXCEPT ![p] = IF sleeps THEN @ ELSE NoArg]
     /\ UNCHANGED <<file, ofile, free, todo, killed, prog>>

\* sleep() releases the pipe's lock only once it holds ptable.lock, so going
\* to sleep and releasing the lock are one step for wakeup() and kill().
Sleep(p) ==
  /\ pc[p] \in {"read_sleep", "write_sleep"}
  /\ Goto(p, IF pc[p] = "read_sleep" THEN "read_wait" ELSE "write_wait")
  /\ lock' = [lock EXCEPT ![arg[p].pipe] = NoProc]
  /\ UNCHANGED <<file, ofile, pipe, free, arg, todo, killed, prog>>

\* kill() of process q, by any process: it takes ptable.lock only.  Nobody
\* kills initproc.
Kill(q) ==
  /\ pc[q] \notin {"unused", "exit"} /\ ~killed[q] /\ q # initproc
  /\ "kill" \in prog
  /\ killed' = [killed EXCEPT ![q] = TRUE]
  /\ Goto(q, CASE pc[q] = "read_wait" -> "read"
               [] pc[q] = "write_wait" -> "write"
               [] OTHER -> pc[q])
  /\ UNCHANGED <<file, ofile, pipe, lock, free, arg, todo, prog>>

-----------------------------------------------------------------------------
Kernel(p) == \/ PipeAlloc1(p) \/ PipeAlloc2(p) \/ FileClose(p) \/ PipeClose(p)
             \/ PipeWrite(p) \/ PipeRead(p) \/ Sleep(p)

Next == \E p \in Procs :
          \/ Kernel(p)
          \/ PipeAlloc0(p) \/ SysDup(p) \/ SysClose(p) \/ Exit(p)
          \/ SysRead(p) \/ SysWrite(p) \/ Kill(p)
          \/ \E q \in Procs : Fork(p, q)

Spec == Init /\ [][Next]_vars
-----------------------------------------------------------------------------
(* Properties *)

\* The references to file f: descriptors, and files a process has in hand.
Refs(f) == Cardinality({x \in Procs \X FDs : ofile[x[1]][x[2]] = f})
           + Cardinality({x \in Procs \X (1..(NFILE + NOFILE)) :
                            x[2] \in DOMAIN todo[x[1]] /\ todo[x[1]][x[2]] = f})

\* Who keeps an end of pipe g open: a file with references, or a process
\* between fileclose() and pipeclose().
Holders(g, w) ==
  {f \in Files : /\ file[f].ref > 0 /\ file[f].type = "FD_PIPE"
                 /\ file[f].pipe = g /\ file[f].writable = w}
  \cup {p \in Procs : /\ pc[p] \in {"close", "exit"} /\ arg[p].pipe = g
                       /\ arg[p].writable = w}

\* Every ref in ftable counts exactly the descriptors and the calls that have
\* the file, through every failure path of sys_pipe(); so filedup() and
\* fileclose() never panic.
RefsExact == \A f \in Files : file[f].ref = Refs(f)

\* An end of a pipe is open exactly while one file or one fileclose() under
\* way keeps it, and the page is free exactly when both ends are closed: it
\* is not leaked, and not passed to kfree() twice.
EndsExact ==
  \A g \in Pages :
    /\ Cardinality(Holders(g, FALSE)) = IF pipe[g].readopen THEN 1 ELSE 0
    /\ Cardinality(Holders(g, TRUE)) = IF pipe[g].writeopen THEN 1 ELSE 0
    /\ g \in free <=> ~pipe[g].readopen /\ ~pipe[g].writeopen

\* A process inside piperead() or pipewrite() works on a pipe whose end it
\* has open, never on a page that pipeclose() has freed.  A writer sleeps only
\* while the pipe is full and has a reader, a reader only while it has a
\* writer: who loses the other end is woken, and sees the end of file.
SleepJustified ==
  \A p \in Procs :
    LET q == pipe[arg[p].pipe]
    IN /\ pc[p] \in Reading => q.readopen
       /\ pc[p] \in Writing => q.writeopen
       /\ pc[p] \in {"read_sleep", "read_wait"} => q.writeopen
       /\ pc[p] \in {"write_sleep", "write_wait"} =>
            Stored(arg[p].pipe) = PIPESIZE /\ q.readopen

\* A reader that sleeps although there are bytes for it.
Missed(p) == pc[p] \in {"read_sleep", "read_wait"} /\ Stored(arg[p].pipe) > 0

\* Bytes that arrive wake the readers, with one exception in pipewrite(): a
\* writer that finds the pipe full and itself killed returns without the
\* wakeup for the bytes it has stored.
BytesWakeReaders ==
  [][\A p \in Procs : ~Missed(p) /\ Missed(p)' =>
       \E q \in Procs : pc[q] = "write" /\ killed[q] /\ pc'[q] = "user"]_vars

\* The bytes in the ring, oldest first.
Contents(g) == [i \in 1..Stored(g) |->
                  pipe[g].data[(pipe[g].nread + i - 1) % PIPESIZE]]

Queue(g) == INSTANCE ByteQueue WITH
              queue <- Contents(g), Capacity <- PIPESIZE,
              readopen <- pipe[g].readopen, writeopen <- pipe[g].writeopen

\* pipe.c implements a bounded queue of bytes: the ring with its wrapping
\* counters loses, repeats and reorders nothing, whatever the processes at
\* its ends do.
PipeIsQueue ==
  /\ \A g \in Pages : Queue(g)!Init
  /\ [][\A g \in Pages : [Queue(g)!Next]_(Queue(g)!vars)]_vars

\* Files and pipes are there as long as somebody has them or sleeps in them,
\* and no longer: filedup(), fileclose(), pipeclose(), piperead(), pipewrite().
PipeSafe == RefsExact /\ EndsExact /\ SleepJustified
=============================================================================
