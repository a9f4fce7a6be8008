---------------------------- MODULE Components ----------------------------
(***************************************************************************)
(* Components that do not act on each other's state, side by side: in a    *)
(* behaviour one of them, part, runs and the others stay as they are in an *)
(* initial state.  Spinlock, about which there are theorems, is extended;  *)
(* the others are instances, with the constants that TLC gets for them.    *)
(***************************************************************************)
EXTENDS Spinlock, Sequences

VARIABLES
  part,
  script, started, main, newest, task, granted, refused, finished,
  utf_edf, utf_rm,                                                    \* Admission
  file, ofile, pipe, lock, free, at, arg, todo, killed, prog,         \* Pipe
  freelist, mem, as, view, calls,                                     \* Memory
  used, data, ip, dinode, off, pend, text, entries, stopped, ops,     \* FileData
  buf, r, w, e, rd, dead, committed, typed, ret, keys,                \* Console
  hdr, freep, brk, blocks, cores, denied,                             \* Heap
  line, parsed, procs                                                 \* Shell

admissionVars == <<script, started, main, newest, task, granted, refused, finished,
                   utf_edf, utf_rm>>
pipeVars    == <<file, ofile, pipe, lock, free, at, arg, todo, killed, prog>>
memoryVars  == <<freelist, mem, as, view, calls>>
fileVars    == <<used, data, ip, dinode, off, pend, text, entries, stopped, ops>>
consoleVars == <<buf, r, w, e, rd, dead, committed, typed, ret, keys>>
heapVars    == <<hdr, freep, brk, blocks, cores, denied>>
shellVars   == <<line, parsed, procs>>
allVars     == <<part, vars, admissionVars, pipeVars, memoryVars, fileVars,
                 consoleVars, heapVars, shellVars>>

\* An int of 16 bits, which some of the scripts overflow.
Scr == INSTANCE TestScripts WITH INT_MAX <- 32767
Adm == INSTANCE MCAdmission WITH Scripts <- Scr!AllScripts, INT_MAX <- 32767

\* Messages that fit the ring and do not, in bytes that differ; programs that
\* open and close, and programs that move data and are killed.
Pip == INSTANCE Pipe WITH
  Procs <- {1, 2}, initproc <- 1, NFILE <- 3, NOFILE <- 2, Pages <- {"page"},
  PIPESIZE <- 2, Width <- 4, Bytes <- {0, 1}, Messages <- {<<0>>, <<1, 0, 1>>},
  Counts <- {1, 2}, NoProc <- 0, NoFile <- 0, NoPage <- "none",
  Programs <- {{"pipe", "dup", "close", "fork", "exit"},
               {"close", "fork", "kill", "read", "write"}},
  pc <- at

Seg(vaddr, memsz, filesz, readable) ==
  [vaddr |-> vaddr, memsz |-> memsz, filesz |-> filesz, readable |-> readable]

\* sbrk() within a page, across pages, to nothing, below zero; a program with
\* bss, one of two segments, and files that exec() refuses at each of its tests
\* (sizes, wrap-around, alignment, a short read); arguments that fit, that just
\* fit, that reach into the guard page, and too many.
Mem == INSTANCE Memory WITH
  Procs <- {1, 2}, initproc <- 1, Memories <- {8, 13, 18}, PGSIZE <- 32, NPT <- 2,
  ADDRS <- 512, KERNPAGES <- 6, KTABLES <- 1, MAXARG <- 2, MaxCalls <- 4,
  Growths <- {1, 40, -1, -32, -64, -400},
  Images <- {<<Seg(0, 40, 20, TRUE)>>,
             <<Seg(0, 32, 32, TRUE), Seg(64, 8, 4, TRUE)>>,
             <<Seg(0, 8, 12, TRUE)>>, <<Seg(32, 500, 4, TRUE)>>,
             <<Seg(0, 32, 32, TRUE), Seg(40, 8, 4, TRUE)>>,
             <<Seg(0, 40, 20, FALSE)>>},
  ArgLists <- {<<>>, <<11>>, <<12>>, <<1, 1, 1>>}

\* A write of one chunk and one of two; a disk and a directory that get full.
Fil == INSTANCE FileData WITH
  Files <- {"f"}, Dir <- "dir", Blocks <- 1..5, BSIZE <- 2, NDIRECT <- 1,
  MAXCHUNK <- 2, Writers <- {"p", "q"}, Texts <- {<<1>>, <<2, 3, 4>>}, Counts <- {1},
  Names <- {3, 4, 5, 6, 7}, MaxCalls <- 5,
  panicked <- stopped

\* One key more than the ring holds; indices that wrap around.
Con == INSTANCE Console WITH
  Readers <- {"p", "q"}, INPUT_BUF <- 4, Width <- 3, Start <- {6},
  Keys <- {"a", "cr", "D", "U", "H", "nul"}, Counts <- {2}, MaxKeys <- 5,
  killed <- dead

\* Blocks of two, three and four headers, from cores of four.
Hea == INSTANCE Heap WITH
  HDR <- 2, CORE <- 4, Requests <- {1, 3, 5}, Limit <- 13, MaxHeld <- 4,
  held <- blocks

Tokens == {"a", "<", ">", ">>", "|", "&", ";", "(", ")"}

\* Every line of up to three tokens, longer ones that nest pipes and lists, and cd
\* first and after other words.
ShellLines ==
  UNION {[1..n -> Tokens] : n \in 0..3} \union
  { <<"cd ", "a">>, <<"cd ", "|", "a">>, <<"a", "cd ", "a">>, <<"a", ";", "cd ", "a">>,
    <<"a", "|", "a", "|", "a">>, <<"(", "a", "&", ")", "|", "a">>,
    <<"(", "a", ";", "a", ")", "|", "a">>, <<"a", "|", "(", "a", ";", "a", ")">>,
    <<"a", "|", "a", ">", "a">>, <<"(", "a", "<", "a", ")", ">", "a">>,
    <<"a", ">", "a", ">", "a">>, <<"(", "a", "|", "a", ")", "|", "a", "&">> }

She == INSTANCE Shell WITH Lines <- ShellLines, MAXARGS <- 3

-----------------------------------------------------------------------------
Parts == {"admission", "pipe", "memory", "file", "console", "heap", "shell", "lock"}

AllInit ==
  /\ part \in Parts
  /\ Mem!Init /\ (part # "memory" => Len(mem) = 8)
  /\ Pip!Init /\ (part # "pipe" => "pipe" \in prog /\ free = {"page"})
  /\ Fil!Init /\ Con!Init /\ Hea!Init /\ Init
  /\ script \in (IF part = "admission" THEN Scr!AllScripts ELSE {<<Scr!TC1>>}) /\ Adm!Init
  /\ line \in (IF part = "shell" THEN ShellLines ELSE {<<>>}) /\ She!Init

AllNext ==
  /\ \/ part = "admission" /\ Adm!Next
     \/ part = "pipe"    /\ Pip!Next
     \/ part = "memory"  /\ Mem!Next
     \/ part = "file"    /\ Fil!Next
     \/ part = "console" /\ Con!Next
     \/ part = "heap"    /\ Hea!Next
     \/ part = "shell"   /\ She!Next
     \/ part = "lock"    /\ Next
  /\ UNCHANGED part
  /\ IF part = "admission" THEN TRUE ELSE UNCHANGED admissionVars
  /\ IF part = "pipe"    THEN TRUE ELSE UNCHANGED pipeVars
  /\ IF part = "memory"  THEN TRUE ELSE UNCHANGED memoryVars
  /\ IF part = "file"    THEN TRUE ELSE UNCHANGED fileVars
  /\ IF part = "console" THEN TRUE ELSE UNCHANGED consoleVars
  /\ IF part = "heap"    THEN TRUE ELSE UNCHANGED heapVars
  /\ IF part = "shell"   THEN TRUE ELSE UNCHANGED shellVars
  /\ IF part = "lock"    THEN TRUE ELSE UNCHANGED vars

AllSpec == AllInit /\ [][AllNext]_allVars

-----------------------------------------------------------------------------
(* Properties: SpinlockSafe, and those of the other components, each while *)
(* its component runs                                                      *)

\* sched_policy() refuses just the processes that the comments of the test
\* programs announce.
AgreesWithTests == part = "admission" => Adm!AgreesWithTests

\* What sched_policy() has granted fits, but for the rounding.
AdmittedFits == part = "admission" => Adm!AdmittedFits

\* The files and pipes of file.c and pipe.c are there as long as somebody has
\* them, through the failure paths of sys_pipe(), and who sleeps in piperead() or
\* pipewrite() has something to wait for.
PipeSafe == part = "pipe" => Pip!PipeSafe

\* pipewrite() wakes the readers for what it has stored, unless it is killed.
BytesWakeReaders == Pip!BytesWakeReaders

\* The ring of pipe.c implements the bounded queue of ByteQueue.
PipeIsQueue == Pip!PipeIsQueue

\* After any sbrk(), fork(), exec() and exit(), whichever kalloc() fails, every
\* page has one owner, and a process has the memory it should.
MemorySafe == part = "memory" => Mem!MemorySafe

\* readi() and dirlookup() find what writei() and dirlink() have written, in
\* blocks of its own.
FilesSound == part = "file" => Fil!FilesSound

\* The ring of console.c is a line being edited behind a queue of committed
\* characters, and nobody sleeps in consoleread() past them.
ConsoleSafe == part = "console" => Con!ConsoleSafe

\* Each ^D makes one read() of the console return 0.
EofSeen == Con!EofSeen


\* The blocks of malloc() and the free list partition what sbrk() gave.
HeapSound == part = "heap" => Hea!HeapSound

\* parsecmd() of the shell accepts the lines of its grammar.
ParsesGrammar == part = "shell" => She!ParsesGrammar

\* runcmd() starts every program with the descriptors its command says, and the
\* shell gets back to its prompt, whatever fails.
PipelinesEnd == part = "shell" => She!PipelinesEnd
=============================================================================
