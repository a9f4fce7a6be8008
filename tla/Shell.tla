------------------------------- MODULE Shell -------------------------------
(***************************************************************************)
(* sh.c: the parser of a command line and the processes that runcmd()      *)
(* makes of it. A line is a sequence of tokens, what gettoken() returns    *)
(* one after the other; a word is "a", or "cd " if it is cd with a blank   *)
(* after it, and in a command tree it is its position in the line. A       *)
(* process is named by the path of forks that leads to it from the shell,  *)
(* <<>>. fork(), pipe(), open() and exec() may fail. The programs are the  *)
(* worst a pipeline can meet: they read a piped input to its end, and      *)
(* write more than the pipe holds.                                         *)
(***************************************************************************)
EXTENDS Integers, Sequences, FiniteSets

CONSTANTS Lines,     \* what may be typed
          MAXARGS

VARIABLES line,
          parsed,    \* what the parser makes of it
          procs      \* the processes: st, cmd, fd and the number of their forks

vars == <<line, parsed, procs>>

-----------------------------------------------------------------------------
(* The parser: r.c is the command and r.i the next token, 0 after panic(). *)

\* What gettoken() returns for the token at i.
Tok(i) == IF i \notin 1..Len(line) THEN "end"
          ELSE IF line[i] = "cd " THEN "a" ELSE line[i]
peek(i, toks) == Tok(i) \in toks

Panic == [c |-> [type |-> "none"], i |-> 0]

execcmd(args)        == [type |-> "EXEC", args |-> args]
redircmd(c, f, fd)   == [type |-> "REDIR", cmd |-> c, file |-> f, fd |-> fd]
pipecmd(left, right, i) == [type |-> "PIPE", left |-> left, right |-> right, id |-> i]
listcmd(left, right) == [type |-> "LIST", left |-> left, right |-> right]
backcmd(c)           == [type |-> "BACK", cmd |-> c]

RECURSIVE parseredirs(_)
parseredirs(r) ==
  IF ~peek(r.i, {"<", ">", ">>"}) THEN r
  ELSE IF Tok(r.i + 1) # "a" THEN Panic
  ELSE parseredirs([c |-> redircmd(r.c, r.i + 1, IF Tok(r.i) = "<" THEN 0 ELSE 1),
                    i |-> r.i + 2])

\* The execcmd at the bottom of the redirections gets one more argument.
RECURSIVE AddArg(_, _)
AddArg(c, q) == IF c.type = "EXEC" THEN execcmd(Append(c.args, q))
                ELSE [c EXCEPT !.cmd = AddArg(@, q)]

RECURSIVE ParseArgs(_, _)
ParseArgs(r, argc) ==
  IF r.i = 0 \/ peek(r.i, {"|", ")", "&", ";", "end"}) THEN r
  ELSE IF Tok(r.i) # "a" \/ argc + 1 >= MAXARGS THEN Panic
  ELSE ParseArgs(parseredirs([c |-> AddArg(r.c, r.i), i |-> r.i + 1]), argc + 1)

RECURSIVE parseline(_)

\* No redirections after a block.
parseblock_NoRedirs(i) ==
  LET r == parseline(i + 1)
  IN IF ~peek(r.i, {")"}) THEN Panic ELSE [r EXCEPT !.i = @ + 1]
parseblock(i) ==
  LET r == parseline(i + 1)
  IN IF ~peek(r.i, {")"}) THEN Panic ELSE parseredirs([r EXCEPT !.i = @ + 1])

parseexec(i) ==
  IF peek(i, {"("}) THEN parseblock(i)
  ELSE ParseArgs(parseredirs([c |-> execcmd(<<>>), i |-> i]), 0)

RECURSIVE parsepipe(_)
parsepipe(i) ==
  LET r == parseexec(i)
      s == parsepipe(r.i + 1)
  IN IF peek(r.i, {"|"}) THEN [c |-> pipecmd(r.c, s.c, r.i), i |-> s.i] ELSE r

RECURSIVE Backs(_)
Backs(r) == IF peek(r.i, {"&"}) THEN Backs([c |-> backcmd(r.c), i |-> r.i + 1]) ELSE r

parseline(i) ==
  LET r == Backs(parsepipe(i))
      s == parseline(r.i + 1)
  IN IF peek(r.i, {";"}) THEN [c |-> listcmd(r.c, s.c), i |-> s.i] ELSE r

\* The words that nulterminate() ends.
RECURSIVE nulterminate(_)
nulterminate(c) ==
  CASE c.type = "EXEC"  -> {c.args[k] : k \in DOMAIN c.args}
    [] c.type = "REDIR" -> nulterminate(c.cmd) \union {c.file}
    [] c.type = "BACK"  -> nulterminate(c.cmd)
    [] OTHER            -> nulterminate(c.left) \union nulterminate(c.right)

Accepted == parsed.i = Len(line) + 1

-----------------------------------------------------------------------------
(* Processes *)

None == [kind |-> "none", id |-> 0]
Cons == [kind |-> "cons", id |-> 0]
File(i)     == [kind |-> "file", id |-> i]
ReadEnd(i)  == [kind |-> "r", id |-> i]
WriteEnd(i) == [kind |-> "w", id |-> i]

Fds == 0..6
Process(st, cmd, fd) == [st |-> st, cmd |-> cmd, fd |-> fd, forks |-> 0]

Init ==
  /\ line \in Lines /\ parsed = parseline(1)
  /\ procs = [p \in {<<>>} |->
                Process("main", [type |-> "none"],
                        [i \in Fds |-> IF i < 3 THEN Cons ELSE None])]

\* open(), dup() and pipe() take the lowest descriptors that are free.
Low(fd) == CHOOSE i \in Fds : fd[i] = None /\ \A j \in Fds : j < i => fd[j] # None
Open(fd, f) == [fd EXCEPT ![Low(fd)] = f]
Close(fd, i) == [fd EXCEPT ![i] = None]

Alive(p) == p \in DOMAIN procs /\ procs[p].st # "zombie"
Parent(p) == SubSeq(p, 1, Len(p) - 1)
Children(p) == {q \in DOMAIN procs : q # <<>> /\ Parent(q) = p}

\* What is left of ps when p exits: a zombie for its parent, or nothing when the
\* parent is gone and init reaps it; p's own zombies go to init as well.
Exited(ps, p) ==
  [q \in {q \in DOMAIN ps : /\ q = p => p # <<>> /\ Alive(Parent(p))
                            /\ q \in Children(p) => ps[q].st # "zombie"} |->
     IF q = p THEN Process("zombie", [type |-> "none"], [i \in Fds |-> None])
     ELSE ps[q]]

exit(p) == procs' = Exited(procs, p)

\* p forks a child that runs cmd from st on, and goes on at next.
Forked(p, next, st, cmd) ==
  LET q == Append(p, procs[p].forks + 1)
  IN [x \in DOMAIN procs \union {q} |->
        IF x = q THEN Process(st, cmd, procs[p].fd)
        ELSE IF x = p THEN [procs[p] EXCEPT !.st = next, !.forks = @ + 1]
        ELSE procs[x]]

\* wait(): a zombie child, or at once when there is no child.
Reaped(p, ps) ==
  IF Children(p) = {} THEN {procs}
  ELSE {[x \in DOMAIN procs \ {z} |-> procs[x]] :
          z \in {z \in Children(p) : procs[z].st = "zombie"}}

At(p, st) == p \in DOMAIN procs /\ procs[p].st = st
Cmd(p) == procs[p].cmd
Runs(p, type) == At(p, "run") /\ Cmd(p).type = type

-----------------------------------------------------------------------------
(* main() and runcmd() *)

\* A command that the shell runs itself.
Builtin == line # <<>> /\ line[1] = "cd "

\* The shell calls chdir() itself, for its own current directory, and prompts
\* again whether or not that fails.
MainCd(p) ==
  /\ At(p, "main") /\ Builtin
  /\ procs' = [procs EXCEPT ![p].st = "prompt"]

\* fork1() of main(), whose failure ends the shell; the child parses.
MainFork(p) ==
  /\ At(p, "main") /\ ~Builtin
  /\ procs' = Forked(p, "mainwait", "parse", Cmd(p)) \/ exit(p)

parsecmd(p) ==
  /\ At(p, "parse")
  /\ IF Accepted
     THEN procs' = [procs EXCEPT ![p].st = "run", ![p].cmd = parsed.c]
     ELSE exit(p)

RunExec(p) ==
  /\ Runs(p, "EXEC")
  /\ \/ exit(p)                       \* no argv[0], or exec() failed
     \/ Cmd(p).args # <<>> /\ procs' = [procs EXCEPT ![p].st = "prog"]

RunRedir(p) ==
  LET fd == Close(procs[p].fd, Cmd(p).fd)
  IN /\ Runs(p, "REDIR")
     /\ \/ exit(p)
        \/ procs' = [procs EXCEPT ![p].fd = Open(fd, File(Cmd(p).file)),
                                  ![p].cmd = Cmd(p).cmd]

RunList(p) ==
  /\ Runs(p, "LIST")
  /\ exit(p) \/ procs' = Forked(p, "listwait", "run", Cmd(p).left)

ListWait(p) ==
  /\ At(p, "listwait")
  /\ \E ps \in Reaped(p, procs) :
       procs' = [ps EXCEPT ![p].st = "run", ![p].cmd = Cmd(p).right]

RunBack(p) ==
  /\ Runs(p, "BACK")
  /\ exit(p) \/ procs' = Exited(Forked(p, "run", "run", Cmd(p).cmd), p)

RunPipe(p) ==
  /\ Runs(p, "PIPE")
  /\ \/ exit(p)
     \/ procs' = [procs EXCEPT ![p].st = "left",
                   ![p].fd = Open(Open(@, ReadEnd(Cmd(p).id)), WriteEnd(Cmd(p).id))]

ForkLeft(p) ==
  /\ At(p, "left") /\ (exit(p) \/ procs' = Forked(p, "right", "plumbleft", Cmd(p)))

ForkRight(p) ==
  /\ At(p, "right") /\ (exit(p) \/ procs' = Forked(p, "close", "plumbright", Cmd(p)))

\* p[0] and p[1] of a process that has the pipe of its command open.
End(p, f) == CHOOSE i \in Fds : i > 2 /\ procs[p].fd[i] = f
Closed_ReadEnd(p, fd) == Close(fd, End(p, ReadEnd(Cmd(p).id)))
Closed(p, fd) == Close(Close(fd, End(p, ReadEnd(Cmd(p).id))), End(p, WriteEnd(Cmd(p).id)))

\* What the two children do before they run their command.
PlumbLeft(p) ==
  /\ At(p, "plumbleft")
  /\ procs' = [procs EXCEPT ![p].st = "run", ![p].cmd = Cmd(p).left,
                ![p].fd = Closed(p, Open(Close(@, 1), WriteEnd(Cmd(p).id)))]

PlumbRight(p) ==
  /\ At(p, "plumbright")
  /\ procs' = [procs EXCEPT ![p].st = "run", ![p].cmd = Cmd(p).right,
                ![p].fd = Closed(p, Open(Close(@, 0), ReadEnd(Cmd(p).id)))]

\* The parent keeps the pipe open.
PipeClose_Forgets(p) ==
  /\ At(p, "close") /\ procs' = [procs EXCEPT ![p].st = "wait1"]
PipeClose(p) ==
  /\ At(p, "close")
  /\ procs' = [procs EXCEPT ![p].st = "wait1", ![p].fd = Closed(p, @)]

\* The waits of PIPE and of main().
Wait(p) ==
  \/ /\ At(p, "wait1")
     /\ \E ps \in Reaped(p, procs) : procs' = [ps EXCEPT ![p].st = "wait2"]
  \/ /\ At(p, "wait2")
     /\ \E ps \in Reaped(p, procs) : procs' = Exited(ps, p)
  \/ /\ At(p, "mainwait")
     /\ \E ps \in Reaped(p, procs) : procs' = [ps EXCEPT ![p].st = "prompt"]

Held(f) == \E q \in DOMAIN procs : \E i \in Fds : procs[q].fd[i] = f

\* The program ends: its piped input has ended, and what it wrote to a pipe is
\* being read or nobody can read it.
Program(p) ==
  LET in == procs[p].fd[0]  out == procs[p].fd[1]
  IN /\ At(p, "prog")
     /\ in.kind = "r" => ~Held(WriteEnd(in.id))
     /\ out.kind = "w" => \/ ~Held(ReadEnd(out.id))
                          \/ \E q \in DOMAIN procs : At(q, "prog") /\
                                 procs[q].fd[0] = ReadEnd(out.id)
     /\ exit(p)

Runcmd(p) ==
  \/ RunExec(p) \/ RunRedir(p) \/ RunList(p) \/ ListWait(p) \/ RunBack(p)
  \/ RunPipe(p) \/ ForkLeft(p) \/ ForkRight(p) \/ PlumbLeft(p) \/ PlumbRight(p)
  \/ PipeClose(p)

Next ==
  /\ \E p \in DOMAIN procs : \/ MainCd(p) \/ MainFork(p) \/ parsecmd(p) \/ Runcmd(p)
                             \/ Wait(p) \/ Program(p)
  /\ UNCHANGED <<line, parsed>>

Spec == Init /\ [][Next]_vars

-----------------------------------------------------------------------------
(* Properties *)

\* The grammar: whether the tokens from i up to, not including, j are a line,
\* a pipeline, a command.
RECURSIVE IsLine(_, _), IsPipe(_, _)
IsWords(i, j, most) ==
  LET file(k) == k > i /\ Tok(k - 1) \in {"<", ">", ">>"}
      toks == i..(j - 1)
  IN /\ \A k \in toks : Tok(k) \in {"a", "<", ">", ">>"}
     /\ \A k \in toks : file(k) => Tok(k) = "a"
     /\ i < j => Tok(j - 1) = "a"
     /\ Cardinality({k \in toks : Tok(k) = "a" /\ ~file(k)}) <= most
IsBlock(i, j) ==
  /\ i < j /\ line[i] = "("
  /\ \E k \in (i + 1)..(j - 1) : line[k] = ")" /\ IsLine(i + 1, k) /\ IsWords(k + 1, j, 0)
IsExec(i, j) == IsWords(i, j, MAXARGS - 1) \/ IsBlock(i, j)
IsPipe(i, j) == \/ IsExec(i, j)
                \/ \E k \in i..(j - 1) : line[k] = "|" /\ IsExec(i, k) /\ IsPipe(k + 1, j)
IsLine(i, j) ==
  \E k \in i..j : \E m \in k..j :
    /\ IsPipe(i, k) /\ \A n \in k..(m - 1) : line[n] = "&"
    /\ m = j \/ (line[m] = ";" /\ IsLine(m + 1, j))

\* The parser, which never backtracks, accepts the lines of the grammar and no
\* others; every word of an accepted line is in the tree, so that nulterminate()
\* ends it.
ParsesGrammar ==
  /\ Accepted <=> IsLine(1, Len(line) + 1)
  /\ Accepted => nulterminate(parsed.c) = {i \in 1..Len(line) : Tok(i) = "a"}

\* The programs of a command, with what they must have as input and output: of
\* several redirections of one command the first in the line counts.
RECURSIVE Plumbing(_, _, _)
Plumbing(c, in, out) ==
  CASE c.type = "EXEC"  -> {<<c.args, in, out>>}
    [] c.type = "REDIR" -> IF c.fd = 0 THEN Plumbing(c.cmd, File(c.file), out)
                           ELSE Plumbing(c.cmd, in, File(c.file))
    [] c.type = "PIPE"  -> Plumbing(c.left, in, WriteEnd(c.id)) \union
                           Plumbing(c.right, ReadEnd(c.id), out)
    [] c.type = "LIST"  -> Plumbing(c.left, in, out) \union Plumbing(c.right, in, out)
    [] c.type = "BACK"  -> Plumbing(c.cmd, in, out)

\* A program is started with the input and output that its place in the command
\* says, and with no other descriptor open but standard error: no end of a pipe
\* leaks into it, however pipes, lists and redirections nest.
Plumbed ==
  \A p \in DOMAIN procs : At(p, "prog") =>
    LET fd == procs[p].fd
    IN /\ <<Cmd(p).args, fd[0], fd[1]>> \in Plumbing(parsed.c, Cons, Cons)
       /\ fd[2] = Cons /\ \A i \in Fds : i > 2 => fd[i] = None

\* The shell is not left hanging: until all is done and it prompts again (or has
\* ended because it could not fork) somebody can go on, whatever failed.  Every
\* step uses up a piece of the command, so the prompt does come back.
PromptReturns == ENABLED Next \/ \A p \in DOMAIN procs : At(p, "prompt")

\* Every program of a command line that runcmd() starts has the descriptors that
\* the line says and no end of a pipe besides, and the shell comes back to its
\* prompt, whatever fork(), pipe(), open() or exec() fails.
PipelinesEnd == Plumbed /\ PromptReturns
=============================================================================
