------------------------------- MODULE Inode -------------------------------
(***************************************************************************)
(* Inodes, directories and path names: the inode cache and the name layer  *)
(* of fs.c, and the system calls of sysfile.c that use them, made by       *)
(* several processes at the same time.                                     *)
(*                                                                         *)
(* An action runs from one place where a process may have to wait for      *)
(* ip->lock, or reads or changes ip->ref, to the next; what it does in     *)
(* between is protected by the locks it holds.  What is left of a call is  *)
(* a sequence of steps, because iput() is called at many places and takes  *)
(* several steps itself.  The cache is indexed by inode number: iget()     *)
(* keeps at most one entry with references for an inode.                   *)
(***************************************************************************)
EXTENDS Integers, Sequences, FiniteSets, FiniteSetsExt

CONSTANTS
  Procs,
  Inums, Root,     \* inode numbers, and ROOTINO
  Names,           \* names in directories, other than "." and ".."
  Menus,           \* sets of system calls, by name
  Starts,          \* what to start from: a disk, the current directory of the
                   \* processes, and the menu they choose their calls from
  MaxCalls,        \* bound: calls made
  NoProc, NoInum

VARIABLES
  di,        \* on disk: type and nlink of each inode
  ents,      \* on disk: the entries of each directory
  ic,        \* icache: ref, valid, and the copies of type and nlink; ip->lock
  k,         \* what each process has still to do
  reg,       \* its local variables: ip and path of namex(), ip, dp
  call,      \* the call it makes
  fd,        \* its one file descriptor
  cwd,
  menu, calls,
  panicked,  \* "no", or what panic() says
  astray     \* ghost: a lookup has returned an inode that is Gone

vars == <<di, ents, ic, k, reg, call, fd, cwd, menu, calls, panicked, astray>>
others == <<call, menu, calls, panicked>>

Dots    == {".", ".."}
NoEnts  == [n \in Names \union Dots |-> NoInum]
NoRegs  == [cur |-> NoInum, path |-> <<>>, ip |-> NoInum, dp |-> NoInum]
Inum0   == Inums \union {NoInum}

\* A path that begins with "/" is looked up from the root.
Paths == Seq(Names \union Dots \union {"/"})

ASSUME InodeAssumption ==
  /\ Root \in Inums /\ NoInum \notin Inums /\ NoProc \notin Procs
  /\ MaxCalls \in Nat
  /\ \A s \in Starts :
       /\ s.di[Root].type = "dir" /\ s.di[s.cwd].type = "dir"
       /\ s.ents \in [Inums -> [Names \union Dots -> Inum0]]
       /\ \A c \in Menus[s.menu] : c.path \in Paths /\ c.path # <<>>

\* Nothing is cached but the working directory, which is everyone's.
Init ==
  /\ \E s \in Starts :
       /\ di = s.di /\ ents = s.ents /\ menu = s.menu
       /\ cwd = [p \in Procs |-> s.cwd]
       /\ ic = [i \in Inums |->
                  [ref |-> IF i = s.cwd THEN Cardinality(Procs) ELSE 0,
                   valid |-> i = s.cwd, type |-> s.di[i].type,
                   nlink |-> s.di[i].nlink, lock |-> NoProc]]
  /\ k = [p \in Procs |-> <<>>] /\ reg = [p \in Procs |-> NoRegs]
  /\ call = [p \in Procs |-> [op |-> "none"]]
  /\ fd = [p \in Procs |-> NoInum]
  /\ calls = 0 /\ panicked = "no" /\ astray = FALSE

-----------------------------------------------------------------------------
(* Steps of a call *)

Do(s)      == <<s, NoInum>>
Iput(i)    == <<"iput", i>>

At(p, s)   == k[p] # <<>> /\ Head(k[p])[1] = s
Arg(p)     == Head(k[p])[2]

\* p goes on with the steps s and then with rest; when the call returns, its
\* local variables are gone.
Continue(p, s, rest, r) ==
  /\ k' = [k EXCEPT ![p] = s \o rest]
  /\ reg' = [reg EXCEPT ![p] = IF s \o rest = <<>> THEN NoRegs ELSE r]
Goto(p, s, r)   == Continue(p, s, Tail(k[p]), r)
Return(p, s, r) == Continue(p, s, <<>>, r)

Panic(s) == /\ panicked' = s
            /\ UNCHANGED <<di, ents, ic, k, reg, call, fd, cwd, menu, calls, astray>>

Free(i) == ic[i].lock = NoProc
Locked(p, i) == ic[i].lock = p

\* ilock() would read an inode that is free.
NoType(i) == ~ic[i].valid /\ di[i].type = "free"

\* ilock() does not have to wait, and does not panic.
Lockable(i) == Free(i) /\ ~NoType(i)

\* The cache entry once ilock() has read the inode.
Ilock(i) == IF ic[i].valid THEN ic[i]
            ELSE [ic[i] EXCEPT !.valid = TRUE, !.type = di[i].type,
                               !.nlink = di[i].nlink]

\* iget(): a new reference in the cache c; an entry without references is
\* recycled.
Iget_CachedUncounted(c, i) ==
  [c EXCEPT ![i].ref = IF @ = 0 THEN 1 ELSE @, ![i].valid = @ /\ c[i].ref > 0]
Iget(c, i) == [c EXCEPT ![i].ref = @ + 1, ![i].valid = @ /\ c[i].ref > 0]

\* iupdate() writes the entry e of inode i through to the disk d.
Iupdate_NoNlink(d, i, e) == [d EXCEPT ![i].type = e.type]
Iupdate(d, i, e) == [d EXCEPT ![i].type = e.type, ![i].nlink = e.nlink]

\* dirlookup() returns inode i, which nobody has and no link leads to.
Gone(i) == di[i].nlink = 0 /\ ic[i].ref = 0
Lookup(i) == astray' = (astray \/ Gone(i))

\* Where namex() begins, and what is left of the path.
Begin(p, path) == IF Head(path) = "/" THEN [cur |-> Root, path |-> Tail(path)]
                  ELSE [cur |-> cwd[p], path |-> path]

\* A system call starts.
StepsOf(c) ==
  CASE c.op = "open"   -> <<Do("namei"), Do("open")>>
    [] c.op = "creat"  -> <<Do("nameiparent"), Do("create"), Do("open")>>
    [] c.op \in {"mkdir", "mknod"} ->
                          <<Do("nameiparent"), Do("create"), Do("made")>>
    [] c.op = "unlink" -> <<Do("nameiparent"), Do("unlink")>>
    [] c.op = "link"   -> <<Do("namei"), Do("link"), Do("nameiparent"),
                            Do("dirlink")>>
    [] c.op = "chdir"  -> <<Do("namei"), Do("chdir")>>

Start(p, c) ==
  LET b == Begin(p, c.path)
  IN /\ k[p] = <<>> /\ calls < MaxCalls
     /\ k' = [k EXCEPT ![p] = StepsOf(c)]
     /\ reg' = [reg EXCEPT ![p].cur = b.cur, ![p].path = b.path]
     /\ ic' = Iget(ic, b.cur)
     /\ call' = [call EXCEPT ![p] = c]
     /\ calls' = calls + 1
     /\ UNCHANGED <<di, ents, fd, cwd, menu, panicked, astray>>

\* sys_close(): the last reference to the file; fileclose() calls iput().
Close(p) ==
  /\ k[p] = <<>> /\ fd[p] # NoInum
  /\ k' = [k EXCEPT ![p] = <<Iput(fd[p])>>]
  /\ fd' = [fd EXCEPT ![p] = NoInum]
  /\ UNCHANGED <<di, ents, ic, reg, cwd, astray, others>>

-----------------------------------------------------------------------------
(* iput() *)

\* Without links, and this is the only reference.
Last_AnyRef(i) == ic[i].valid /\ ic[i].nlink = 0
Last(i) == ic[i].valid /\ ic[i].nlink = 0 /\ ic[i].ref = 1

\* It takes the lock and looks at nlink and ref; an inode to be freed stays
\* locked, any other is unlocked.
IputTest(p) ==
  /\ At(p, "iput")
  /\ LET i == Arg(p)
         last == Last(i)
     IN /\ Free(i)
        /\ ic' = [ic EXCEPT ![i].lock = IF last THEN p ELSE NoProc]
        /\ Goto(p, IF last THEN <<<<"ifree", i>>, <<"iunref", i>>>>
                   ELSE <<<<"iunref", i>>>>, reg[p])
  /\ UNCHANGED <<di, ents, fd, cwd, astray, others>>

\* itrunc(), type 0, iupdate(), and the lock is released.
IputFree(p) ==
  /\ At(p, "ifree")
  /\ LET i == Arg(p)
     IN /\ ents' = [ents EXCEPT ![i] = NoEnts]
        /\ ic' = [ic EXCEPT ![i].valid = FALSE, ![i].type = "free",
                            ![i].lock = NoProc]
        /\ di' = Iupdate(di, i, ic'[i])
  /\ Goto(p, <<>>, reg[p])
  /\ UNCHANGED <<fd, cwd, astray, others>>

\* Only then is the reference dropped.
IputUnref(p) ==
  /\ At(p, "iunref")
  /\ ic' = [ic EXCEPT ![Arg(p)].ref = @ - 1]
  /\ Goto(p, <<>>, reg[p])
  /\ UNCHANGED <<di, ents, fd, cwd, astray, others>>

Iunlock(p) ==
  /\ At(p, "iunlock")
  /\ ic' = [ic EXCEPT ![Arg(p)].lock = NoProc]
  /\ Goto(p, <<>>, reg[p])
  /\ UNCHANGED <<di, ents, fd, cwd, astray, others>>

-----------------------------------------------------------------------------
(* namex() *)

\* There is no element left of the path: the parent is wanted of "/".
NamexEnd(p) ==
  LET i == reg[p].cur
  IN /\ reg[p].path = <<>>
     /\ \/ At(p, "namei") /\ Goto(p, <<>>, [reg[p] EXCEPT !.ip = i])
        \/ At(p, "nameiparent") /\ Goto(p, <<Iput(i)>>, [reg[p] EXCEPT !.dp = NoInum])
     /\ UNCHANGED <<di, ents, ic, fd, cwd, astray, others>>

\* iunlockput(ip), and namex() returns 0.
NamexFails(p) ==
  LET i == reg[p].cur
  IN /\ ic' = [ic EXCEPT ![i] = Ilock(i)] /\ UNCHANGED astray
     /\ Goto(p, <<Iput(i)>>, [reg[p] EXCEPT !.dp = NoInum])

\* One turn of its loop: the directory is locked, searched and unlocked; then
\* it is put, and the search goes on in the inode found.
Namex(p) ==
  LET i      == reg[p].cur
      parent == At(p, "nameiparent")
      e      == Ilock(i)
      next   == ents[i][Head(reg[p].path)]
      left   == Tail(reg[p].path)
      found  == [reg[p] EXCEPT !.cur = next, !.path = left]
  IN /\ At(p, "namei") \/ parent
     /\ reg[p].path # <<>> /\ Lockable(i)
     /\ \/ e.type # "dir" /\ NamexFails(p)
        \/ /\ e.type = "dir" /\ parent /\ left = <<>>
           /\ ic' = [ic EXCEPT ![i] = e] /\ UNCHANGED astray
           /\ Goto(p, <<>>, [reg[p] EXCEPT !.dp = i])
        \/ e.type = "dir" /\ ~(parent /\ left = <<>>) /\ next = NoInum /\ NamexFails(p)
        \/ /\ e.type = "dir" /\ ~(parent /\ left = <<>>)
           /\ next # NoInum /\ Lookup(next)
           /\ ic' = Iget([ic EXCEPT ![i] = e], next)
           /\ IF left = <<>>
              THEN Goto(p, <<Iput(i)>>, [found EXCEPT !.ip = next])
              ELSE Goto(p, <<Iput(i), Head(k[p])>>, found)
     /\ UNCHANGED <<di, ents, fd, cwd, others>>

-----------------------------------------------------------------------------
(* create(), and the ends of sys_open(), sys_mkdir() and sys_mknod() *)

\* The last element of the path that nameiparent() has left.
Name(p) == Head(reg[p].path)

NewType(p) == CASE call[p].op = "creat" -> "file"
                [] call[p].op = "mkdir" -> "dir"
                [] call[p].op = "mknod" -> "dev"

\* No parent: the call fails.
CreateFails(p) ==
  /\ At(p, "create") /\ reg[p].dp = NoInum
  /\ Return(p, <<>>, reg[p])
  /\ UNCHANGED <<di, ents, ic, fd, cwd, astray, others>>

\* The name exists: dp is released before its inode is locked.
CreateExists(p) ==
  LET d == reg[p].dp
      i == ents[d][Name(p)]
  IN /\ At(p, "create") /\ d # NoInum /\ Lockable(d) /\ i # NoInum /\ Lookup(i)
     /\ ic' = Iget([ic EXCEPT ![d] = Ilock(d)], i)
     /\ Goto(p, <<Iput(d), Do("exists")>>, [reg[p] EXCEPT !.ip = i])
     /\ UNCHANGED <<di, ents, fd, cwd, others>>

\* create() returns an existing file locked, and nothing else.
Exists(p) ==
  LET i == reg[p].ip
      e == Ilock(i)
  IN /\ At(p, "exists") /\ Lockable(i)
     /\ IF NewType(p) = "file" /\ e.type = "file"
        THEN /\ ic' = [ic EXCEPT ![i] = [e EXCEPT !.lock = p]]
             /\ Goto(p, <<>>, reg[p])
        ELSE /\ ic' = [ic EXCEPT ![i] = e]
             /\ Return(p, <<Iput(i)>>, reg[p])
     /\ UNCHANGED <<di, ents, fd, cwd, astray, others>>

\* ialloc() takes the first free inode.
Ialloc(i) == /\ di[i].type = "free"
             /\ \A j \in Inums : j < i => di[j].type # "free"

\* The name is new: ialloc() marks an inode on disk, without a link as yet.
CreateAlloc(p) ==
  LET d == reg[p].dp
      new == /\ At(p, "create") /\ d # NoInum /\ Lockable(d)
             /\ ents[d][Name(p)] = NoInum
  IN \/ \E i \in Inums :
          /\ new /\ Ialloc(i)
          /\ di' = [di EXCEPT ![i] = [type |-> NewType(p), nlink |-> 0]]
          /\ ic' = [ic EXCEPT ![d] = [Ilock(d) EXCEPT !.lock = p]]
          /\ Goto(p, <<<<"iget", i>>>>, reg[p])
          /\ UNCHANGED <<ents, fd, cwd, astray, others>>
     \/ /\ new /\ ~\E i \in Inums : Ialloc(i)
        /\ Panic("ialloc: no inodes")

\* Only then does ialloc() get an entry of the cache for it.
CreateIget(p) ==
  /\ At(p, "iget")
  /\ ic' = Iget(ic, Arg(p))
  /\ Goto(p, <<Do("new")>>, [reg[p] EXCEPT !.ip = Arg(p)])
  /\ UNCHANGED <<di, ents, fd, cwd, astray, others>>

\* The entries "." and ".." of the new directory i in d.
Dotted(es, i, d) == [es EXCEPT ![i]["."] = i, ![i][".."] = d]

\* The inode gets its link, a directory also its entries "." and "..", the second
\* of which is a link of dp, before the entry is written.  dp is unlocked and put
\* while the new inode stays locked.
CreateNew(p) ==
  LET d == reg[p].dp
      i == reg[p].ip
      isdir == NewType(p) = "dir"
      e == [ic[d] EXCEPT !.nlink = @ + (IF isdir THEN 1 ELSE 0), !.lock = NoProc]
      f == [Ilock(i) EXCEPT !.nlink = 1, !.lock = p]
      dotted == \E n \in Dots : ents[i][n] # NoInum
  IN /\ At(p, "new") /\ Lockable(i)
     /\ \/ isdir /\ dotted /\ Panic("create dots")
        \/ /\ ~(isdir /\ dotted)
           /\ ic' = [ic EXCEPT ![d] = e, ![i] = f]
           /\ di' = Iupdate(Iupdate(di, i, f), d, e)
           /\ ents' = [(IF isdir THEN Dotted(ents, i, d) ELSE ents)
                         EXCEPT ![d][Name(p)] = i]
           /\ Goto(p, <<Iput(d)>>, reg[p])
           /\ UNCHANGED <<fd, cwd, astray, others>>

\* sys_mkdir(), sys_mknod(): iunlockput().
Made(p) ==
  /\ At(p, "made")
  /\ ic' = [ic EXCEPT ![reg[p].ip].lock = NoProc]
  /\ Goto(p, <<Iput(reg[p].ip)>>, reg[p])
  /\ UNCHANGED <<di, ents, fd, cwd, astray, others>>

\* The rest of sys_open(), with the inode of namei() or, already locked, of
\* create(): a directory is opened for reading only, and without a free
\* descriptor the inode is put again.
Open(p) ==
  LET i == reg[p].ip
      e == [Ilock(i) EXCEPT !.lock = NoProc]
      fails == \/ call[p].op = "open" /\ e.type = "dir" /\ call[p].write
               \/ fd[p] # NoInum
  IN /\ At(p, "open")
     /\ \/ /\ i = NoInum /\ Goto(p, <<>>, reg[p])
           /\ UNCHANGED <<ic, fd>>
        \/ /\ i # NoInum /\ (Locked(p, i) \/ Lockable(i))
           /\ ic' = [ic EXCEPT ![i] = e]
           /\ IF fails THEN Goto(p, <<Iput(i)>>, reg[p]) /\ UNCHANGED fd
              ELSE Goto(p, <<>>, reg[p]) /\ fd' = [fd EXCEPT ![p] = i]
     /\ UNCHANGED <<di, ents, cwd, astray, others>>

-----------------------------------------------------------------------------
(* sys_unlink() *)

\* dp is locked and searched, not for "." or ".."; an inode found is locked next,
\* under it.
Unlink(p) ==
  LET d == reg[p].dp
      i == ents[d][Name(p)]
  IN /\ At(p, "unlink")
     /\ \/ /\ d = NoInum /\ Goto(p, <<>>, reg[p]) /\ UNCHANGED ic
        \/ /\ d # NoInum /\ Lockable(d) /\ (Name(p) \in Dots \/ i = NoInum)
           /\ ic' = [ic EXCEPT ![d] = Ilock(d)]
           /\ Goto(p, <<Iput(d)>>, reg[p])
        \/ /\ d # NoInum /\ Lockable(d) /\ Name(p) \notin Dots /\ i # NoInum
           /\ ic' = Iget([ic EXCEPT ![d] = [Ilock(d) EXCEPT !.lock = p]], i)
           /\ Goto(p, <<Do("unlinked")>>, [reg[p] EXCEPT !.ip = i])
     /\ UNCHANGED <<di, ents, fd, cwd, astray, others>>

\* isdirempty().
Empty(i) == \A n \in Names : ents[i][n] = NoInum

\* A directory that is not empty stays.  Otherwise the entry goes, with the
\* link of a directory's ".."; dp is unlocked and put while ip stays locked,
\* and then ip loses its link.
Unlinked(p) ==
  LET d == reg[p].dp
      i == reg[p].ip
      e == Ilock(i)
      isdir == e.type = "dir"
      f == [ic[d] EXCEPT !.nlink = @ - (IF isdir THEN 1 ELSE 0),
                         !.lock = NoProc]
  IN /\ At(p, "unlinked") /\ Lockable(i)
     /\ IF isdir /\ ~Empty(i)
        THEN /\ ic' = [ic EXCEPT ![i] = e]
             /\ Goto(p, <<Iput(i), <<"iunlock", d>>, Iput(d)>>, reg[p])
             /\ UNCHANGED <<di, ents>>
        ELSE /\ ents' = [ents EXCEPT ![d][Name(p)] = NoInum]
             /\ ic' = [ic EXCEPT ![d] = f, ![i] = [e EXCEPT !.lock = p]]
             /\ di' = Iupdate(di, d, f)
             /\ Goto(p, <<Iput(d), Do("droplink"), Iput(i)>>, reg[p])
     /\ UNCHANGED <<fd, cwd, astray, others>>

\* Without iupdate().
DropLink_NoUpdate(p) ==
  LET i == reg[p].ip
      e == [Ilock(i) EXCEPT !.nlink = @ - 1, !.lock = NoProc]
  IN /\ At(p, "droplink") /\ (Locked(p, i) \/ Lockable(i))
     /\ ic' = [ic EXCEPT ![i] = e] /\ UNCHANGED di
     /\ Goto(p, <<>>, reg[p])
     /\ UNCHANGED <<ents, fd, cwd, astray, others>>

\* ip->nlink-- of sys_unlink(), which has ip locked, and of the failing
\* sys_link(), which locks it.
DropLink(p) ==
  LET i == reg[p].ip
      e == [Ilock(i) EXCEPT !.nlink = @ - 1, !.lock = NoProc]
  IN /\ At(p, "droplink") /\ (Locked(p, i) \/ Lockable(i))
     /\ ic' = [ic EXCEPT ![i] = e] /\ di' = Iupdate(di, i, e)
     /\ Goto(p, <<>>, reg[p])
     /\ UNCHANGED <<ents, fd, cwd, astray, others>>

-----------------------------------------------------------------------------
(* sys_link() and sys_chdir() *)

\* The inode gets its new link before the directory is looked for.
Link(p) ==
  LET i == reg[p].ip
      e == Ilock(i)
      f == [e EXCEPT !.nlink = @ + 1]
      b == Begin(p, call[p].new)
  IN /\ At(p, "link")
     /\ \/ /\ i = NoInum /\ Return(p, <<>>, reg[p])
           /\ UNCHANGED <<ic, di>>
        \/ /\ i # NoInum /\ Lockable(i) /\ e.type = "dir"
           /\ ic' = [ic EXCEPT ![i] = e]
           /\ Return(p, <<Iput(i)>>, reg[p])
           /\ UNCHANGED di
        \/ /\ i # NoInum /\ Lockable(i) /\ e.type # "dir"
           /\ ic' = Iget([ic EXCEPT ![i] = f], b.cur)
           /\ di' = Iupdate(di, i, f)
           /\ Goto(p, <<>>, [reg[p] EXCEPT !.cur = b.cur, !.path = b.path])
     /\ UNCHANGED <<ents, fd, cwd, astray, others>>

\* The new entry, unless the directory or its name is not to be had; then the
\* link is taken back.  An inode that has the name is put under dp's lock.
Dirlink(p) ==
  LET d == reg[p].dp
      i == reg[p].ip
      old == ents[d][Name(p)]
      bad == <<Do("droplink"), Iput(i)>>
  IN /\ At(p, "dirlink")
     /\ \/ /\ d = NoInum /\ Goto(p, bad, reg[p])
           /\ UNCHANGED <<ic, ents, astray>>
        \/ /\ d # NoInum /\ Lockable(d) /\ old # NoInum /\ Lookup(old)
           /\ ic' = Iget([ic EXCEPT ![d] = [Ilock(d) EXCEPT !.lock = p]], old)
           /\ Goto(p, <<Iput(old), <<"iunlock", d>>, Iput(d)>> \o bad, reg[p])
           /\ UNCHANGED ents
        \/ /\ d # NoInum /\ Lockable(d) /\ old = NoInum /\ UNCHANGED astray
           /\ ents' = [ents EXCEPT ![d][Name(p)] = i]
           /\ ic' = [ic EXCEPT ![d] = Ilock(d)]
           /\ Goto(p, <<Iput(d), Iput(i)>>, reg[p])
     /\ UNCHANGED <<di, fd, cwd, others>>


\* sys_chdir(): the old working directory is put before the new one is set.
Chdir(p) ==
  LET i == reg[p].ip
      e == Ilock(i)
  IN /\ At(p, "chdir")
     /\ \/ /\ i = NoInum /\ Goto(p, <<>>, reg[p])
           /\ UNCHANGED ic
        \/ /\ i # NoInum /\ Lockable(i)
           /\ ic' = [ic EXCEPT ![i] = e]
           /\ Goto(p, IF e.type # "dir" THEN <<Iput(i)>>
                      ELSE <<Iput(cwd[p]), Do("setcwd")>>, reg[p])
     /\ UNCHANGED <<di, ents, fd, cwd, astray, others>>

SetCwd(p) ==
  /\ At(p, "setcwd")
  /\ cwd' = [cwd EXCEPT ![p] = reg[p].ip]
  /\ Goto(p, <<>>, reg[p])
  /\ UNCHANGED <<di, ents, ic, fd, astray, others>>

-----------------------------------------------------------------------------
\* The lock a process must have for its next step.
Wants(p) ==
  LET s == Head(k[p])[1]
  IN CASE s = "iput" -> Arg(p)
       [] s \in {"namei", "nameiparent"} ->
            IF reg[p].path = <<>> THEN NoInum ELSE reg[p].cur
       [] s \in {"create", "unlink", "dirlink"} -> reg[p].dp
       [] s \in {"exists", "new", "open", "unlinked", "droplink", "link", "chdir"} ->
            reg[p].ip
       [] OTHER -> NoInum

\* panic() of ilock(), which iput() does not call.
PanicNoType(p) ==
  /\ k[p] # <<>> /\ ~At(p, "iput") /\ Wants(p) # NoInum
  /\ Free(Wants(p)) /\ NoType(Wants(p))
  /\ Panic("ilock: no type")

Step(p) == \/ IputTest(p) \/ IputFree(p) \/ IputUnref(p) \/ Iunlock(p)
           \/ NamexEnd(p) \/ Namex(p)
           \/ CreateFails(p) \/ CreateExists(p) \/ Exists(p)
           \/ CreateAlloc(p) \/ CreateIget(p) \/ CreateNew(p)
           \/ Made(p) \/ Open(p)
           \/ Unlink(p) \/ Unlinked(p) \/ DropLink(p)
           \/ Link(p) \/ Dirlink(p) \/ Chdir(p) \/ SetCwd(p)
           \/ PanicNoType(p)

Next == panicked = "no" /\
        \E p \in Procs : Step(p) \/ Close(p) \/ \E c \in Menus[menu] : Start(p, c)

Spec == Init /\ [][Next]_vars

-----------------------------------------------------------------------------
(* Properties *)

\* What p waits for, q has; it may be p itself.
WaitsFor(p, q) == /\ k[p] # <<>> /\ Wants(p) # NoInum /\ Locked(q, Wants(p))
                  /\ p = q => ~At(p, "open") /\ ~At(p, "droplink")

Steps(p) == {k[p][n][1] : n \in 1..Len(k[p])}
Puts(p)  == {n \in 1..Len(k[p]) : k[p][n][1] \in {"iput", "iunref"}}
\* namex() is under way when its step is the first one that is no iput().
Walks(p) == \E n \in 1..Len(k[p]) :
              /\ k[p][n][1] \in {"namei", "nameiparent"}
              /\ \A m \in 1..(n - 1) : k[p][m][1] \in {"iput", "iunref", "ifree"}

\* The pointers of p to inode i that count as references.
Pointers(p, i) ==
  Cardinality({n \in Puts(p) : k[p][n][2] = i})
  + (IF Walks(p) /\ reg[p].cur = i THEN 1 ELSE 0)
  + (IF reg[p].ip = i /\ Steps(p) \intersect {"open", "exists", "made", "unlinked",
                                        "link", "dirlink", "chdir", "setcwd"} # {}
     THEN 1 ELSE 0)
  + (IF reg[p].dp = i /\ Steps(p) \intersect {"create", "iget", "new", "unlink",
                                        "unlinked", "dirlink"} # {} THEN 1 ELSE 0)
  + (IF fd[p] = i THEN 1 ELSE 0)
  + (IF cwd[p] = i /\ "setcwd" \notin Steps(p) THEN 1 ELSE 0)

\* ip->ref counts the pointers to the inode: open files, working directories,
\* and what calls have in hand, on every path through namex(), create(),
\* sys_link() and sys_unlink().
RefsExact == \A i \in Inums :
  ic[i].ref = MapThenSumSet(LAMBDA p : Pointers(p, i), Procs)

\* A directory that has lost its name, and with it what keeps its parent.
Nameless(d) == d # Root /\ \A e \in Inums, n \in Names : ents[e][n] # d

\* Every entry of a directory that is not Gone itself names an inode that is not,
\* and an entry other than "." and ".." one with a link, so that sys_unlink() never
\* panics with "nlink < 1".  Only the ".." of a directory that has been removed, or
\* was made in one, while it was somebody's current directory may name an inode
\* that has been freed.
EntriesSound ==
  \A d \in Inums, n \in Names \union Dots :
    LET i == ents[d][n]
    IN i # NoInum => /\ n \in Names => di[i].type # "free" /\ di[i].nlink > 0
                     /\ Gone(i) /\ ~Gone(d) => n = ".." /\ Nameless(d)

\* As long as nobody has followed such a "..", a free inode is not in use: all that
\* is left of it is the last step of iput().  So ilock() panics with "no type", and
\* create() with "create dots", only afterwards.
NoDangling ==
  /\ panicked \in {"ilock: no type", "create dots"} => astray
  /\ \A i \in Inums : ~astray /\ di[i].type = "free" =>
       \A p \in Procs : Pointers(p, i) =
         Cardinality({n \in Puts(p) : k[p][n] = <<"iunref", i>>})

\* What the cache says of an inode that is valid is what the disk says.
CacheCurrent ==
  \A i \in Inums : ic[i].valid /\ ic[i].ref > 0 =>
    ic[i].type = di[i].type /\ ic[i].nlink = di[i].nlink

\* The links nlink should count: the entries for i, the ".." of each directory in
\* i, one for the root; and those of a sys_link() or sys_unlink() under way.
Links(i) ==
  Cardinality({x \in Inums \X Names : ents[x[1]][x[2]] = i})
  + Cardinality({n \in Names : ents[i][n] # NoInum /\ di[ents[i][n]].type = "dir"})
  + (IF i = Root THEN 1 ELSE 0)
  + Cardinality({p \in Procs : reg[p].ip = i /\
                   (\/ "droplink" \in Steps(p)
                    \/ "dirlink" \in Steps(p) /\ "link" \notin Steps(p))})

\* nlink tracks the directory entries: only a directory that is freed with
\* entries in it besides "." and ".." (create() and sys_link() put them there after
\* sys_unlink() found it empty) leaves inodes with more links than entries.  Once a
\* process has followed a ".." to an inode that is Gone, ialloc() may be in the
\* middle of giving that to another file.
NlinkTracksEntries ==
  [][\A i \in Inums : di[i].nlink - Links(i) # (di[i].nlink - Links(i))' =>
       \/ astray
       \/ \E p \in Procs : At(p, "ifree") /\ ~Empty(Arg(p))]_vars

\* p puts the parent directory of an inode that it keeps locked, as create()
\* and sys_unlink() do with iunlockput(dp).
PutsParent(p) == /\ At(p, "iput") /\ Arg(p) = reg[p].dp
                 /\ reg[p].ip # NoInum /\ Locked(p, reg[p].ip)

\* p puts what "." or ".." names in a directory that it keeps locked, as dirlink()
\* does for link(old, "."), where it waits for itself, and for link(old, "d/..").
PutsDots(p) == /\ At(p, "iput") /\ call[p].op = "link"
               /\ reg[p].dp # NoInum /\ Locked(p, reg[p].dp)
               /\ Name(p) \in Dots


\* The inodes as the system calls rely on them: ref counts the pointers, entries
\* lead to inodes, and a valid cache entry is what iupdate() has written.
InodesSound == RefsExact /\ EntriesSound /\ NoDangling /\ CacheCurrent
=============================================================================
