------------------------------- MODULE Memory -------------------------------
(***************************************************************************)
(* Physical pages and user address spaces: kalloc.c, the user half of      *)
(* vm.c, exec(), growproc(), and what fork(), wait() and userinit() do     *)
(* with memory.  A call is one step: its pages are its process's own, and  *)
(* what other processes take from the free list in between shows only as   *)
(* kalloc() failing earlier, which happens here for small PHYSTOP.         *)
(*                                                                         *)
(* A page holds one value, the last thing written to it.  Addresses are    *)
(* bytes, as the rounding to pages needs.                                  *)
(***************************************************************************)
EXTENDS Integers, Sequences, SequencesExt, FiniteSets

CONSTANTS
  Procs, initproc,
  Memories,            \* numbers of physical pages to start with
  PGSIZE, NPT,         \* bytes of a page, entries of a page table
  KERNPAGES,           \* user pages below KERNBASE
  ADDRS,               \* number of addresses: 2^32
  KTABLES,             \* page tables that the kernel mappings of kmap[] take
  MAXARG,
  Growths,             \* arguments of sbrk()
  Images, ArgLists,    \* programs and argument lists for exec()
  MaxCalls             \* bound: calls made

VARIABLES
  freelist,            \* kmem.freelist
  mem,                 \* what each page holds
  as,                  \* p->pgdir, p->sz and p->kstack of each process
  view,                \* ghost: the memory that each process should see
  calls

vars == <<freelist, mem, as, view, calls>>

NoPage   == 0
KERNBASE == KERNPAGES * PGSIZE
UserPages == 0..(KERNPAGES - 1)
Tables   == 0..(((KERNPAGES - 1) \div NPT) + KTABLES)
Unmapped == [page |-> NoPage, user |-> FALSE]
NoSpace  == [dir |-> NoPage, tabs |-> [t \in Tables |-> NoPage],
             pte |-> [v \in UserPages |-> Unmapped], sz |-> 0, kstack |-> NoPage]
NoView   == [v \in UserPages |-> "none"]

PGROUNDUP(a) == (a + PGSIZE - 1) \div PGSIZE      \* in pages
PageOf(a)    == a \div PGSIZE
Upto(a, b)   == [i \in 1..(IF b > a THEN b - a ELSE 0) |-> a + i - 1]

-----------------------------------------------------------------------------
(* x is a machine with one address space in the making: freelist, mem, and *)
(* the fields of as[p]; x.ok says whether every kalloc() so far succeeded. *)

kfree(x, pg) == [x EXCEPT !.free = <<pg>> \o @, !.mem[pg] = "junk"]

\* The page is not cleared.
kalloc_Uncleared(x, fill) ==
  IF ~x.ok \/ x.free = <<>> THEN [x EXCEPT !.ok = FALSE, !.page = NoPage]
  ELSE LET pg == Head(x.free)
       IN [x EXCEPT !.free = Tail(@), !.page = pg,
                    !.mem[pg] = IF fill = "zero" THEN @ ELSE fill]
\* kalloc() of x.page, which the caller then zeroes or fills.
kalloc(x, fill) ==
  IF ~x.ok \/ x.free = <<>> THEN [x EXCEPT !.ok = FALSE, !.page = NoPage]
  ELSE LET pg == Head(x.free)
       IN [x EXCEPT !.free = Tail(@), !.page = pg, !.mem[pg] = fill]

\* walkpgdir(): page table t is there, or is allocated.
walkpgdir(x, t) ==
  IF x.tabs[t] # NoPage THEN x
  ELSE LET y == kalloc(x, "zero") IN [y EXCEPT !.tabs[t] = y.page]

\* A page for v, with mappages(); a page that cannot be mapped is freed after
\* the cleanup of the caller, which is what lost holds it for.
MapPage(x, v, fill, user) ==
  LET y == kalloc(x, fill)
      z == walkpgdir(y, v \div NPT)
  IN IF ~y.ok THEN y
     ELSE IF z.ok THEN [z EXCEPT !.pte[v] = [page |-> y.page, user |-> user]]
     ELSE [z EXCEPT !.lost = y.page]

FreeLost_Forgets(x) == [x EXCEPT !.lost = NoPage]
FreeLost(x) == IF x.lost = NoPage THEN x
               ELSE [kfree(x, x.lost) EXCEPT !.lost = NoPage]

\* The loop of deallocuvm() over the pages from a up to b.
FreePages(x, a, b) ==
  FoldLeft(LAMBDA y, v : IF y.pte[v].page = NoPage THEN y
                         ELSE [kfree(y, y.pte[v].page) EXCEPT !.pte[v] = Unmapped],
           x, Upto(a, b))

\* On failure the pages that were allocated stay.
allocuvm_KeepsPart(x, oldsz, newsz) ==
  IF ~x.ok \/ newsz >= KERNBASE THEN [x EXCEPT !.ok = FALSE]
  ELSE IF newsz < oldsz THEN [x EXCEPT !.sz = oldsz]
  ELSE LET y == FoldLeft(LAMBDA z, v : MapPage(z, v, "zero", TRUE), x,
                         Upto(PGROUNDUP(oldsz), PGROUNDUP(newsz)))
       IN IF y.ok THEN [y EXCEPT !.sz = newsz] ELSE FreeLost(y)
\* allocuvm(): all pages from oldsz to newsz, or none of them.
allocuvm(x, oldsz, newsz) ==
  IF ~x.ok \/ newsz >= KERNBASE THEN [x EXCEPT !.ok = FALSE]
  ELSE IF newsz < oldsz THEN [x EXCEPT !.sz = oldsz]
  ELSE LET y == FoldLeft(LAMBDA z, v : MapPage(z, v, "zero", TRUE), x,
                         Upto(PGROUNDUP(oldsz), PGROUNDUP(newsz)))
       IN IF y.ok THEN [y EXCEPT !.sz = newsz]
          ELSE FreeLost(FreePages(y, PGROUNDUP(oldsz), PGROUNDUP(newsz)))

freevm(x) ==
  LET y == FreePages(x, 0, KERNPAGES)
      z == FoldLeft(LAMBDA w, t : IF w.tabs[t] = NoPage THEN w
                                  ELSE kfree(w, w.tabs[t]),
                    y, Upto(0, Cardinality(Tables)))
  IN kfree(z, z.dir)

\* setupkvm(): the directory and the tables of the kernel part.
setupkvm(x) ==
  LET y == kalloc(x, "zero")
      n == Cardinality(Tables)
      z == FoldLeft(LAMBDA w, t : walkpgdir(w, t), [y EXCEPT !.dir = y.page],
                    Upto(n - KTABLES, n))
  IN IF y.ok /\ ~z.ok THEN freevm(z) ELSE z

\* copyuvm() of the address space s, into x.
copyuvm(x, s) ==
  LET d == setupkvm(x)
      y == FoldLeft(LAMBDA z, v : MapPage(z, v, z.mem[s.pte[v].page], s.pte[v].user),
                    d, Upto(0, PGROUNDUP(s.sz)))
  IN IF ~d.ok \/ y.ok THEN y ELSE freevm(FreeLost(y))

\* copyout(): the pages from va on must be present and the user's.  uva2ka() would
\* dereference a null pointer for a page that has not even a page table, which the
\* argument lists of the instances never reach: they end in the stack of the new
\* program or in the guard page below it.
copyout(x, va, len) ==
  FoldLeft(LAMBDA y, v :
             IF y.ok /\ v \in UserPages /\ y.pte[v].user
             THEN [y EXCEPT !.mem[y.pte[v].page] = "args"]
             ELSE [y EXCEPT !.ok = FALSE],
           x, Upto(PageOf(va), PageOf(va + len - 1) + 1))

-----------------------------------------------------------------------------
\* The machine that a call for a new address space starts with.
Fresh == [ok |-> TRUE, free |-> freelist, mem |-> mem, lost |-> NoPage,
          dir |-> NoPage, tabs |-> NoSpace.tabs, pte |-> NoSpace.pte, sz |-> 0,
          page |-> NoPage]
\* The same with an address space of its own.
With(x, s) == [x EXCEPT !.dir = s.dir, !.tabs = s.tabs, !.pte = s.pte, !.sz = s.sz]
Space(x, kstack) == [dir |-> x.dir, tabs |-> x.tabs, pte |-> x.pte, sz |-> x.sz,
                     kstack |-> kstack]
Machine(x) == \E y \in {x} : freelist' = y.free /\ mem' = y.mem

\* userinit() on a machine whose free list kinit1() and kinit2() have filled.
Init ==
  \E n \in Memories :
    LET boot == [ok |-> TRUE, free |-> [i \in 1..n |-> n + 1 - i],
                 mem |-> [pg \in 1..n |-> "junk"], lost |-> NoPage,
                 dir |-> NoPage, tabs |-> NoSpace.tabs, pte |-> NoSpace.pte,
                 sz |-> PGSIZE, page |-> NoPage]
        x == MapPage(setupkvm([boot EXCEPT !.free = Tail(@)]), 0, "text", TRUE)
    IN /\ freelist = x.free /\ mem = x.mem
       /\ as = [p \in Procs |-> IF p = initproc THEN Space(x, n) ELSE NoSpace]
       /\ view = [p \in Procs |-> IF p = initproc THEN [NoView EXCEPT ![0] = "text"]
                                  ELSE NoView]
       /\ calls = 0

\* p runs user code: its first page is there.
Runs(p) == as[p].dir # NoPage /\ as[p].pte[0].page # NoPage
Call(p) == calls < MaxCalls /\ Runs(p) /\ calls' = calls + 1
Failed  == UNCHANGED <<as, view>>

\* The program writes to one of its pages.
UserStore(p) ==
  /\ Call(p)
  /\ \E v \in UserPages :
       /\ as[p].pte[v].user
       /\ mem' = [mem EXCEPT ![as[p].pte[v].page] = "data"]
       /\ view' = [view EXCEPT ![p][v] = "data"]
  /\ UNCHANGED <<freelist, as>>

\* growproc(n).  sz + n is unsigned: below zero it comes out larger than sz, and
\* deallocuvm() does nothing.  A result of 0 is taken for a failure, also when
\* deallocuvm() has just freed everything.
Grow(p, n) ==
  /\ Call(p) /\ n > 0
  /\ \E x \in {allocuvm(With(Fresh, as[p]), as[p].sz, as[p].sz + n)} :
        /\ Machine(x)
        /\ as' = [as EXCEPT ![p] = Space(x, @.kstack)]
        /\ view' = [view EXCEPT ![p] = [v \in UserPages |->
             IF x.ok /\ PGROUNDUP(as[p].sz) <= v /\ v < PGROUNDUP(as[p].sz + n)
             THEN "zero" ELSE view[p][v]]]

Shrink(p, n) ==
  /\ Call(p) /\ n < 0
  /\ LET s == as[p]
         x == With(Fresh, s)
         newsz == (s.sz + n) % ADDRS
         y == FreePages(x, PGROUNDUP(newsz), PGROUNDUP(s.sz))
         sz == IF newsz >= s.sz \/ newsz = 0 THEN s.sz ELSE newsz
     IN /\ Machine(y)
        /\ as' = [as EXCEPT ![p] = [Space(y, @.kstack) EXCEPT !.sz = sz]]
        /\ view' = [view EXCEPT ![p] = [v \in UserPages |->
             IF s.sz + n >= 0 /\ v >= PGROUNDUP(s.sz + n) THEN "none"
             ELSE view[p][v]]]

-----------------------------------------------------------------------------
(* exec().  A program is a sequence of segments; readable says that the    *)
(* file has the bytes its headers promise.                                 *)

\* loaduvm() of one segment, after allocuvm() for it.
Load(x, seg) ==
  LET end == (seg.vaddr + seg.memsz) % ADDRS
  IN IF seg.memsz < seg.filesz \/ end < seg.vaddr THEN [x EXCEPT !.ok = FALSE]
  ELSE LET y == allocuvm(x, x.sz, end)
       IN IF ~y.ok \/ y.sz = 0 \/ seg.vaddr % PGSIZE # 0 \/ ~seg.readable
          THEN [y EXCEPT !.ok = FALSE]
          ELSE FoldLeft(LAMBDA z, v : [z EXCEPT !.mem[z.pte[v].page] = "text"], y,
                        Upto(PageOf(seg.vaddr), PGROUNDUP(seg.vaddr + seg.filesz)))

\* Two pages above the program; the lower one is made inaccessible.
Stack(x) ==
  LET top == PGROUNDUP(x.sz)
      y == allocuvm(x, top * PGSIZE, (top + 2) * PGSIZE)
  IN IF y.ok THEN [y EXCEPT !.pte[top].user = FALSE] ELSE y

\* The argument strings, each below the one before and word aligned, and then
\* argv[], argc and the return address; lens are the lengths of the strings.
Push(lens, sz) == FoldLeft(LAMBDA sps, len :
                    Append(sps, LET sp == (IF sps = <<>> THEN sz ELSE Last(sps)) - (len + 1)
                                IN sp - (sp % 4)),
                  <<>>, lens)
Args(x, lens) ==
  IF ~x.ok \/ Len(lens) > MAXARG THEN [x EXCEPT !.ok = FALSE]
  ELSE LET sps == Push(lens, x.sz)
           y == FoldLeft(LAMBDA z, i : copyout(z, sps[i], lens[i] + 1), x,
                         Upto(1, Len(lens) + 1))
           words == (4 + Len(lens)) * 4
           sp == (IF lens = <<>> THEN x.sz ELSE Last(sps)) - words
       IN copyout(y, sp, words)

\* What the new program should find in page v.
Loaded(img, top, v) ==
  IF \E i \in DOMAIN img : PageOf(img[i].vaddr) <= v
                           /\ v < PGROUNDUP(img[i].vaddr + img[i].filesz)
  THEN "text"
  ELSE IF v < top \/ v = top THEN "zero" ELSE IF v = top + 1 THEN "args" ELSE "none"

exec(p, img, lens) ==
  /\ Call(p)
  /\ \E x \in {setupkvm(Fresh)} : \E y \in {Args(Stack(FoldLeft(Load, x, img)), lens)} :
        \/ /\ y.ok
           /\ Machine(freevm(With(y, as[p])))
           /\ as' = [as EXCEPT ![p] = Space(y, @.kstack)]
           /\ view' = [view EXCEPT ![p] = [v \in UserPages |->
                                             Loaded(img, PageOf(y.sz) - 2, v)]]
        \/ ~x.ok /\ Machine(x) /\ Failed
        \/ x.ok /\ ~y.ok /\ Machine(freevm(y)) /\ Failed

-----------------------------------------------------------------------------
\* fork(): the stack of allocproc(), then the copy; q is the free slot.
fork(p, q) ==
  /\ Call(p) /\ as[q] = NoSpace
  /\ \E x \in {kalloc(Fresh, "kstack")} :
     \E y \in {copyuvm(x, as[p])} :
        \/ ~x.ok /\ Machine(x) /\ Failed
        \/ x.ok /\ ~y.ok /\ Machine(kfree(y, x.page)) /\ Failed
        \/ /\ x.ok /\ y.ok /\ Machine(y)
           /\ as' = [as EXCEPT ![q] = [Space(y, x.page) EXCEPT !.sz = as[p].sz]]
           /\ view' = [view EXCEPT ![q] = view[p]]

\* p exits, by itself or because it has no code left, and wait() frees it.
Reap(p) ==
  /\ p # initproc /\ as[p].dir # NoPage
  /\ Machine(freevm(With(kfree(Fresh, as[p].kstack), as[p])))
  /\ as' = [as EXCEPT ![p] = NoSpace] /\ view' = [view EXCEPT ![p] = NoView]
  /\ UNCHANGED calls

Next == \E p \in Procs :
  \/ UserStore(p)
  \/ \E n \in Growths : Grow(p, n) \/ Shrink(p, n)
  \/ \E img \in Images, lens \in ArgLists : exec(p, img, lens)
  \/ \E q \in Procs : fork(p, q)
  \/ Reap(p)

Spec == Init /\ [][Next]_vars

-----------------------------------------------------------------------------
(* Properties *)

\* The places that hold page pg: the free list, kernel stacks, page
\* directories, page tables and the pages mapped for users.
Places(pg) ==
  {<<"free", i>> : i \in {j \in DOMAIN freelist : freelist[j] = pg}}
  \cup {<<"kstack", p>> : p \in {q \in Procs : as[q].kstack = pg}}
  \cup {<<"dir", p>> : p \in {q \in Procs : as[q].dir = pg}}
  \cup {<<"tab", x>> : x \in {y \in Procs \X Tables : as[y[1]].tabs[y[2]] = pg}}
  \cup {<<"pte", x>> : x \in {y \in Procs \X UserPages :
                                 as[y[1]].pte[y[2]].page = pg}}

\* Every page is in exactly one place, whichever kalloc() of which call failed:
\* none is lost, freed twice, or given to two owners.
PagesExact == \A pg \in DOMAIN mem : Cardinality(Places(pg)) = 1

\* A process sees what it, or its parent before the fork(), has written, zeroes
\* in new memory, and its program after exec(); never another process's stores,
\* nor what was in the page before.
PrivateMemory ==
  \A p \in Procs, v \in UserPages :
     as[p].pte[v].page # NoPage => mem[as[p].pte[v].page] = view[p][v]

\* The pages of a process that can run are those below p->sz, so that copyuvm()
\* never panics with "page not present" and growproc() never with "remap".
MappedBelowSize ==
  \A p \in Procs : Runs(p) =>
     \A v \in UserPages : as[p].pte[v].page # NoPage <=> v < PGROUNDUP(as[p].sz)

\* Pages and address spaces after any sequence of sbrk(), fork(), exec() and
\* exit(), whichever kalloc() fails: every page has one owner, a process has the
\* pages below p->sz, and finds in them what it should.
MemorySafe == PagesExact /\ MappedBelowSize /\ PrivateMemory
=============================================================================
