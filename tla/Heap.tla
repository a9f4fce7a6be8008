-------------------------------- MODULE Heap --------------------------------
(***************************************************************************)
(* The allocator of user programs, umalloc.c.  Addresses count headers;    *)
(* hdr has the headers of the blocks there are, and base at 0, below the   *)
(* heap.  The program may move the break itself, so that what morecore()   *)
(* gets need not follow what it got before.                                *)
(***************************************************************************)
EXTENDS Integers, FiniteSets

CONSTANTS
  HDR,               \* sizeof(Header)
  CORE,              \* the least morecore() asks for, in headers
  Requests,          \* arguments of malloc(), in bytes
  Limit,             \* bound: the address where sbrk() always fails
  MaxHeld            \* bound: blocks the program holds

VARIABLES
  hdr,               \* the headers: ptr and size
  freep,             \* or Null
  brk,               \* the end of the process's memory
  held,              \* the program's blocks, with what it asked for
  cores,             \* ghost: the addresses sbrk() gave to morecore()
  denied            \* the request malloc() has just denied, or 0

vars == <<hdr, freep, brk, held, cores, denied>>

Null == -1
base == 0

Init ==
  /\ hdr = [a \in {base} |-> [ptr |-> Null, size |-> 0]]
  /\ freep = Null /\ brk = 1
  /\ held = [b \in {} |-> 0] /\ cores = {} /\ denied = 0

-----------------------------------------------------------------------------
\* Where free() stops: the free block before bp, or the last when bp is outside.
RECURSIVE Before(_, _, _)
Before(h, bp, p) ==
  LET q == h[p].ptr
  IN IF (bp > p /\ bp < q) \/ (p >= q /\ (bp > p \/ bp < q)) THEN p
     ELSE Before(h, bp, q)

\* h with header x at a.
With(h, a, x) == [b \in DOMAIN h \union {a} |-> IF b = a THEN x ELSE h[b]]

\* Whether block b follows block a.
Adjacent_Never(h, a, b) == FALSE
Adjacent(h, a, b) == a + h[a].size = b

\* free(): the headers after it; freep is then p.
Freed(h, bp, p) ==
  LET q     == h[p].ptr
      above == Adjacent(h, bp, q)
      below == Adjacent(h, p, bp)
      up    == IF above THEN [ptr |-> h[q].ptr, size |-> h[bp].size + h[q].size]
               ELSE [ptr |-> q, size |-> h[bp].size]
      lo    == IF below THEN [ptr |-> up.ptr, size |-> h[p].size + up.size]
               ELSE [ptr |-> bp, size |-> h[p].size]
  IN [a \in {b \in DOMAIN h : ~(above /\ b = q) /\ ~(below /\ b = bp)} |->
        IF a = p THEN lo ELSE IF a = bp THEN up ELSE h[a]]

\* Only the first block is looked at.
FirstFit_Once(h, start, prevp, n) ==
  IF h[h[prevp].ptr].size >= n THEN prevp ELSE Null
\* The loop of malloc() over the ring: the block before the first that fits, or
\* Null when it comes round to freep.
RECURSIVE FirstFit(_, _, _, _)
FirstFit(h, start, prevp, n) ==
  LET p == h[prevp].ptr
  IN IF h[p].size >= n THEN prevp
     ELSE IF p = start THEN Null ELSE FirstFit(h, start, p, n)

\* Takes the block after prevp, or its tail.
Carve(h, prevp, n) ==
  LET p == h[prevp].ptr
      k == h[p].size - n
  IN [addr |-> p + k,
      hdr  |-> With(IF k = 0 THEN [h EXCEPT ![prevp].ptr = h[p].ptr]
                    ELSE [h EXCEPT ![p].size = k],
                    p + k, [ptr |-> Null, size |-> n])]

\* The headers and freep with which malloc() begins.
Ring == IF freep = Null THEN [hdr EXCEPT ![base] = [ptr |-> base, size |-> 0]] ELSE hdr
Entry == IF freep = Null THEN base ELSE freep

Units_Down(nbytes) == nbytes \div HDR + 1
Units(nbytes) == (nbytes + HDR - 1) \div HDR + 1

Give(h, prevp, nbytes) ==
  LET c == Carve(h, prevp, Units(nbytes))
  IN /\ hdr' = c.hdr /\ freep' = prevp
     /\ held' = With(held, c.addr, nbytes)
     /\ denied' = 0

MallocFits(nbytes) ==
  LET prevp == FirstFit(Ring, Entry, Entry, Units(nbytes))
  IN /\ prevp # Null
     /\ Give(Ring, prevp, nbytes)
     /\ UNCHANGED <<brk, cores>>

\* morecore(), and the loop goes on behind the freep it returns.
MallocGrows(nbytes) ==
  LET nu == IF Units(nbytes) < CORE THEN CORE ELSE Units(nbytes)
      h  == With(Ring, brk, [ptr |-> Null, size |-> nu])
      p  == Before(h, brk, Entry)
      h2 == Freed(h, brk, p)
  IN /\ FirstFit(Ring, Entry, Entry, Units(nbytes)) = Null
     /\ brk + nu <= Limit
     /\ brk' = brk + nu /\ cores' = cores \union brk..(brk + nu - 1)
     /\ Give(h2, FirstFit(h2, p, p, Units(nbytes)), nbytes)

\* sbrk() failed: out of memory, which the kernel decides.
MallocFails(nbytes) ==
  /\ FirstFit(Ring, Entry, Entry, Units(nbytes)) = Null
  /\ hdr' = Ring /\ freep' = Entry /\ denied' = nbytes
  /\ UNCHANGED <<brk, held, cores>>

malloc(nbytes) ==
  /\ Cardinality(DOMAIN held) < MaxHeld
  /\ MallocFits(nbytes) \/ MallocGrows(nbytes) \/ MallocFails(nbytes)

free(bp) ==
  LET p == Before(hdr, bp, freep)
  IN /\ hdr' = Freed(hdr, bp, p) /\ freep' = p
     /\ held' = [b \in DOMAIN held \ {bp} |-> held[b]] /\ denied' = 0
     /\ UNCHANGED <<brk, cores>>

\* The program calls sbrk() itself.
OwnSbrk ==
  /\ brk < Limit /\ brk' = brk + 1 /\ denied' = 0
  /\ UNCHANGED <<hdr, freep, held, cores>>

Next == \/ \E n \in Requests : malloc(n)
        \/ \E bp \in DOMAIN held : free(bp)
        \/ OwnSbrk

Spec == Init /\ [][Next]_vars

-----------------------------------------------------------------------------
(* Properties *)

RECURSIVE Reach(_, _)
Reach(a, seen) == IF a \in seen THEN seen ELSE Reach(hdr[a].ptr, seen \union {a})

\* The free blocks, by following the ring from base.
Free == IF freep = Null THEN {} ELSE Reach(base, {})
Extent(b) == b..(b + hdr[b].size - 1)
Blocks == DOMAIN held \union Free

\* No memory is lost or handed out twice: the program's blocks and the free
\* blocks do not overlap and together are all that sbrk() gave, and every block
\* holds what malloc() was asked for, also after its neighbours were split,
\* merged and freed.
HeapPartition ==
  /\ \A b, c \in Blocks : b # c => Extent(b) \intersect Extent(c) = {}
  /\ UNION {Extent(b) : b \in Blocks} = cores
  /\ \A b \in DOMAIN held : (hdr[b].size - 1) * HDR >= held[b]

\* The ring is in order of addresses with one wrap, freep is in it, and no two
\* free blocks touch: free() has merged them.
RingCoalesced ==
  freep # Null =>
    /\ freep \in Free
    /\ \A b \in Free : \/ hdr[b].ptr > b /\ \A c \in Free : ~(b < c /\ c < hdr[b].ptr)
                       \/ hdr[b].ptr = base /\ \A c \in Free : c <= b
    /\ \A b, c \in Free : hdr[b].size > 0 => b + hdr[b].size # c

\* malloc() refuses only when no free block is large enough: from wherever
\* freep points, the whole ring was searched.
RefusesOnlyWhenFull ==
  denied # 0 => \A b \in Free : hdr[b].size < Units(denied)

\* malloc() and free() partition what sbrk() gave into blocks in use and a ring
\* of free blocks without neighbours, and refuse only what the ring cannot give.
HeapSound == HeapPartition /\ RingCoalesced /\ RefusesOnlyWhenFull
=============================================================================
