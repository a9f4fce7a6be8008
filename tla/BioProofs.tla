------------------------------ MODULE BioProofs ------------------------------
(***************************************************************************)
(* The buffer cache and the driver below it are sound, for any number of   *)
(* processes, blocks and buffers that BioAssumption allows: CacheSound     *)
(* follows from the inductive invariant BioInv.                            *)
(***************************************************************************)
EXTENDS Bio, FiniteSetTheorems, WellFoundedInduction, TLAPS

-----------------------------------------------------------------------------
(* Operators *)

\* idequeue after iderw() has put a buffer at its end.
LEMMA AppendFacts ==
  ASSUME NEW q \in Seq(Bufs), NEW b \in Bufs
  PROVE  /\ Append(q, b) \in Seq(Bufs) /\ Append(q, b) # <<>>
         /\ Head(Append(q, b)) = IF q = <<>> THEN b ELSE Head(q)
         /\ \A c : In(Append(q, b), c) <=> In(q, c) \/ c = b
         /\ Distinct(q) /\ ~In(q, b) => Distinct(Append(q, b))
<1>1. /\ Append(q, b) \in Seq(Bufs) /\ Len(Append(q, b)) = Len(q) + 1 /\ Len(q) \in Nat
      /\ \A i \in 1..Len(q) : Append(q, b)[i] = q[i]
      /\ Append(q, b)[Len(q) + 1] = b
  OBVIOUS
<1>2. \A i : i \in 1..Len(Append(q, b)) <=> i \in 1..Len(q) \/ i = Len(q) + 1
  BY <1>1
<1>3. \A c : In(Append(q, b), c) <=> In(q, c) \/ c = b
  BY <1>1, <1>2, Zenon DEF In
<1>4. ASSUME Distinct(q), ~In(q, b) PROVE Distinct(Append(q, b))
  BY <1>1, <1>2, <1>4, Zenon DEF Distinct, In
<1>5. Append(q, b) # <<>> /\ Head(Append(q, b)) = Append(q, b)[1]
  BY <1>1
<1>6. CASE q = <<>>
  <2>1. Head(Append(q, b)) = b BY <1>1, <1>5, <1>6
  <2> QED BY <1>1, <1>3, <1>4, <1>5, <1>6, <2>1, Zenon
<1>7. CASE q # <<>>
  <2>1. Head(q) = q[1] /\ 1 \in 1..Len(q) BY <1>1, <1>7
  <2>2. Head(Append(q, b)) = Head(q) BY <1>1, <1>5, <2>1, Zenon
  <2> QED BY <1>1, <1>3, <1>4, <1>5, <1>7, <2>2, Zenon
<1> QED BY Zenon, <1>6, <1>7

\* idequeue after ideintr() has taken its first buffer off.
LEMMA TailFacts ==
  ASSUME NEW q \in Seq(Bufs), q # <<>>, Distinct(q)
  PROVE  /\ Head(q) \in Bufs /\ In(q, Head(q))
         /\ Tail(q) \in Seq(Bufs) /\ Distinct(Tail(q))
         /\ \A c : In(Tail(q), c) <=> In(q, c) /\ c # Head(q)
<1>1. /\ Head(q) = q[1] /\ Len(q) \in Nat /\ Len(q) > 0 /\ Head(q) \in Bufs
      /\ Tail(q) \in Seq(Bufs) /\ Len(Tail(q)) = Len(q) - 1
      /\ \A i \in 1..Len(Tail(q)) : Tail(q)[i] = q[i + 1]
  OBVIOUS
<1>2. In(q, Head(q)) BY <1>1 DEF In
<1>3. Distinct(Tail(q)) BY <1>1 DEF Distinct
<1>4. ASSUME NEW c, In(Tail(q), c) PROVE In(q, c) /\ c # Head(q)
  <2>1. PICK i \in 1..Len(Tail(q)) : Tail(q)[i] = c BY <1>4 DEF In
  <2>2. i + 1 \in 1..Len(q) /\ q[i + 1] = c /\ i + 1 # 1 /\ 1 \in 1..Len(q)
    BY <1>1, <2>1
  <2> QED BY <1>1, <2>2 DEF In, Distinct
<1>5. ASSUME NEW c, In(q, c), c # Head(q) PROVE In(Tail(q), c)
  <2>1. PICK i \in 1..Len(q) : q[i] = c BY <1>5 DEF In
  <2>2. i - 1 \in 1..Len(Tail(q)) /\ (i - 1) + 1 = i BY <1>1, <1>5, <2>1
  <2>3. Tail(q)[i - 1] = c BY <1>1, <2>1, <2>2
  <2> QED BY <2>2, <2>3, Zenon DEF In
<1> QED BY <1>1, <1>2, <1>3, <1>4, <1>5, Zenon

\* A sequence has a first element iff it is not empty.
LEMMA HeadFacts ==
  ASSUME NEW q \in Seq(Bufs)
  PROVE  /\ q = <<>> => \A c : ~In(q, c)
         /\ q # <<>> => Head(q) \in Bufs /\ In(q, Head(q))
<1>1. ASSUME q = <<>>, NEW c PROVE ~In(q, c) BY <1>1 DEF In
<1>2. ASSUME q # <<>> PROVE Head(q) \in Bufs /\ In(q, Head(q))
  <2>1. Head(q) = q[1] /\ Len(q) \in Nat /\ Len(q) > 0 /\ Head(q) \in Bufs
    BY <1>2
  <2> QED BY <2>1 DEF In
<1> QED BY <1>1, <1>2

\* brelse() moves a buffer to the head of the list and loses none.
LEMMA ToFrontFacts ==
  ASSUME Types, Listed, NEW b \in Bufs
  PROVE  /\ ToFront(b) \in [Bufs -> Bufs]
         /\ \A c \in Bufs : \E i \in Bufs : ToFront(b)[i] = c
<1>1. list \in [Bufs -> Bufs] /\ NBUF \in Nat BY BioAssumption DEF Types
<1> DEFINE i == CHOOSE n \in Bufs : list[n] = b
           f == [n \in Bufs |-> IF n = 1 THEN b ELSE IF n <= i THEN list[n - 1] ELSE list[n]]
<1>2. i \in Bufs /\ list[i] = b BY Zenon DEF Listed
<1>3. ToFront(b) = f BY DEF ToFront
<1> HIDE DEF i
<1>4. f \in [Bufs -> Bufs]
  <2>1. ASSUME NEW n \in Bufs, n # 1, n <= i PROVE n - 1 \in Bufs
    BY <1>1, <1>2, <2>1 DEF Bufs
  <2> QED BY <1>1, <2>1
<1>5. ASSUME NEW c \in Bufs PROVE \E n \in Bufs : f[n] = c
  <2>1. PICK m \in Bufs : list[m] = c BY DEF Listed
  <2>2. CASE m = i
    <3>1. 1 \in Bufs /\ f[1] = b BY <1>1 DEF Bufs
    <3> QED BY <1>2, <2>1, <2>2, <3>1
  <2>3. CASE m < i
    <3>1. m + 1 \in Bufs /\ m + 1 # 1 /\ m + 1 <= i /\ (m + 1) - 1 = m
      BY <1>1, <1>2, <2>3 DEF Bufs
    <3>2. f[m + 1] = c BY <2>1, <3>1
    <3> QED BY <3>1, <3>2
  <2>4. CASE i < m
    <3>1. m # 1 /\ ~(m <= i) BY <1>1, <1>2, <2>4 DEF Bufs
    <3>2. f[m] = c BY <2>1, <3>1
    <3> QED BY <3>2
  <2>5. m = i \/ m < i \/ i < m BY <1>1, <1>2 DEF Bufs
  <2> QED BY <2>2, <2>3, <2>4, <2>5
<1> QED BY <1>3, <1>4, <1>5, Zenon

\* A set of numbers has a least one.
LEMMA NatMin ==
  ASSUME NEW T, T \subseteq Nat, T # {}
  PROVE  \E x \in T : \A y \in T : ~ (y < x)
<1> DEFINE R == {ss \in Nat \X Nat : ss[1] < ss[2]}
<1>1. IsWellFoundedOn(R, Nat)
  BY NatLessThanWellFounded DEF OpToRel
<1> HIDE DEF R
<1>2. PICK x \in T : \A y \in T : <<y, x>> \notin R
  BY Zenon, <1>1, WFMin
<1>3. ASSUME NEW y \in T, y < x PROVE FALSE
  <2>1. <<y, x>> \in R BY <1>3 DEF R
  <2> QED BY <2>1, <1>2
<1> QED BY <1>2, <1>3

\* The backward scan of bget() stops at the last usable buffer of the list.
LEMMA ScanStops ==
  ASSUME Types, Listed, NEW b \in Bufs, Usable(b)
  PROVE  \E v \in Bufs : Victim(v)
<1>1. list \in [Bufs -> Bufs] /\ NBUF \in Nat BY BioAssumption DEF Types
<1> DEFINE T == {n \in Nat : NBUF - n \in Bufs /\ Usable(list[NBUF - n])}
<1>2. T # {}
  <2>1. PICK i \in Bufs : list[i] = b BY DEF Listed
  <2>2. NBUF - i \in Nat /\ NBUF - (NBUF - i) = i BY <1>1 DEF Bufs
  <2>3. NBUF - i \in T BY <2>1, <2>2
  <2> QED BY <2>3
<1>3. PICK x \in T : \A y \in T : ~ (y < x)
  <2>1. T \subseteq Nat OBVIOUS
  <2> QED BY Zenon, <1>2, <2>1, NatMin
<1> DEFINE i == NBUF - x
<1>4. i \in Bufs /\ Usable(list[i]) /\ x \in Nat OBVIOUS
<1>5. ASSUME NEW j \in (i + 1)..NBUF, Usable(list[j]) PROVE FALSE
  <2>1. j \in Bufs /\ NBUF - j \in Nat /\ NBUF - (NBUF - j) = j /\ NBUF - j < x
    BY <1>1, <1>4 DEF Bufs
  <2>2. NBUF - j \in T BY <1>5, <2>1
  <2> QED BY <1>3, <2>1, <2>2
<1>6. list[i] \in Bufs BY <1>1, <1>4
<1> HIDE DEF i
<1>7. Victim(list[i]) BY Zenon, <1>4, <1>5 DEF Victim
<1> QED BY <1>6, <1>7

\* The processes that have a buffer, and the buffers kept by the log, are
\* finitely many.
LEMMA Finite ==
  /\ \A S : S \subseteq Procs => IsFiniteSet(S) /\ Cardinality(S) \in Nat
  /\ \A S : S \subseteq Bufs => IsFiniteSet(S) /\ Cardinality(S) \in Nat
  /\ Cardinality(Bufs) = NBUF
<1>1. IsFiniteSet(Bufs) /\ Cardinality(Bufs) = NBUF
  BY BioAssumption, FS_Interval DEF Bufs
<1>2. ASSUME NEW S, S \subseteq Procs PROVE IsFiniteSet(S) /\ Cardinality(S) \in Nat
  BY <1>2, BioAssumption, FS_Subset, FS_CardinalityType
<1>3. ASSUME NEW S, S \subseteq Bufs PROVE IsFiniteSet(S) /\ Cardinality(S) \in Nat
  BY <1>1, <1>3, FS_Subset, FS_CardinalityType
<1> QED BY <1>1, <1>2, <1>3

-----------------------------------------------------------------------------
(* bget() and brelse() *)

\* A buffer without references has no user, no holder and no request.
LEMMA Unused ==
  ASSUME BioInv, NEW b \in Bufs, refcnt[b] = 0
  PROVE  (\A q \in Procs : buf[q] # b) /\ ~In(idequeue, b)
<1>1. IsFiniteSet(Users(b)) /\ Cardinality(Users(b)) = 0
  <2>1. Users(b) \subseteq Procs BY DEF Users
  <2> QED BY <2>1, Finite, Zenon DEF BioInv, Counts
<1>2. Users(b) = {} BY <1>1, FS_EmptySet, Zenon
<1>3. \A q \in Procs : buf[q] # b BY <1>2, Zenon DEF Users
<1>4. QueuedAt(b) /\ LocksAt(b) BY Zenon DEF BioInv, Queue, Locks
<1> QED BY <1>3, <1>4, Zenon DEF QueuedAt, LocksAt

\* bget() by p finds block k in buffer b, or recycles b for it.
Takes(p, k, b) ==
  /\ buf' = [buf EXCEPT ![p] = b] /\ pc' = [pc EXCEPT ![p] = "lock"]
  /\ refcnt' = [refcnt EXCEPT ![b] = @ + 1]
  /\ dirty' = dirty /\ data' = data /\ list' = list /\ locked' = locked
  /\ idequeue' = idequeue /\ ctl' = ctl /\ disk' = disk /\ latest' = latest
  /\ \/ blockno[b] = k /\ blockno' = blockno /\ valid' = valid
     \/ /\ \A c \in Bufs : blockno[c] # k
        /\ refcnt[b] = 0 /\ ~dirty[b]
        /\ blockno' = [blockno EXCEPT ![b] = k]
        /\ valid' = [valid EXCEPT ![b] = FALSE]

\* What bget() does, whether it finds the block or recycles a buffer.
LEMMA BgetCases ==
  ASSUME BioInv, NEW p \in Procs, NEW k \in Blocks, Bget(p, k)
  PROVE  \E b \in Bufs : Takes(p, k, b)
<1>1. CASE Cached(k) # {} /\ UNCHANGED <<blockno, valid, dirty>>
  <2>1. PICK b \in Cached(k) : /\ refcnt' = [refcnt EXCEPT ![b] = @ + 1]
                               /\ buf' = [buf EXCEPT ![p] = b]
    BY <1>1, Zenon DEF Bget
  <2>2. b \in Bufs /\ blockno[b] = k BY DEF Cached
  <2> QED BY <1>1, <2>1, <2>2, Zenon DEF Bget, ideVars, Takes
<1>2. CASE ~(Cached(k) # {} /\ UNCHANGED <<blockno, valid, dirty>>)
  <2>1. Cached(k) = {} BY <1>2, Zenon DEF Bget
  <2>2. PICK b \in Bufs : /\ Victim(b)
                          /\ blockno' = [blockno EXCEPT ![b] = k]
                          /\ valid' = [valid EXCEPT ![b] = FALSE]
                          /\ dirty' = [dirty EXCEPT ![b] = FALSE]
                          /\ refcnt' = [refcnt EXCEPT ![b] = 1]
                          /\ buf' = [buf EXCEPT ![p] = b]
    BY <2>1, Zenon DEF Bget
  <2>3. refcnt[b] = 0 /\ ~dirty[b] BY <2>2, Zenon DEF Victim, Usable
  <2>4. \A c \in Bufs : blockno[c] # k BY <2>1, Zenon DEF Cached
  <2>5. dirty' = dirty /\ refcnt' = [refcnt EXCEPT ![b] = @ + 1]
    BY <2>2, <2>3 DEF BioInv, Types
  <2> QED BY <2>2, <2>3, <2>4, <2>5, Zenon DEF Bget, ideVars, Takes
<1> QED BY <1>1, <1>2

\* bget() keeps one buffer for each block and counts its caller.
LEMMA BgetStep ==
  ASSUME BioInv, NEW p \in Procs, NEW k \in Blocks, Bget(p, k)
  PROVE  BioInv'
<1>0. /\ Types /\ Uses /\ Locks /\ Counts /\ Once /\ Listed /\ Queue /\ Contents
      /\ Controller /\ Pins /\ pc[p] = "out" /\ buf[p] = 0 /\ 0 \notin Bufs
  BY DEF BioInv, Bget, Uses, UsesAt, Bufs
<1>1b. PICK b \in Bufs : Takes(p, k, b) BY BgetCases, Zenon
<1>1.    /\ buf' = [buf EXCEPT ![p] = b] /\ pc' = [pc EXCEPT ![p] = "lock"]
         /\ refcnt' = [refcnt EXCEPT ![b] = @ + 1]
         /\ dirty' = dirty /\ data' = data /\ list' = list /\ locked' = locked
         /\ idequeue' = idequeue /\ ctl' = ctl /\ disk' = disk /\ latest' = latest
         /\ \/ blockno[b] = k /\ blockno' = blockno /\ valid' = valid
            \/ /\ \A c \in Bufs : blockno[c] # k
               /\ refcnt[b] = 0 /\ ~dirty[b]
               /\ blockno' = [blockno EXCEPT ![b] = k]
               /\ valid' = [valid EXCEPT ![b] = FALSE]
  BY <1>1b, Zenon DEF Takes
<1>2. /\ buf'[p] = b /\ pc'[p] = "lock"
      /\ \A q \in Procs : q # p => buf'[q] = buf[q] /\ pc'[q] = pc[q]
      /\ \A q \in Procs : pc[q] # "out" => q # p /\ buf[q] \in Bufs
  BY <1>0, <1>1 DEF Types, Uses, UsesAt
<1>3. \/ blockno' = blockno /\ valid' = valid
      \/ /\ \A q \in Procs : buf[q] # b
         /\ ~In(idequeue, b)
  BY <1>1, Unused, Zenon
<1>4. /\ blockno'[b] = k
      /\ \A c \in Bufs : c # b => blockno'[c] = blockno[c] /\ valid'[c] = valid[c]
      /\ valid'[b] => valid[b] /\ blockno'[b] = blockno[b]
      /\ blockno'[b] = blockno[b] \/ ~dirty[b]
  BY Zenon, <1>0, <1>1 DEF Types
<1>5. Types'
  <2>1. blockno' \in [Bufs -> Blocks \cup {NoBlock}]
    <3>1. blockno' = blockno \/ blockno' = [blockno EXCEPT ![b] = k] BY <1>1, Zenon
    <3>2. blockno \in [Bufs -> Blocks \cup {NoBlock}] BY <1>0, Zenon DEF Types
    <3> QED BY <3>1, <3>2
  <2>2. valid' \in [Bufs -> BOOLEAN]
    <3>1. valid' = valid \/ valid' = [valid EXCEPT ![b] = FALSE] BY <1>1, Zenon
    <3>2. valid \in [Bufs -> BOOLEAN] BY <1>0, Zenon DEF Types
    <3> QED BY <3>1, <3>2, Zenon
  <2>3. refcnt' \in [Bufs -> Int] BY <1>0, <1>1 DEF Types
  <2>4. pc' \in [Procs -> Places] BY Zenon, <1>0, <1>1 DEF Types, Places
  <2>5. buf' \in [Procs -> Bufs \cup {0}] BY Zenon, <1>0, <1>1 DEF Types
  <2> QED BY <1>0, <1>1, <2>1, <2>2, <2>3, <2>4, <2>5, Zenon DEF Types
<1>6. Uses'
  <2> SUFFICES ASSUME NEW q \in Procs PROVE UsesAt(q)'
    BY Zenon DEF Uses
  <2>1. CASE q = p BY <1>0, <1>2, <1>4, <2>1, Zenon DEF UsesAt
  <2>2. CASE q # p
    <3>1. UsesAt(q) /\ buf'[q] = buf[q] /\ pc'[q] = pc[q] BY <1>0, <1>2, <2>2, Zenon DEF Uses
    <3>2. pc[q] # "out" => blockno'[buf[q]] = blockno[buf[q]]
      BY <1>2, <1>3, <1>4, Zenon
    <3> QED BY <1>1, <3>1, <3>2, Zenon DEF UsesAt
  <2> QED BY <2>1, <2>2
<1>7. Locks'
  <2> SUFFICES ASSUME NEW c \in Bufs, NEW q \in Procs
               PROVE  locked'[c] = q <=> buf'[q] = c /\ pc'[q] \in Holders
    BY Zenon DEF Locks, LocksAt
  <2>1. locked[c] = q <=> buf[q] = c /\ pc[q] \in Holders BY <1>0, Zenon DEF Locks, LocksAt
  <2>2. CASE q = p BY Zenon, <1>0, <1>1, <1>2, <2>1, <2>2 DEF Holders
  <2>3. CASE q # p BY <1>1, <1>2, <2>1, <2>3, Zenon
  <2> QED BY <2>2, <2>3
<1>8. Counts'
  <2> SUFFICES ASSUME NEW c \in Bufs PROVE refcnt'[c] = Cardinality(Users(c)')
    BY Zenon DEF Counts
  <2>1. refcnt[c] = Cardinality(Users(c)) BY <1>0, Zenon DEF Counts
  <2>2. CASE c = b
    <3>1. p \notin Users(b) /\ Users(b)' = Users(b) \cup {p}
      BY Zenon, <1>0, <1>2 DEF Users
    <3>2. Users(b) \subseteq Procs BY DEF Users
    <3>3. Cardinality(Users(b) \cup {p}) = Cardinality(Users(b)) + 1
      BY <3>1, <3>2, Finite, FS_AddElement, Zenon
    <3>4. refcnt'[b] = refcnt[b] + 1 BY Zenon, <1>0, <1>1 DEF Types
    <3> QED BY <2>1, <2>2, <3>1, <3>3, <3>4, Zenon
  <2>3. CASE c # b
    <3>1. Users(c)' = Users(c) BY Zenon, <1>0, <1>2, <2>3 DEF Users
    <3>2. refcnt'[c] = refcnt[c] BY Zenon, <1>0, <1>1, <2>3 DEF Types
    <3> QED BY <2>1, <3>1, <3>2
  <2> QED BY <2>2, <2>3
<1>9. Once'
  <2>1. blockno[b] = k \/ \A c \in Bufs : blockno[c] # k BY <1>1, Zenon
  <2>2. ASSUME NEW c \in Bufs, c # b PROVE blockno'[c] # k
    <3>1. blockno'[c] = blockno[c] /\ k # NoBlock BY <1>4, <2>2, BioAssumption, Zenon
    <3> QED BY <1>0, <2>1, <2>2, <3>1, Zenon DEF Once
  <2> SUFFICES ASSUME NEW c \in Bufs, NEW d \in Bufs,
                      blockno'[c] = blockno'[d], blockno'[c] # NoBlock
               PROVE  c = d
    BY Zenon DEF Once
  <2>3. CASE c = b BY <1>4, <2>2, <2>3, Zenon
  <2>4. CASE d = b BY <1>4, <2>2, <2>4, Zenon
  <2>5. CASE c # b /\ d # b
    <3>1. blockno[c] = blockno[d] /\ blockno[c] # NoBlock BY <1>4, <2>5, Zenon
    <3> QED BY <1>0, <3>1, Zenon DEF Once
  <2> QED BY <2>3, <2>4, <2>5
<1>10. Listed' BY <1>0, <1>1, Zenon DEF Listed
<1>11. Queue'
  <2>1. ASSUME NEW c \in Bufs PROVE QueuedAt(c)'
    <3>1. QueuedAt(c) BY <1>0, Zenon DEF Queue
    <3>2. ASSUME In(idequeue, c) PROVE valid'[c] = valid[c]
      BY <1>1, <1>3, <1>4, <3>2, Zenon
    <3>3. ASSUME In(idequeue, c) PROVE locked[c] # p
      BY Zenon, <1>0, <3>1, <3>3 DEF QueuedAt, Waiting
    <3>4. ASSUME In(idequeue, c) PROVE pc'[locked[c]] = pc[locked[c]]
      BY <1>2, <3>1, <3>3, <3>4, Zenon DEF QueuedAt
    <3> QED BY <1>1, <3>1, <3>2, <3>4, Zenon DEF QueuedAt, Waiting
  <2>2. ASSUME NEW q \in Procs PROVE WaitsAt(q)'
    <3>1. WaitsAt(q) BY <1>0, Zenon DEF Queue
    <3>2. CASE q = p BY Zenon, <1>2, <3>2 DEF WaitsAt
    <3>3. CASE q # p
      <4>1. pc[q] = "disk" => pc[q] # "out" OBVIOUS
      <4>2. pc[q] = "disk" => valid'[buf[q]] = valid[buf[q]] BY <1>2, <1>3, <1>4, <4>1, Zenon
      <4> QED BY <1>1, <1>2, <3>1, <3>3, <4>2, Zenon DEF WaitsAt
    <3> QED BY <3>2, <3>3
  <2> QED BY <1>0, <1>1, <2>1, <2>2, Zenon DEF Queue
<1>12. Contents'
  <2>1. ASSUME NEW c \in Bufs PROVE ContentAt(c)'
    <3>1. ContentAt(c) BY <1>0, Zenon DEF Contents
    <3>2. CASE c = b
      <4>1. dirty[b] => valid'[b] BY <1>1, <3>1, <3>2, Zenon DEF ContentAt
      <4> QED BY <1>1, <1>4, <3>1, <3>2, <4>1, Zenon DEF ContentAt
    <3>3. CASE c # b BY <1>1, <1>4, <3>1, <3>3, Zenon DEF ContentAt
    <3> QED BY <3>2, <3>3
  <2>2. ASSUME NEW q \in Procs, pc'[q] = "hold" PROVE valid'[buf'[q]]
    <3>1. q # p /\ pc[q] = "hold" /\ buf'[q] = buf[q] BY Zenon, <1>2, <2>2
    <3>2. valid[buf[q]] /\ pc[q] # "out" BY Zenon, <1>0, <3>1 DEF Contents
    <3> QED BY <1>2, <1>3, <1>4, <3>1, <3>2, Zenon
  <2>3. ASSUME NEW j \in Blocks PROVE CleanAt(j)'
    <3>1. CleanAt(j) BY <1>0, Zenon DEF Contents
    <3>2. ASSUME NEW c \in Bufs, blockno[c] = j, dirty[c] PROVE blockno'[c] = j
      BY <1>4, <3>2, Zenon
    <3> QED BY <1>1, <3>1, <3>2, Zenon DEF CleanAt
  <2> QED BY <2>1, <2>2, <2>3, Zenon DEF Contents
<1>13. Controller'
  <2>1. CASE idequeue = <<>> BY Zenon, <1>0, <1>1, <2>1 DEF Controller
  <2>2. CASE idequeue # <<>>
    <3>1. PICK h \in Bufs : h = Head(idequeue) /\ In(idequeue, h)
      BY Zenon, <1>0, <2>2, HeadFacts DEF Types
    <3>2. blockno'[h] = blockno[h] BY <1>3, <1>4, <3>1, Zenon
    <3>3. Working(h) BY Zenon, <1>0, <2>2, <3>1 DEF Controller
    <3>4. Working(h)' BY Zenon, <1>1, <3>2, <3>3 DEF Working
    <3> QED BY <1>1, <2>2, <3>1, <3>4, Zenon DEF Controller
  <2> QED BY <2>1, <2>2
<1>14. Pins' BY <1>0, <1>1 DEF Pins, Pinned
<1> QED BY <1>5, <1>6, <1>7, <1>8, <1>9, <1>10, <1>11, <1>12, <1>13, <1>14, Zenon DEF BioInv

\* The steps that take and leave sleeping locks or only wake, and what is left
\* to show of them.
LEMMA QuietStep ==
  ASSUME BioInv, UNCHANGED <<blockno, valid, dirty, refcnt, data, list, ideVars, buf, latest>>,
         pc' \in [Procs -> Places], locked' \in [Bufs -> Procs \cup {NoProc}],
         Uses', Locks', \A b \in Bufs : QueuedAt(b)', \A p \in Procs : WaitsAt(p)',
         \A p \in Procs : pc'[p] = "hold" => valid[buf[p]]
  PROVE  BioInv'
<1>0. /\ Types /\ Counts /\ Once /\ Listed /\ Queue /\ Contents /\ Controller /\ Pins
  BY Zenon DEF BioInv
<1>1. /\ blockno' = blockno /\ valid' = valid /\ dirty' = dirty /\ refcnt' = refcnt
      /\ data' = data /\ list' = list /\ idequeue' = idequeue /\ ctl' = ctl
      /\ disk' = disk /\ buf' = buf /\ latest' = latest
  BY Zenon DEF ideVars
<1>2. Types' BY <1>0, <1>1 DEF Types
<1>3. Counts' BY Zenon, <1>0, <1>1 DEF Counts, Users
<1>4. Once' /\ Listed' BY <1>0, <1>1 DEF Once, Listed
<1>5. Queue' BY <1>0, <1>1, Zenon DEF Queue
<1>6. Contents'
  <2>1. \A b \in Bufs : ContentAt(b)' BY <1>0, <1>1 DEF Contents, ContentAt
  <2>2. \A k \in Blocks : CleanAt(k)' BY <1>0, <1>1 DEF Contents, CleanAt
  <2> QED BY <1>1, <2>1, <2>2, Zenon DEF Contents
<1>7. Controller' BY Zenon, <1>0, <1>1 DEF Controller, Working
<1>8. Pins' BY Zenon, <1>0, <1>1 DEF Pins, Pinned
<1> QED BY <1>2, <1>3, <1>4, <1>5, <1>6, <1>7, <1>8, Zenon DEF BioInv

\* Who is in bread() has a buffer; past acquiresleep() it has its lock, and a
\* request in the queue only while it is in iderw().
LEMMA Mine ==
  ASSUME BioInv, NEW p \in Procs, pc[p] # "out"
  PROVE  /\ buf[p] \in Bufs /\ blockno[buf[p]] \in Blocks /\ blockno[buf[p]] # NoBlock
         /\ pc[p] \in Holders => locked[buf[p]] = p
         /\ pc[p] \in {"locked", "hold"} => ~In(idequeue, buf[p])
<1>1. UsesAt(p) /\ buf[p] \in Bufs \cup {0} BY Zenon DEF BioInv, Types, Uses
<1>2. buf[p] \in Bufs /\ blockno[buf[p]] \in Blocks /\ blockno[buf[p]] # NoBlock
  BY Zenon, <1>1, BioAssumption DEF UsesAt
<1>3. pc[p] \in Holders => locked[buf[p]] = p BY <1>2, Zenon DEF BioInv, Locks, LocksAt
<1>4. ASSUME pc[p] \in {"locked", "hold"} PROVE ~In(idequeue, buf[p])
  <2>1. locked[buf[p]] = p BY Zenon, <1>3, <1>4 DEF Holders
  <2>2. QueuedAt(buf[p]) BY <1>2, Zenon DEF BioInv, Queue
  <2> QED BY Zenon, <1>4, <2>1, <2>2 DEF QueuedAt, Waiting
<1> QED BY <1>2, <1>3, <1>4, Zenon

\* acquiresleep() takes a free lock or sleeps for one that is taken.
LEMMA AcquireSleepStep ==
  ASSUME BioInv, NEW p \in Procs, AcquireSleep(p)
  PROVE  BioInv'
<1> DEFINE b == buf[p]
<1>0. /\ Types /\ Uses /\ Locks /\ Queue /\ Contents /\ pc[p] = "lock" /\ pc[p] # "out"
  BY DEF BioInv, AcquireSleep
<1>1. b \in Bufs /\ blockno[b] \in Blocks BY <1>0, Mine, Zenon
<1>2. UNCHANGED <<blockno, valid, dirty, refcnt, data, list, ideVars, buf, latest>>
  BY Zenon DEF AcquireSleep
<1>3. /\ blockno' = blockno /\ valid' = valid /\ dirty' = dirty
      /\ idequeue' = idequeue /\ buf' = buf
  BY <1>2, Zenon DEF ideVars
<1>4. /\ pc \in [Procs -> Places] /\ locked \in [Bufs -> Procs \cup {NoProc}]
      /\ NoProc \notin Procs
  BY <1>0, BioAssumption, Zenon DEF Types
<1>5. CASE locked[b] # NoProc
  <2>1. pc' = [pc EXCEPT ![p] = "lock_wait"] /\ locked' = locked BY <1>5, Zenon DEF AcquireSleep
  <2>2. pc'[p] = "lock_wait" /\ \A q \in Procs : q # p => pc'[q] = pc[q] BY <1>4, <2>1
  <2>3. pc' \in [Procs -> Places] BY <1>4, <2>1 DEF Places
  <2>4. Uses'
    <3> SUFFICES ASSUME NEW q \in Procs PROVE UsesAt(q)' BY Zenon DEF Uses
    <3>1. UsesAt(q) BY <1>0, Zenon DEF Uses
    <3>2. CASE q = p BY Zenon, <1>0, <1>1, <1>3, <1>5, <2>1, <2>2, <3>1, <3>2 DEF UsesAt
    <3>3. CASE q # p BY <1>3, <2>1, <2>2, <3>1, <3>3, Zenon DEF UsesAt
    <3> QED BY <3>2, <3>3
  <2>5. \A q \in Procs : pc'[q] \in Holders <=> pc[q] \in Holders
    BY Zenon, <1>0, <2>2 DEF Holders
  <2>6. Locks'
    <3> SUFFICES ASSUME NEW c \in Bufs, NEW q \in Procs
                 PROVE  locked'[c] = q <=> buf'[q] = c /\ pc'[q] \in Holders
      BY Zenon DEF Locks, LocksAt
    <3>1. locked[c] = q <=> buf[q] = c /\ pc[q] \in Holders BY <1>0, Zenon DEF Locks, LocksAt
    <3> QED BY <1>3, <2>1, <2>5, <3>1, Zenon
  <2>7. \A q \in Procs : /\ pc'[q] \in {"disk_wait", "disk"} <=> pc[q] \in {"disk_wait", "disk"}
                         /\ pc'[q] \in {"disk_wait", "disk", "hold"} => pc'[q] = pc[q]
    BY Zenon, <1>0, <2>2
  <2>8. ASSUME NEW c \in Bufs PROVE QueuedAt(c)'
    <3>1. QueuedAt(c) BY <1>0, Zenon DEF Queue
    <3> QED BY <1>3, <2>1, <2>7, <3>1, Zenon DEF QueuedAt, Waiting
  <2>9. ASSUME NEW q \in Procs PROVE WaitsAt(q)'
    <3>1. WaitsAt(q) BY <1>0, Zenon DEF Queue
    <3> QED BY Zenon, <1>3, <2>7, <3>1 DEF WaitsAt
  <2>10. \A q \in Procs : pc'[q] = "hold" => valid[buf[q]]
    BY Zenon, <1>0, <2>7 DEF Contents
  <2> QED BY <1>2, <1>4, <2>1, <2>3, <2>4, <2>6, <2>8, <2>9, <2>10, QuietStep, Zenon
<1>6. CASE locked[b] = NoProc
  <2>1. pc' = [pc EXCEPT ![p] = "locked"] /\ locked' = [locked EXCEPT ![b] = p]
    BY <1>6, Zenon DEF AcquireSleep
  <2>2. pc'[p] = "locked" /\ \A q \in Procs : q # p => pc'[q] = pc[q] BY <1>4, <2>1
  <2>3. locked'[b] = p /\ \A c \in Bufs : c # b => locked'[c] = locked[c] BY Zenon, <1>1, <1>4, <2>1
  <2>4. pc' \in [Procs -> Places] /\ locked' \in [Bufs -> Procs \cup {NoProc}]
    BY <1>4, <2>1, Zenon DEF Places
  <2>5. Uses'
    <3> SUFFICES ASSUME NEW q \in Procs PROVE UsesAt(q)' BY Zenon DEF Uses
    <3>1. UsesAt(q) BY <1>0, Zenon DEF Uses
    <3>2. CASE q = p BY Zenon, <1>0, <1>1, <1>3, <2>2, <3>1, <3>2 DEF UsesAt
    <3>3. CASE q # p
      <4>1. pc[q] = "lock_wait" => locked'[buf[q]] # NoProc
        <5> SUFFICES ASSUME pc[q] = "lock_wait" PROVE locked'[buf[q]] # NoProc OBVIOUS
        <5>1. buf[q] \in Bufs /\ locked[buf[q]] # NoProc BY Zenon, <3>1, Mine DEF UsesAt
        <5> QED BY <1>4, <2>3, <5>1, Zenon
      <4> QED BY <1>3, <2>2, <3>1, <3>3, <4>1, Zenon DEF UsesAt
    <3> QED BY <3>2, <3>3
  <2>6. Locks'
    <3> SUFFICES ASSUME NEW c \in Bufs, NEW q \in Procs
                 PROVE  locked'[c] = q <=> buf[q] = c /\ pc'[q] \in Holders
      BY <1>3, Zenon DEF Locks, LocksAt
    <3>1. locked[c] = q <=> buf[q] = c /\ pc[q] \in Holders BY <1>0, Zenon DEF Locks, LocksAt
    <3>2. CASE q = p
      <4>1. pc'[q] \in Holders /\ pc[q] \notin Holders BY <1>0, <2>2, <3>2 DEF Holders
      <4> QED BY <2>3, <3>1, <3>2, <4>1, Zenon
    <3>3. CASE q # p
      <4>1. pc'[q] = pc[q] BY <2>2, <3>3, Zenon
      <4>2. c = b => locked[c] # q BY <1>4, <1>6, Zenon
      <4> QED BY <2>3, <3>1, <3>3, <4>1, <4>2, Zenon
    <3> QED BY Zenon, <3>2, <3>3
  <2>7. \A q \in Procs : /\ pc'[q] \in {"disk_wait", "disk"} <=> pc[q] \in {"disk_wait", "disk"}
                         /\ pc'[q] \in {"disk_wait", "disk", "hold"} => pc'[q] = pc[q]
    BY Zenon, <1>0, <2>2
  <2>8. ASSUME NEW c \in Bufs PROVE QueuedAt(c)'
    <3>1. QueuedAt(c) BY <1>0, Zenon DEF Queue
    <3>2. In(idequeue, c) => locked'[c] = locked[c]
      BY <1>4, <1>6, <2>3, <3>1, Zenon DEF QueuedAt
    <3> QED BY <1>3, <2>7, <3>1, <3>2, Zenon DEF QueuedAt, Waiting
  <2>9. ASSUME NEW q \in Procs PROVE WaitsAt(q)'
    <3>1. WaitsAt(q) BY <1>0, Zenon DEF Queue
    <3> QED BY Zenon, <1>3, <2>7, <3>1 DEF WaitsAt
  <2>10. \A q \in Procs : pc'[q] = "hold" => valid[buf[q]]
    BY Zenon, <1>0, <2>7 DEF Contents
  <2> QED BY <1>2, <2>4, <2>5, <2>6, <2>8, <2>9, <2>10, QuietStep, Zenon
<1> QED BY <1>5, <1>6

\* brelse() lets the lock of its buffer go and wakes all who wait for it.
LEMMA BrelseStep ==
  ASSUME BioInv, NEW p \in Procs, Brelse(p)
  PROVE  BioInv'
<1> DEFINE b == buf[p]
<1>0. /\ Types /\ Uses /\ Locks /\ Queue /\ Contents /\ pc[p] = "hold" /\ pc[p] # "out"
      /\ pc[p] \in Holders /\ pc[p] \in {"locked", "hold"}
  BY Zenon DEF BioInv, Brelse, Holders
<1>1. b \in Bufs /\ locked[b] = p /\ ~In(idequeue, b) BY <1>0, Mine, Zenon
<1>2. UNCHANGED <<blockno, valid, dirty, refcnt, data, list, ideVars, buf, latest>>
  BY Zenon DEF Brelse
<1>3. /\ blockno' = blockno /\ valid' = valid /\ dirty' = dirty
      /\ idequeue' = idequeue /\ buf' = buf
  BY <1>2, Zenon DEF ideVars
<1>4. /\ pc \in [Procs -> Places] /\ locked \in [Bufs -> Procs \cup {NoProc}]
      /\ NoProc \notin Procs
  BY <1>0, BioAssumption, Zenon DEF Types
<1>5. pc' = [wakeLock(b) EXCEPT ![p] = "release"] /\ locked' = [locked EXCEPT ![b] = NoProc]
  BY Zenon DEF Brelse
<1>6. /\ pc'[p] = "release"
      /\ \A q \in Procs : q # p => pc'[q] = IF pc[q] = "lock_wait" /\ buf[q] = b
                                            THEN "lock" ELSE pc[q]
  BY Zenon, <1>4, <1>5 DEF wakeLock
<1>7. locked'[b] = NoProc /\ \A c \in Bufs : c # b => locked'[c] = locked[c]
  BY Zenon, <1>1, <1>4, <1>5
<1>8. locked' \in [Bufs -> Procs \cup {NoProc}] BY <1>4, <1>5, Zenon
<1>9. pc' \in [Procs -> Places]
  <2>1. wakeLock(b) \in [Procs -> Places] BY <1>4 DEF wakeLock, Places
  <2> QED BY Zenon, <1>5, <2>1 DEF Places
<1>10. Uses'
  <2> SUFFICES ASSUME NEW q \in Procs PROVE UsesAt(q)' BY Zenon DEF Uses
  <2>1. UsesAt(q) BY <1>0, Zenon DEF Uses
  <2>2. CASE q = p BY Zenon, <1>0, <1>3, <1>6, <2>1, <2>2 DEF UsesAt
  <2>3. CASE q # p /\ pc[q] = "lock_wait" /\ buf[q] = b
    <3>1. pc'[q] = "lock" BY Zenon, <1>6, <2>3
    <3> QED BY Zenon, <1>3, <2>1, <2>3, <3>1 DEF UsesAt
  <2>4. CASE q # p /\ ~(pc[q] = "lock_wait" /\ buf[q] = b)
    <3>1. pc'[q] = pc[q] BY Zenon, <1>6, <2>4
    <3>2. pc[q] = "lock_wait" => pc[q] # "out" OBVIOUS
    <3>3. pc[q] = "lock_wait" => buf[q] \in Bufs /\ buf[q] # b BY <2>4, <3>2, Mine, Zenon
    <3> QED BY <1>3, <1>7, <2>1, <3>1, <3>3, Zenon DEF UsesAt
  <2> QED BY Zenon, <2>2, <2>3, <2>4
<1>11. /\ pc'[p] \notin Holders
       /\ \A q \in Procs : q # p => (pc'[q] \in Holders <=> pc[q] \in Holders)
  BY Zenon, <1>6 DEF Holders
<1>12. Locks'
  <2> SUFFICES ASSUME NEW c \in Bufs, NEW q \in Procs
               PROVE  locked'[c] = q <=> buf[q] = c /\ pc'[q] \in Holders
    BY <1>3, Zenon DEF Locks, LocksAt
  <2>1. locked[c] = q <=> buf[q] = c /\ pc[q] \in Holders BY <1>0, Zenon DEF Locks, LocksAt
  <2>2. CASE q = p
    <3>1. locked'[c] # p BY <1>0, <1>4, <1>7, <2>1, <2>2, Zenon
    <3> QED BY <1>11, <2>2, <3>1, Zenon
  <2>3. CASE q # p BY <1>1, <1>4, <1>7, <1>11, <2>1, <2>3, Zenon
  <2> QED BY Zenon, <2>2, <2>3
<1>13. \A q \in Procs : /\ q # p /\ pc[q] \in {"disk_wait", "disk"} => pc'[q] \in {"disk_wait", "disk"}
                        /\ pc'[q] \in {"disk_wait", "disk", "hold"} => pc'[q] = pc[q]
  BY Zenon, <1>0, <1>6
<1>14. ASSUME NEW c \in Bufs PROVE QueuedAt(c)'
  <2> SUFFICES ASSUME In(idequeue, c) PROVE QueuedAt(c)' BY <1>3, Zenon DEF QueuedAt
  <2>1. QueuedAt(c) BY <1>0, Zenon DEF Queue
  <2>2. c # b BY <1>1, Zenon
  <2>3. locked'[c] = locked[c] BY <1>7, <2>2, Zenon
  <2>4. locked[c] \in Procs /\ locked[c] # p BY <1>0, <2>1, <2>2, Zenon DEF QueuedAt, Locks, LocksAt
  <2> QED BY <1>3, <1>13, <2>1, <2>3, <2>4, Zenon DEF QueuedAt, Waiting
<1>15. ASSUME NEW q \in Procs PROVE WaitsAt(q)'
  <2>1. WaitsAt(q) BY <1>0, Zenon DEF Queue
  <2> QED BY Zenon, <1>3, <1>13, <2>1 DEF WaitsAt
<1>16. \A q \in Procs : pc'[q] = "hold" => valid[buf[q]]
  BY Zenon, <1>0, <1>13 DEF Contents
<1> QED BY <1>2, <1>8, <1>9, <1>10, <1>12, <1>14, <1>15, <1>16, QuietStep, Zenon

\* A process whose place changes while it keeps its buffer and the lock, or the
\* wait for the lock.
LEMMA MoveStep ==
  ASSUME BioInv, NEW p \in Procs, NEW to \in Places, pc' = [pc EXCEPT ![p] = to],
         UNCHANGED <<bufVars, ideVars, buf, latest>>, pc[p] # "out", to # "out",
         to # "lock_wait", to \in Holders <=> pc[p] \in Holders,
         pc[p] \in Holders /\ In(idequeue, buf[p]) => to \in {"disk_wait", "disk"},
         to = "disk_wait" => In(idequeue, buf[p]),
         to = "disk" => In(idequeue, buf[p]) \/ (valid[buf[p]] /\ ~dirty[buf[p]]),
         to = "hold" => valid[buf[p]]
  PROVE  BioInv'
<1>0. /\ Types /\ Uses /\ Locks /\ Queue /\ Contents BY Zenon DEF BioInv
<1>1. UNCHANGED <<blockno, valid, dirty, refcnt, data, list, ideVars, buf, latest>> /\ locked' = locked
  BY Zenon DEF bufVars
<1>2. /\ blockno' = blockno /\ valid' = valid /\ dirty' = dirty
      /\ idequeue' = idequeue /\ buf' = buf
  BY <1>1, Zenon DEF ideVars
<1>3. /\ pc \in [Procs -> Places] /\ locked \in [Bufs -> Procs \cup {NoProc}]
  BY <1>0, BioAssumption, Zenon DEF Types
<1>4. pc'[p] = to /\ \A q \in Procs : q # p => pc'[q] = pc[q] BY Zenon, <1>3
<1>5. pc' \in [Procs -> Places] /\ locked' \in [Bufs -> Procs \cup {NoProc}] BY Zenon, <1>1, <1>3
<1>6. Uses'
  <2> SUFFICES ASSUME NEW q \in Procs PROVE UsesAt(q)' BY Zenon DEF Uses
  <2>1. UsesAt(q) BY <1>0, Zenon DEF Uses
  <2>2. CASE q = p BY <1>1, <1>2, <1>4, <2>1, <2>2, Zenon DEF UsesAt
  <2>3. CASE q # p BY <1>1, <1>2, <1>4, <2>1, <2>3, Zenon DEF UsesAt
  <2> QED BY Zenon, <2>2, <2>3
<1>7. \A q \in Procs : pc'[q] \in Holders <=> pc[q] \in Holders BY <1>4, Zenon
<1>8. Locks'
  <2> SUFFICES ASSUME NEW c \in Bufs, NEW q \in Procs
               PROVE  locked'[c] = q <=> buf'[q] = c /\ pc'[q] \in Holders
    BY Zenon DEF Locks, LocksAt
  <2>1. locked[c] = q <=> buf[q] = c /\ pc[q] \in Holders BY <1>0, Zenon DEF Locks, LocksAt
  <2> QED BY <1>1, <1>2, <1>7, <2>1, Zenon
<1>9. ASSUME NEW c \in Bufs PROVE QueuedAt(c)'
  <2> SUFFICES ASSUME In(idequeue, c) PROVE QueuedAt(c)' BY <1>2, Zenon DEF QueuedAt
  <2>1. QueuedAt(c) BY <1>0, Zenon DEF Queue
  <2>2. locked[c] = p => buf[p] = c /\ pc[p] \in Holders BY <1>0, Zenon DEF Locks, LocksAt
  <2>3. pc'[locked[c]] \in {"disk_wait", "disk"}
    BY <1>4, <2>1, <2>2, Zenon DEF QueuedAt, Waiting
  <2> QED BY <1>1, <1>2, <2>1, <2>3, Zenon DEF QueuedAt, Waiting
<1>10. ASSUME NEW q \in Procs PROVE WaitsAt(q)'
  <2>1. WaitsAt(q) BY <1>0, Zenon DEF Queue
  <2>2. CASE q = p BY Zenon, <1>2, <1>4, <2>2 DEF WaitsAt
  <2>3. CASE q # p BY <1>2, <1>4, <2>1, <2>3, Zenon DEF WaitsAt
  <2> QED BY Zenon, <2>2, <2>3
<1>11. ASSUME NEW q \in Procs, pc'[q] = "hold" PROVE valid[buf[q]]
  <2>1. CASE q = p BY Zenon, <1>4, <1>11, <2>1
  <2>2. CASE q # p BY <1>0, <1>4, <1>11, <2>2, Zenon DEF Contents
  <2> QED BY Zenon, <2>1, <2>2
<1> QED BY <1>1, <1>5, <1>6, <1>8, <1>9, <1>10, <1>11, QuietStep, Zenon

\* kill() wakes a process from acquiresleep() or iderw().
LEMMA KillStep ==
  ASSUME BioInv, NEW p \in Procs, Kill(p)
  PROVE  BioInv'
<1>0. UNCHANGED <<bufVars, ideVars, buf, latest>> BY Zenon DEF Kill
<1>1. WaitsAt(p) BY Zenon DEF BioInv, Queue
<1>2. CASE pc[p] = "lock_wait" /\ pc' = [pc EXCEPT ![p] = "lock"]
  <2>1. /\ pc[p] # "out" /\ "lock" # "out" /\ "lock" # "lock_wait" /\ "lock" \in Places
        /\ "lock" \in Holders <=> pc[p] \in Holders
        /\ "lock" # "disk" /\ "lock" # "hold" /\ "lock" # "disk_wait" /\ pc[p] \notin Holders
    BY <1>2 DEF Holders, Places
  <2> QED BY <1>0, <1>2, <2>1, MoveStep, Zenon
<1>3. CASE pc[p] = "disk_wait" /\ pc' = [pc EXCEPT ![p] = "disk"]
  <2>1. /\ pc[p] # "out" /\ "disk" # "out" /\ "disk" # "lock_wait" /\ "disk" \in Places
        /\ "disk" \in Holders <=> pc[p] \in Holders
        /\ "disk" \in {"disk_wait", "disk"} /\ "disk" # "disk_wait" /\ "disk" # "hold"
    BY <1>3 DEF Holders, Places
  <2>2. In(idequeue, buf[p]) BY <1>1, <1>3, Zenon DEF WaitsAt
  <2> QED BY <1>0, <1>3, <2>1, <2>2, MoveStep, Zenon
<1> QED BY <1>2, <1>3, Zenon DEF Kill

\* A process woken in iderw() returns or sleeps again.
LEMMA IderwTestStep ==
  ASSUME BioInv, NEW p \in Procs, IderwTest(p)
  PROVE  BioInv'
<1>0. UNCHANGED <<bufVars, ideVars, buf, latest>> /\ pc[p] = "disk" BY Zenon DEF IderwTest
<1>1. WaitsAt(p) BY Zenon DEF BioInv, Queue
<1>2. pc[p] # "out" /\ pc[p] \in Holders BY <1>0 DEF Holders
<1>3. buf[p] \in Bufs BY <1>2, Mine, Zenon
<1>4. QueuedAt(buf[p]) BY <1>3, Zenon DEF BioInv, Queue
<1>5. CASE valid[buf[p]] /\ ~dirty[buf[p]]
  <2>1. pc' = [pc EXCEPT ![p] = "hold"] BY <1>5, Zenon DEF IderwTest
  <2>2. ~In(idequeue, buf[p]) BY <1>4, <1>5, Zenon DEF QueuedAt
  <2>3. "hold" \in Places /\ "hold" \in Holders /\ "hold" # "out" /\ "hold" # "lock_wait"
        /\ "hold" # "disk_wait" /\ "hold" # "disk"
    BY DEF Places, Holders
  <2> QED BY <1>0, <1>2, <1>5, <2>1, <2>2, <2>3, MoveStep, Zenon
<1>6. CASE ~(valid[buf[p]] /\ ~dirty[buf[p]])
  <2>1. pc' = [pc EXCEPT ![p] = "disk_wait"] BY <1>6, Zenon DEF IderwTest
  <2>2. In(idequeue, buf[p]) BY <1>0, <1>1, <1>6, Zenon DEF WaitsAt
  <2>3. "disk_wait" \in Places /\ "disk_wait" \in Holders /\ "disk_wait" # "out"
        /\ "disk_wait" # "lock_wait" /\ "disk_wait" \in {"disk_wait", "disk"}
        /\ "disk_wait" # "disk" /\ "disk_wait" # "hold"
    BY DEF Places, Holders
  <2> QED BY <1>0, <1>2, <2>1, <2>2, <2>3, MoveStep, Zenon
<1> QED BY Zenon, <1>5, <1>6

\* brelse() gives its reference back, and the last one moves the buffer to the
\* head of the list.
LEMMA BrelseUnrefStep ==
  ASSUME BioInv, NEW p \in Procs, BrelseUnref(p)
  PROVE  BioInv'
<1>0. /\ Types /\ Uses /\ Locks /\ Counts /\ Once /\ Listed /\ Queue /\ Contents
      /\ Controller /\ Pins /\ pc[p] = "release" /\ pc[p] # "out" /\ 0 \notin Bufs
      /\ pc[p] \notin Holders
  BY DEF BioInv, BrelseUnref, Bufs, Holders
<1>1. PICK b \in Bufs : b = buf[p] BY <1>0, Mine, Zenon
<1>2. /\ buf' = [buf EXCEPT ![p] = 0] /\ pc' = [pc EXCEPT ![p] = "out"]
      /\ refcnt' = [refcnt EXCEPT ![b] = @ - 1]
      /\ list' = IF refcnt[b] = 1 THEN ToFront(b) ELSE list
      /\ blockno' = blockno /\ valid' = valid /\ dirty' = dirty /\ data' = data
      /\ locked' = locked /\ idequeue' = idequeue /\ ctl' = ctl /\ disk' = disk
      /\ latest' = latest
  BY <1>1, Zenon DEF BrelseUnref, ideVars
<1>3. /\ buf'[p] = 0 /\ pc'[p] = "out"
      /\ \A q \in Procs : q # p => buf'[q] = buf[q] /\ pc'[q] = pc[q]
  BY Zenon, <1>0, <1>2 DEF Types
<1>4. list' \in [Bufs -> Bufs] /\ \A c \in Bufs : \E i \in Bufs : list'[i] = c
  <2>1. CASE refcnt[b] = 1
    <3>1. list' = ToFront(b) BY <1>2, <2>1, Zenon
    <3> QED BY <1>0, <3>1, ToFrontFacts, Zenon
  <2>2. CASE refcnt[b] # 1
    <3>1. list' = list BY <1>2, <2>2, Zenon
    <3> QED BY <1>0, <3>1, Zenon DEF Types, Listed
  <2> QED BY Zenon, <2>1, <2>2
<1>5. Types'
  <2>1. refcnt' \in [Bufs -> Int] BY <1>0, <1>2 DEF Types
  <2>2. pc' \in [Procs -> Places] BY Zenon, <1>0, <1>2 DEF Types, Places
  <2>3. buf' \in [Procs -> Bufs \cup {0}] BY Zenon, <1>0, <1>2 DEF Types
  <2> QED BY Zenon, <1>0, <1>2, <1>4, <2>1, <2>2, <2>3 DEF Types
<1>6. Uses'
  <2> SUFFICES ASSUME NEW q \in Procs PROVE UsesAt(q)' BY Zenon DEF Uses
  <2>1. UsesAt(q) BY <1>0, Zenon DEF Uses
  <2>2. CASE q = p BY Zenon, <1>3, <2>2 DEF UsesAt
  <2>3. CASE q # p BY <1>2, <1>3, <2>1, <2>3, Zenon DEF UsesAt
  <2> QED BY <2>2, <2>3
<1>7. Locks'
  <2> SUFFICES ASSUME NEW c \in Bufs, NEW q \in Procs
               PROVE  locked'[c] = q <=> buf'[q] = c /\ pc'[q] \in Holders
    BY Zenon DEF Locks, LocksAt
  <2>1. locked[c] = q <=> buf[q] = c /\ pc[q] \in Holders BY <1>0, Zenon DEF Locks, LocksAt
  <2>2. CASE q = p
    <3>1. locked[c] # p BY <1>0, <2>1, <2>2, Zenon
    <3>2. buf'[p] # c BY <1>0, <1>3, Zenon
    <3> QED BY <1>2, <2>2, <3>1, <3>2, Zenon
  <2>3. CASE q # p BY <1>2, <1>3, <2>1, <2>3, Zenon
  <2> QED BY Zenon, <2>2, <2>3
<1>8. Counts'
  <2> SUFFICES ASSUME NEW c \in Bufs PROVE refcnt'[c] = Cardinality(Users(c)')
    BY Zenon DEF Counts
  <2>1. refcnt[c] = Cardinality(Users(c)) BY <1>0, Zenon DEF Counts
  <2>2. CASE c = b
    <3>1. p \in Users(b) /\ Users(b)' = Users(b) \ {p} BY Zenon, <1>0, <1>1, <1>3 DEF Users
    <3>2. Users(b) \subseteq Procs BY DEF Users
    <3>3. Cardinality(Users(b) \ {p}) = Cardinality(Users(b)) - 1
      BY <3>1, <3>2, Finite, FS_RemoveElement, Zenon
    <3>4. refcnt'[b] = refcnt[b] - 1 BY Zenon, <1>0, <1>2 DEF Types
    <3> QED BY <2>1, <2>2, <3>1, <3>3, <3>4, Zenon
  <2>3. CASE c # b
    <3>1. Users(c)' = Users(c) BY Zenon, <1>0, <1>1, <1>3, <2>3 DEF Users
    <3>2. refcnt'[c] = refcnt[c] BY Zenon, <1>0, <1>2, <2>3 DEF Types
    <3> QED BY Zenon, <2>1, <3>1, <3>2
  <2> QED BY <2>2, <2>3
<1>9. Once' BY Zenon, <1>0, <1>2 DEF Once
<1>10. Listed' BY <1>4, Zenon DEF Listed
<1>11. Queue'
  <2>1. ASSUME NEW c \in Bufs PROVE QueuedAt(c)'
    <3> SUFFICES ASSUME In(idequeue, c) PROVE QueuedAt(c)' BY <1>2, Zenon DEF QueuedAt
    <3>1. QueuedAt(c) /\ LocksAt(c) BY <1>0, Zenon DEF Queue, Locks
    <3>2. locked[c] # p BY <1>0, <3>1, Zenon DEF LocksAt
    <3>3. pc'[locked[c]] = pc[locked[c]] BY <1>3, <3>1, <3>2, Zenon DEF QueuedAt
    <3> QED BY <1>2, <3>1, <3>3, Zenon DEF QueuedAt, Waiting
  <2>2. ASSUME NEW q \in Procs PROVE WaitsAt(q)'
    <3>1. WaitsAt(q) BY <1>0, Zenon DEF Queue
    <3>2. CASE q = p BY Zenon, <1>3, <3>2 DEF WaitsAt
    <3>3. CASE q # p BY <1>2, <1>3, <3>1, <3>3, Zenon DEF WaitsAt
    <3> QED BY <3>2, <3>3
  <2> QED BY <1>0, <1>2, <2>1, <2>2, Zenon DEF Queue
<1>12. Contents'
  <2>1. ASSUME NEW c \in Bufs PROVE ContentAt(c)'
    BY Zenon, <1>0, <1>2, <2>1 DEF Contents, ContentAt
  <2>2. ASSUME NEW q \in Procs, pc'[q] = "hold" PROVE valid'[buf'[q]]
    <3>1. q # p /\ pc[q] = "hold" /\ buf'[q] = buf[q] BY Zenon, <1>3, <2>2
    <3> QED BY <1>0, <1>2, <3>1, Zenon DEF Contents
  <2>3. ASSUME NEW j \in Blocks PROVE CleanAt(j)'
    BY Zenon, <1>0, <1>2, <2>3 DEF Contents, CleanAt
  <2> QED BY <2>1, <2>2, <2>3, Zenon DEF Contents
<1>13. Controller' BY Zenon, <1>0, <1>2 DEF Controller, Working
<1>14. Pins' BY Zenon, <1>0, <1>2 DEF Pins, Pinned
<1> QED BY <1>5, <1>6, <1>7, <1>8, <1>9, <1>10, <1>11, <1>12, <1>13, <1>14, Zenon DEF BioInv

-----------------------------------------------------------------------------
(* The driver, and the writers of a buffer *)

\* The buffers that the log keeps are the dirty ones without a request.
LEMMA PinnedFacts ==
  /\ Pinned \subseteq Bufs
  /\ \A b \in Bufs : b \in Pinned <=> dirty[b] /\ ~In(idequeue, b)
BY Zenon DEF Pinned, In

\* With fewer pinned buffers the bound still holds.
LEMMA FewerPinned ==
  ASSUME BioInv, Pinned' \subseteq Pinned
  PROVE  Pins'
<1>1. IsFiniteSet(Pinned) /\ Cardinality(Pinned) \in Nat BY PinnedFacts, Finite, Zenon
<1>2. IsFiniteSet(Pinned') /\ Cardinality(Pinned') <= Cardinality(Pinned)
  BY <1>1, FS_Subset, Zenon
<1>3. Cardinality(Pinned') \in Nat BY <1>2, FS_CardinalityType, Zenon
<1> QED BY <1>1, <1>2, <1>3, BioAssumption DEF BioInv, Pins

\* A holder changes the contents of its buffer and marks it dirty.
LEMMA WriteContents ==
  ASSUME BioInv, NEW b \in Bufs, NEW v \in Vals, valid[b],
         blockno' = blockno, valid' = valid, disk' = disk,
         dirty' = [dirty EXCEPT ![b] = TRUE], data' = [data EXCEPT ![b] = v],
         latest' = [latest EXCEPT ![blockno[b]] = v]
  PROVE  (\A c \in Bufs : ContentAt(c)') /\ (\A k \in Blocks : CleanAt(k)')
<1>0. Types /\ Once /\ Contents BY Zenon DEF BioInv
<1>1. /\ dirty'[b] /\ \A c \in Bufs : c # b => dirty'[c] = dirty[c]
      /\ data'[b] = v /\ \A c \in Bufs : c # b => data'[c] = data[c]
  BY Zenon, <1>0 DEF Types
<1>2. blockno[b] \in Blocks BY <1>0, Zenon DEF Contents, ContentAt
<1>3. latest'[blockno[b]] = v /\ \A k \in Blocks : k # blockno[b] => latest'[k] = latest[k]
  BY Zenon, <1>0, <1>2 DEF Types
<1>4. ASSUME NEW c \in Bufs PROVE ContentAt(c)'
  <2>1. ContentAt(c) BY <1>0, Zenon DEF Contents
  <2>2. CASE c = b BY <1>1, <1>2, <1>3, <2>2, Zenon DEF ContentAt
  <2>3. CASE c # b
    <3>1. valid[c] => blockno[c] # blockno[b]
      BY <1>0, <1>2, <2>1, <2>3, BioAssumption, Zenon DEF ContentAt, Once
    <3>2. valid[c] => latest'[blockno[c]] = latest[blockno[c]]
      BY <1>3, <2>1, <3>1, Zenon DEF ContentAt
    <3>3. dirty'[c] = dirty[c] /\ data'[c] = data[c] BY <1>1, <2>3, Zenon
    <3> QED BY <2>1, <3>2, <3>3, Zenon DEF ContentAt
  <2> QED BY Zenon, <2>2, <2>3
<1>5. ASSUME NEW k \in Blocks PROVE CleanAt(k)'
  <2>1. CleanAt(k) BY <1>0, Zenon DEF Contents
  <2>2. CASE k = blockno[b] BY <1>1, <2>2, Zenon DEF CleanAt
  <2>3. CASE k # blockno[b]
    <3>1. \A c \in Bufs : blockno[c] = k => dirty'[c] = dirty[c] BY <1>1, <2>3, Zenon
    <3>2. latest'[k] = latest[k] BY <1>3, <2>3, Zenon
    <3> QED BY <2>1, <3>1, <3>2, Zenon DEF CleanAt
  <2> QED BY Zenon, <2>2, <2>3
<1> QED BY <1>4, <1>5, Zenon

\* iderw() by p for bread(), of a buffer b that is not valid, or for bwrite().
Requests(p, b, d, v) ==
  /\ b = buf[p] /\ pc[p] \in {"locked", "hold"} /\ Iderw(p, d, v)
  /\ blockno' = blockno /\ valid' = valid /\ refcnt' = refcnt /\ list' = list
  /\ locked' = locked /\ buf' = buf /\ latest' \in [Blocks -> Vals]
  /\ dirty' = [dirty EXCEPT ![b] = d] /\ data' = [data EXCEPT ![b] = v]
  /\ valid[b] => d

\* iderw() puts a locked buffer at the end of the queue.
LEMMA RequestStep ==
  ASSUME BioInv, NEW p \in Procs, NEW b \in Bufs, NEW d \in BOOLEAN, NEW v \in Vals,
         Requests(p, b, d, v),
         (\A c \in Bufs : ContentAt(c)') /\ (\A k \in Blocks : CleanAt(k)')
  PROVE  BioInv'
<1>a. /\ b = buf[p] /\ pc[p] \in {"locked", "hold"} /\ Iderw(p, d, v)
      /\ blockno' = blockno /\ valid' = valid /\ refcnt' = refcnt /\ list' = list
      /\ locked' = locked /\ buf' = buf /\ latest' \in [Blocks -> Vals]
      /\ dirty' = [dirty EXCEPT ![b] = d] /\ data' = [data EXCEPT ![b] = v]
      /\ valid[b] => d
  BY Zenon DEF Requests
<1>b. buf[p] = b /\ blockno' = blockno /\ valid' = valid /\ locked' = locked /\ buf' = buf
  BY <1>a, Zenon
<1>0. /\ Types /\ Uses /\ Locks /\ Counts /\ Once /\ Listed /\ Queue /\ Contents
      /\ Controller /\ Pins /\ pc[p] # "out" /\ pc[p] \in Holders
  BY Zenon, <1>a DEF BioInv, Holders
<1>1. locked[b] = p /\ ~In(idequeue, b) BY <1>a, <1>0, Mine, Zenon
<1>2. /\ idequeue' = Append(idequeue, b) /\ pc' = [pc EXCEPT ![p] = "disk_wait"]
      /\ disk' = disk /\ ctl' = IF idequeue = <<>> THEN Command(b, d, v) ELSE ctl
  BY <1>a, Zenon DEF Iderw
<1>3. idequeue \in Seq(Bufs) /\ Distinct(idequeue) BY <1>0, Zenon DEF Types, Queue
<1>4. /\ idequeue' \in Seq(Bufs) /\ idequeue' # <<>> /\ Distinct(idequeue')
      /\ Head(idequeue') = IF idequeue = <<>> THEN b ELSE Head(idequeue)
      /\ \A c : In(idequeue', c) <=> In(idequeue, c) \/ c = b
  <2> DEFINE q == Append(idequeue, b)
  <2>1. /\ q \in Seq(Bufs) /\ q # <<>> /\ Distinct(q)
        /\ Head(q) = IF idequeue = <<>> THEN b ELSE Head(idequeue)
        /\ \A c : In(q, c) <=> In(idequeue, c) \/ c = b
    BY <1>1, <1>3, AppendFacts, Zenon
  <2> HIDE DEF q
  <2>2. idequeue' = q BY Zenon, <1>2 DEF q
  <2> QED BY Zenon, <2>1, <2>2
<1>5. /\ dirty'[b] = d /\ \A c \in Bufs : c # b => dirty'[c] = dirty[c]
      /\ data'[b] = v /\ \A c \in Bufs : c # b => data'[c] = data[c]
      /\ pc'[p] = "disk_wait" /\ \A q \in Procs : q # p => pc'[q] = pc[q]
  BY Zenon, <1>a, <1>0, <1>2 DEF Types
<1>6. Types'
  <2>1. dirty' \in [Bufs -> BOOLEAN] BY <1>a, <1>0, Zenon DEF Types
  <2>2. data' \in [Bufs -> Vals] BY <1>a, <1>0, Zenon DEF Types
  <2>3. pc' \in [Procs -> Places] BY Zenon, <1>0, <1>2 DEF Types, Places
  <2>4. ctl' \in Commands
    <3>1. Idle.data \in Vals BY Zenon, BioAssumption DEF Idle
    <3>2. blockno[b] \in Blocks \cup {NoBlock} BY Zenon, <1>0 DEF Types
    <3>3. Command(b, d, v) \in Commands BY Zenon, <3>1, <3>2 DEF Command, Commands
    <3> QED BY <1>0, <1>2, <3>3, Zenon DEF Types
  <2> QED BY Zenon, <1>a, <1>0, <1>2, <1>4, <2>1, <2>2, <2>3, <2>4 DEF Types
<1>7. Uses'
  <2> SUFFICES ASSUME NEW q \in Procs PROVE UsesAt(q)' BY Zenon DEF Uses
  <2>1. UsesAt(q) BY <1>0, Zenon DEF Uses
  <2>2. CASE q = p
    <3>1. pc'[p] # "out" /\ pc'[p] # "lock_wait" BY Zenon, <1>5
    <3> QED BY <1>b, <1>0, <2>1, <2>2, <3>1, Zenon DEF UsesAt
  <2>3. CASE q # p BY <1>b, <1>5, <2>1, <2>3, Zenon DEF UsesAt
  <2> QED BY Zenon, <2>2, <2>3
<1>8. Locks'
  <2> SUFFICES ASSUME NEW c \in Bufs, NEW q \in Procs
               PROVE  locked'[c] = q <=> buf'[q] = c /\ pc'[q] \in Holders
    BY Zenon DEF Locks, LocksAt
  <2>1. locked[c] = q <=> buf[q] = c /\ pc[q] \in Holders BY <1>0, Zenon DEF Locks, LocksAt
  <2>2. pc'[p] \in Holders BY Zenon, <1>5 DEF Holders
  <2>3. CASE q = p BY <1>b, <1>0, <2>1, <2>2, <2>3, Zenon
  <2>4. CASE q # p BY <1>b, <1>5, <2>1, <2>4, Zenon
  <2> QED BY Zenon, <2>3, <2>4
<1>9. Counts' BY Zenon, <1>a, <1>0 DEF Counts, Users
<1>10. Once' /\ Listed' BY Zenon, <1>a, <1>0 DEF Once, Listed
<1>11. Queue'
  <2>1. ASSUME NEW c \in Bufs PROVE QueuedAt(c)'
    <3>1. QueuedAt(c) /\ LocksAt(c) BY <1>0, Zenon DEF Queue, Locks
    <3>2. CASE c = b
      <4>1. Waiting(p)' BY Zenon, <1>5 DEF Waiting
      <4>2. valid'[b] => dirty'[b] BY <1>a, <1>5, Zenon
      <4> QED BY <1>b, <1>1, <3>2, <4>1, <4>2, Zenon DEF QueuedAt, Waiting
    <3>3. CASE c # b
      <4> SUFFICES ASSUME In(idequeue, c) PROVE QueuedAt(c)'
        BY <1>4, <3>3, Zenon DEF QueuedAt
      <4>1. locked[c] # p BY <1>b, <3>1, <3>3, Zenon DEF LocksAt
      <4>2. pc'[locked[c]] = pc[locked[c]] BY <1>5, <3>1, <4>1, Zenon DEF QueuedAt
      <4>3. dirty'[c] = dirty[c] BY <1>5, <3>3, Zenon
      <4> QED BY <1>b, <3>1, <4>2, <4>3, Zenon DEF QueuedAt, Waiting
    <3> QED BY Zenon, <3>2, <3>3
  <2>2. ASSUME NEW q \in Procs PROVE WaitsAt(q)'
    <3>1. WaitsAt(q) BY <1>0, Zenon DEF Queue
    <3>2. CASE q = p
      <4>1. pc'[p] # "disk" BY Zenon, <1>5
      <4> QED BY <1>b, <1>4, <3>2, <4>1, Zenon DEF WaitsAt
    <3>3. CASE q # p
      <4>1. pc[q] = "disk" => buf[q] \in Bufs
        <5>1. pc[q] = "disk" => pc[q] # "out" OBVIOUS
        <5> QED BY <5>1, Mine, Zenon
      <4>2. pc[q] = "disk" /\ buf[q] # b => dirty'[buf[q]] = dirty[buf[q]]
        BY <1>5, <4>1, Zenon
      <4> QED BY <1>b, <1>4, <1>5, <3>1, <3>3, <4>2, Zenon DEF WaitsAt
    <3> QED BY Zenon, <3>2, <3>3
  <2> QED BY <1>4, <2>1, <2>2, Zenon DEF Queue
<1>12. Contents'
  <2>1. ASSUME NEW q \in Procs, pc'[q] = "hold" PROVE valid'[buf'[q]]
    <3>1. q # p /\ pc[q] = "hold" BY Zenon, <1>5, <2>1
    <3> QED BY <1>b, <1>0, <3>1, Zenon DEF Contents
  <2> QED BY <2>1, Zenon DEF Contents
<1>13. Controller'
  <2>1. CASE idequeue = <<>>
    <3>1. Head(idequeue') = b /\ ctl' = Command(b, d, v) BY <1>2, <1>4, <2>1, Zenon
    <3>2. Working(b)' BY Zenon, <1>b, <1>5, <3>1 DEF Working, Command
    <3> QED BY <1>4, <3>1, <3>2, Zenon DEF Controller
  <2>2. CASE idequeue # <<>>
    <3>1. PICK h \in Bufs : h = Head(idequeue) /\ In(idequeue, h)
      BY <1>3, <2>2, HeadFacts, Zenon
    <3>2. Head(idequeue') = h /\ ctl' = ctl BY <1>2, <1>4, <2>2, <3>1, Zenon
    <3>3. Working(h) BY <1>0, <2>2, <3>1, Zenon DEF Controller
    <3>4. h # b BY <1>1, <3>1, Zenon
    <3>5. Working(h)' BY <1>b, <1>2, <1>5, <3>2, <3>3, <3>4 DEF Working
    <3> QED BY <1>4, <3>2, <3>5, Zenon DEF Controller
  <2> QED BY Zenon, <2>1, <2>2
<1>14. Pins'
  <2>1. ASSUME NEW c \in Pinned' PROVE c \in Pinned
    <3>1. c \in Bufs /\ dirty'[c] /\ ~In(idequeue', c) BY Zenon DEF Pinned, In
    <3>2. c # b /\ ~In(idequeue, c) BY <1>4, <3>1, Zenon
    <3>3. dirty[c] BY <1>5, <3>1, <3>2, Zenon
    <3> QED BY <3>1, <3>2, <3>3, PinnedFacts, Zenon
  <2> QED BY <2>1, FewerPinned, Zenon
<1> QED BY <1>6, <1>7, <1>8, <1>9, <1>10, <1>11, <1>12, <1>13, <1>14, Zenon DEF BioInv

\* bread() finds the buffer valid, or has the disk read it.
LEMMA BreadStep ==
  ASSUME BioInv, NEW p \in Procs, Bread(p)
  PROVE  BioInv'
<1>0. /\ Types /\ Contents /\ pc[p] = "locked" /\ pc[p] # "out" /\ pc[p] \in Holders
      /\ pc[p] \in {"locked", "hold"} /\ UNCHANGED <<bufVars, buf, latest>>
  BY Zenon DEF BioInv, Bread, Holders
<1>1. PICK b \in Bufs : b = buf[p] /\ ~In(idequeue, b) BY <1>0, Mine, Zenon
<1>2. CASE valid[b]
  <2>1. pc' = [pc EXCEPT ![p] = "hold"] /\ UNCHANGED ideVars BY <1>1, <1>2, Zenon DEF Bread
  <2>2. "hold" \in Places /\ "hold" \in Holders /\ "hold" # "out" /\ "hold" # "lock_wait"
        /\ "hold" # "disk_wait" /\ "hold" # "disk"
    BY DEF Places, Holders
  <2> QED BY <1>0, <1>1, <1>2, <2>1, <2>2, MoveStep, Zenon
<1>3. CASE ~valid[b]
  <2>1. Iderw(p, dirty[b], data[b]) BY <1>1, <1>3, Zenon DEF Bread
  <2>2. /\ blockno' = blockno /\ valid' = valid /\ refcnt' = refcnt /\ list' = list
        /\ locked' = locked /\ buf' = buf /\ dirty' = dirty /\ data' = data
        /\ latest' = latest /\ disk' = disk
    BY <1>0, <2>1, Zenon DEF bufVars, Iderw
  <2>3. /\ dirty \in [Bufs -> BOOLEAN] /\ data \in [Bufs -> Vals]
        /\ latest \in [Blocks -> Vals]
    BY <1>0, Zenon DEF Types
  <2>4. dirty[b] \in BOOLEAN /\ data[b] \in Vals BY Zenon, <2>3
  <2>5. dirty' = [dirty EXCEPT ![b] = dirty[b]] /\ data' = [data EXCEPT ![b] = data[b]]
    BY Zenon, <2>2, <2>3
  <2>6. \A c \in Bufs : ContentAt(c)' BY Zenon, <1>0, <2>2 DEF Contents, ContentAt
  <2>7. \A k \in Blocks : CleanAt(k)' BY Zenon, <1>0, <2>2 DEF Contents, CleanAt
  <2>8. Requests(p, b, dirty[b], data[b])
    BY <1>0, <1>1, <1>3, <2>1, <2>2, <2>3, <2>5, Zenon DEF Requests
  <2> QED BY <2>4, <2>6, <2>7, <2>8, RequestStep, Zenon
<1> QED BY Zenon, <1>2, <1>3

\* What the holder of a buffer has in hand.
LEMMA Holding ==
  ASSUME BioInv, NEW p \in Procs, pc[p] = "hold"
  PROVE  /\ buf[p] \in Bufs /\ valid[buf[p]] /\ locked[buf[p]] = p
         /\ blockno[buf[p]] \in Blocks /\ ~In(idequeue, buf[p])
<1>1. pc[p] # "out" /\ pc[p] \in Holders /\ pc[p] \in {"locked", "hold"} BY DEF Holders
<1> QED BY <1>1, Mine, Zenon DEF BioInv, Contents

\* bwrite() has the disk write the buffer.
LEMMA BwriteStep ==
  ASSUME BioInv, NEW p \in Procs, NEW v \in Vals, Bwrite(p, v)
  PROVE  BioInv'
<1>0. Types /\ pc[p] = "hold" /\ pc[p] \in {"locked", "hold"} BY Zenon DEF BioInv, Bwrite
<1>1. PICK b \in Bufs : b = buf[p] /\ valid[b] /\ blockno[b] \in Blocks BY <1>0, Holding, Zenon
<1>2. /\ Iderw(p, TRUE, v) /\ data' = [data EXCEPT ![b] = v]
      /\ dirty' = [dirty EXCEPT ![b] = TRUE] /\ latest' = [latest EXCEPT ![blockno[b]] = v]
      /\ blockno' = blockno /\ valid' = valid /\ refcnt' = refcnt /\ list' = list
      /\ locked' = locked /\ buf' = buf
  BY <1>1, Zenon DEF Bwrite
<1>3. disk' = disk BY <1>2, Zenon DEF Iderw
<1>4. (\A c \in Bufs : ContentAt(c)') /\ (\A k \in Blocks : CleanAt(k)')
  BY <1>1, <1>2, <1>3, WriteContents, Zenon
<1>5. latest' \in [Blocks -> Vals]
  <2>1. latest \in [Blocks -> Vals] BY <1>0, Zenon DEF Types
  <2> QED BY <1>2, <2>1, Zenon
<1>6. Requests(p, b, TRUE, v) BY <1>0, <1>1, <1>2, <1>5, Zenon DEF Requests
<1> QED BY <1>4, <1>6, RequestStep, Zenon

\* log_write() keeps the buffer in the cache until it is installed.
LEMMA LogWriteStep ==
  ASSUME BioInv, NEW p \in Procs, NEW v \in Vals, LogWrite(p, v)
  PROVE  BioInv'
<1>0. /\ Types /\ Uses /\ Locks /\ Counts /\ Once /\ Listed /\ Queue /\ Contents
      /\ Controller /\ Pins /\ pc[p] = "hold"
  BY Zenon DEF BioInv, LogWrite
<1>1. PICK b \in Bufs : /\ b = buf[p] /\ valid[b] /\ locked[b] = p /\ blockno[b] \in Blocks
                        /\ ~In(idequeue, b)
  BY <1>0, Holding, Zenon
<1>2. /\ data' = [data EXCEPT ![b] = v] /\ dirty' = [dirty EXCEPT ![b] = TRUE]
      /\ latest' = [latest EXCEPT ![blockno[b]] = v]
      /\ dirty[b] \/ Cardinality(Pinned) < MaxPinned
  BY <1>1, Zenon DEF LogWrite
<1>3. /\ blockno' = blockno /\ valid' = valid /\ refcnt' = refcnt /\ list' = list
      /\ locked' = locked /\ buf' = buf /\ pc' = pc
      /\ idequeue' = idequeue /\ ctl' = ctl /\ disk' = disk
  BY Zenon DEF LogWrite, ideVars
<1>4. (\A c \in Bufs : ContentAt(c)') /\ (\A k \in Blocks : CleanAt(k)')
  BY <1>1, <1>2, <1>3, WriteContents, Zenon
<1>5. /\ dirty'[b] /\ \A c \in Bufs : c # b => dirty'[c] = dirty[c]
      /\ \A c \in Bufs : c # b => data'[c] = data[c]
  <2>1. dirty \in [Bufs -> BOOLEAN] /\ data \in [Bufs -> Vals] BY <1>0, Zenon DEF Types
  <2> QED BY Zenon, <1>2, <2>1
<1>6. Types'
  <2>1. data \in [Bufs -> Vals] /\ dirty \in [Bufs -> BOOLEAN] /\ latest \in [Blocks -> Vals]
    BY <1>0, Zenon DEF Types
  <2>2. data' \in [Bufs -> Vals] BY <1>2, <2>1, Zenon
  <2>3. dirty' \in [Bufs -> BOOLEAN] BY <1>2, <2>1, Zenon
  <2>4. latest' \in [Blocks -> Vals] BY <1>2, <2>1, Zenon
  <2> QED BY Zenon, <1>0, <1>3, <2>2, <2>3, <2>4 DEF Types
<1>7. Uses' BY Zenon, <1>0, <1>3 DEF Uses, UsesAt
<1>8. Locks' BY Zenon, <1>0, <1>3 DEF Locks, LocksAt
<1>9. Counts' BY Zenon, <1>0, <1>3 DEF Counts, Users
<1>10. Once' /\ Listed' BY Zenon, <1>0, <1>3 DEF Once, Listed
<1>11. Queue'
  <2>1. ASSUME NEW c \in Bufs PROVE QueuedAt(c)'
    <3> SUFFICES ASSUME In(idequeue, c) PROVE QueuedAt(c)' BY <1>3, Zenon DEF QueuedAt
    <3>1. QueuedAt(c) /\ dirty'[c] = dirty[c] BY <1>0, <1>1, <1>5, Zenon DEF Queue
    <3> QED BY <1>3, <3>1, Zenon DEF QueuedAt, Waiting
  <2>2. ASSUME NEW q \in Procs PROVE WaitsAt(q)'
    <3>1. WaitsAt(q) BY <1>0, Zenon DEF Queue
    <3>2. pc[q] = "disk" => q # p /\ pc[q] # "out" /\ pc[q] \in Holders
      BY Zenon, <1>0 DEF Holders
    <3>3. pc[q] = "disk" => buf[q] \in Bufs /\ buf[q] # b
      BY <1>1, <3>2, Mine, Zenon
    <3>4. pc[q] = "disk" => dirty'[buf[q]] = dirty[buf[q]] BY <1>5, <3>3, Zenon
    <3> QED BY <1>3, <3>1, <3>4, Zenon DEF WaitsAt
  <2> QED BY <1>0, <1>3, <2>1, <2>2, Zenon DEF Queue
<1>12. Contents'
  <2>1. \A q \in Procs : pc'[q] = "hold" => valid'[buf'[q]]
    BY <1>0, <1>3, Zenon DEF Contents
  <2> QED BY <1>4, <2>1, Zenon DEF Contents
<1>13. Controller'
  <2>1. CASE idequeue = <<>> BY <1>0, <1>3, <2>1, Zenon DEF Controller
  <2>2. CASE idequeue # <<>>
    <3>1. idequeue \in Seq(Bufs) BY <1>0, Zenon DEF Types
    <3>2. PICK h \in Bufs : h = Head(idequeue) /\ In(idequeue, h)
      BY <2>2, <3>1, HeadFacts, Zenon
    <3>3. Working(h) BY <1>0, <2>2, <3>2, Zenon DEF Controller
    <3>4. h # b BY <1>1, <3>2, Zenon
    <3>5. dirty'[h] = dirty[h] /\ data'[h] = data[h] BY <1>5, <3>4, Zenon
    <3>6. Working(h)' BY Zenon, <1>3, <3>3, <3>5 DEF Working
    <3> QED BY <1>3, <2>2, <3>2, <3>6, Zenon DEF Controller
  <2> QED BY Zenon, <2>1, <2>2
<1>14. Pins'
  <2>1. ASSUME NEW c \in Bufs PROVE c \in Pinned' <=> dirty'[c] /\ ~In(idequeue, c)
    BY <1>3, Zenon DEF Pinned, In
  <2>2. Pinned' \subseteq Bufs BY Zenon DEF Pinned
  <2>3. CASE dirty[b]
    <3>1. \A c \in Bufs : dirty'[c] => dirty[c] BY <1>5, <2>3, Zenon
    <3>2. Pinned' \subseteq Pinned BY <2>1, <2>2, <3>1, PinnedFacts, Zenon
    <3> QED BY <3>2, FewerPinned, Zenon
  <2>4. CASE ~dirty[b]
    <3>1. IsFiniteSet(Pinned) /\ Cardinality(Pinned) \in Nat BY PinnedFacts, Finite, Zenon
    <3>2. b \notin Pinned BY <2>4, PinnedFacts, Zenon
    <3>3. Pinned' = Pinned \cup {b}
      <4>1. ASSUME NEW c \in Bufs PROVE c \in Pinned' <=> c \in Pinned \/ c = b
        BY <1>1, <1>5, <2>1, <4>1, PinnedFacts, Zenon
      <4> QED BY <2>2, <4>1, PinnedFacts, Zenon
    <3>4. Cardinality(Pinned \cup {b}) = Cardinality(Pinned) + 1
      BY <3>1, <3>2, FS_AddElement, Zenon
    <3>5. Cardinality(Pinned) < MaxPinned BY <1>2, <2>4, Zenon
    <3>6. Cardinality(Pinned') <= MaxPinned BY <3>1, <3>3, <3>4, <3>5, BioAssumption
    <3> QED BY <3>6, Zenon DEF Pins
  <2> QED BY Zenon, <2>3, <2>4
<1> QED BY <1>6, <1>7, <1>8, <1>9, <1>10, <1>11, <1>12, <1>13, <1>14, Zenon DEF BioInv

\* What is left to show of a step of the disk.
LEMMA Served ==
  ASSUME BioInv, Serve, ctl' \in Commands, disk' \in [Blocks -> Vals], idequeue # <<>>,
         NEW h \in Bufs, h = Head(idequeue), Working(h)', \A k \in Blocks : CleanAt(k)'
  PROVE  BioInv'
<1>0. /\ Types /\ Uses /\ Locks /\ Counts /\ Once /\ Listed /\ Queue /\ Contents /\ Pins
  BY Zenon DEF BioInv
<1>1. /\ blockno' = blockno /\ valid' = valid /\ dirty' = dirty /\ refcnt' = refcnt
      /\ data' = data /\ list' = list /\ locked' = locked /\ idequeue' = idequeue
      /\ pc' = pc /\ buf' = buf /\ latest' = latest
  BY Zenon DEF Serve, bufVars
<1>2. Types' BY Zenon, <1>0, <1>1 DEF Types
<1>3. Uses' BY Zenon, <1>0, <1>1 DEF Uses, UsesAt
<1>4. Locks' BY Zenon, <1>0, <1>1 DEF Locks, LocksAt
<1>5. Counts' BY Zenon, <1>0, <1>1 DEF Counts, Users
<1>6. Once' /\ Listed' BY Zenon, <1>0, <1>1 DEF Once, Listed
<1>7. Queue' BY Zenon, <1>0, <1>1 DEF Queue, QueuedAt, WaitsAt, Waiting
<1>8. Contents'
  <2>1. \A c \in Bufs : ContentAt(c)' BY Zenon, <1>0, <1>1 DEF Contents, ContentAt
  <2>2. \A q \in Procs : pc'[q] = "hold" => valid'[buf'[q]]
    BY <1>0, <1>1, Zenon DEF Contents
  <2> QED BY <2>1, <2>2, Zenon DEF Contents
<1>9. Controller' BY <1>1, Zenon DEF Controller
<1>10. Pins' BY Zenon, <1>0, <1>1 DEF Pins, Pinned
<1> QED BY <1>2, <1>3, <1>4, <1>5, <1>6, <1>7, <1>8, <1>9, <1>10, Zenon DEF BioInv

\* The disk serves the command of the first buffer.
LEMMA ServeStep ==
  ASSUME BioInv, Serve
  PROVE  BioInv'
<1>0. /\ Types /\ Uses /\ Locks /\ Counts /\ Once /\ Listed /\ Queue /\ Contents
      /\ Controller /\ Pins
  BY Zenon DEF BioInv
<1>1. /\ blockno' = blockno /\ valid' = valid /\ dirty' = dirty /\ refcnt' = refcnt
      /\ data' = data /\ list' = list /\ locked' = locked /\ idequeue' = idequeue
      /\ pc' = pc /\ buf' = buf /\ latest' = latest
  BY Zenon DEF Serve, bufVars
<1>2. ctl.cmd # "none" BY Zenon DEF Serve
<1>3. ctl \in Commands /\ disk \in [Blocks -> Vals] /\ idequeue \in Seq(Bufs)
  BY <1>0, Zenon DEF Types
<1>4. PICK h \in Bufs : h = Head(idequeue) /\ In(idequeue, h) /\ idequeue # <<>>
  <2>1. idequeue # <<>> BY <1>0, <1>2, Zenon DEF Controller
  <2> QED BY <1>3, <2>1, HeadFacts, Zenon
<1>5. Working(h) /\ ContentAt(h) BY <1>0, <1>4, Zenon DEF Controller, Contents
<1>6. blockno[h] \in Blocks
  <2>1. QueuedAt(h) BY <1>0, Zenon DEF Queue
  <2>2. PICK p \in Procs : In(idequeue, h) => locked[h] = p BY <1>4, <2>1, Zenon DEF QueuedAt
  <2>3. pc[p] # "out" /\ buf[p] = h
    <3>1. buf[p] = h /\ pc[p] \in Holders BY <1>0, <1>4, <2>2, Zenon DEF Locks, LocksAt
    <3> QED BY Zenon, <3>1 DEF Holders
  <2> QED BY <2>3, Mine, Zenon
<1>7. CASE ctl.cmd = "write"
  <2>1. disk' = [disk EXCEPT ![ctl.block] = ctl.data] /\ ctl' = [ctl EXCEPT !.done = TRUE]
    BY <1>7, Zenon DEF Serve
  <2>2. ctl.block = blockno[h] /\ ctl.data \in Vals /\ dirty[h]
    BY Zenon, <1>3, <1>5, <1>7 DEF Working, Commands
  <2>3. /\ ctl' \in Commands /\ ctl'.cmd = ctl.cmd /\ ctl'.block = ctl.block
        /\ ctl'.data = ctl.data
    BY Zenon, <1>3, <2>1 DEF Commands
  <2>4. /\ disk' \in [Blocks -> Vals] /\ disk'[blockno[h]] = ctl.data
        /\ \A k \in Blocks : k # blockno[h] => disk'[k] = disk[k]
    BY <1>3, <1>6, <2>1, <2>2
  <2>5. Working(h)'
    <3>1. disk'[ctl'.block] = ctl'.data BY <2>2, <2>3, <2>4, Zenon
    <3> QED BY Zenon, <1>1, <1>5, <2>3, <3>1 DEF Working
  <2>6. ASSUME NEW k \in Blocks PROVE CleanAt(k)'
    <3>1. CleanAt(k) BY <1>0, Zenon DEF Contents
    <3>2. CASE k = blockno[h] BY <1>1, <2>2, <3>2, Zenon DEF CleanAt
    <3>3. CASE k # blockno[h]
      <4>1. disk'[k] = disk[k] BY <2>4, <3>3, Zenon
      <4> QED BY Zenon, <1>1, <3>1, <4>1 DEF CleanAt
    <3> QED BY <3>2, <3>3
  <2> QED BY <1>4, <2>3, <2>4, <2>5, <2>6, Served, Zenon
<1>8. CASE ctl.cmd # "write"
  <2>1. disk' = disk /\ ctl' = [ctl EXCEPT !.done = TRUE, !.data = disk[ctl.block]]
    BY <1>8, Zenon DEF Serve
  <2>2. ctl.block = blockno[h] BY <1>5, Zenon DEF Working
  <2>3. disk[ctl.block] \in Vals BY Zenon, <1>3, <1>6, <2>2
  <2>4. /\ ctl' \in Commands /\ ctl'.cmd = ctl.cmd /\ ctl'.block = ctl.block
        /\ ctl'.data = disk[ctl.block]
    BY Zenon, <1>3, <2>1, <2>3 DEF Commands
  <2>5. Working(h)' BY <1>1, <1>5, <1>8, <2>1, <2>4 DEF Working
  <2>6. \A k \in Blocks : CleanAt(k)' BY <1>0, <1>1, <2>1 DEF Contents, CleanAt
  <2> QED BY <1>3, <1>4, <2>1, <2>4, <2>5, <2>6, Served, Zenon
<1> QED BY Zenon, <1>7, <1>8

\* ideintr() completes the first request and starts the next.
LEMMA IdeintrStep ==
  ASSUME BioInv, Ideintr
  PROVE  BioInv'
<1>0. /\ Types /\ Uses /\ Locks /\ Counts /\ Once /\ Listed /\ Queue /\ Contents
      /\ Controller /\ Pins
  BY Zenon DEF BioInv
<1>1. /\ idequeue \in Seq(Bufs) /\ ctl \in Commands /\ Distinct(idequeue)
      /\ data \in [Bufs -> Vals] /\ valid \in [Bufs -> BOOLEAN]
      /\ dirty \in [Bufs -> BOOLEAN] /\ pc \in [Procs -> Places]
  BY <1>0, Zenon DEF Types, Queue
<1>2. idequeue # <<>> BY <1>0, Zenon DEF Controller, Ideintr
<1>3. PICK h \in Bufs : h = Head(idequeue) /\ In(idequeue, h)
  BY <1>1, <1>2, HeadFacts, Zenon
<1>4. PICK q \in Seq(Bufs) : /\ q = Tail(idequeue) /\ Distinct(q)
                             /\ \A c : In(q, c) <=> In(idequeue, c) /\ c # h
  BY <1>1, <1>2, <1>3, TailFacts, Zenon
<1>5. /\ idequeue' = q /\ data' = [data EXCEPT ![h] = IF dirty[h] THEN @ ELSE ctl.data]
      /\ valid' = [valid EXCEPT ![h] = TRUE] /\ dirty' = [dirty EXCEPT ![h] = FALSE]
      /\ pc' = wakeDisk(h)
      /\ ctl' = IF q = <<>> THEN Idle ELSE Command(Head(q), dirty[Head(q)], data[Head(q)])
  BY <1>3, <1>4, Zenon DEF Ideintr
<1>6. /\ blockno' = blockno /\ refcnt' = refcnt /\ list' = list /\ locked' = locked
      /\ disk' = disk /\ buf' = buf /\ latest' = latest /\ ctl.done
  BY Zenon DEF Ideintr
<1>7. Working(h) /\ ContentAt(h) /\ ctl.data \in Vals
  BY Zenon, <1>0, <1>1, <1>2, <1>3 DEF Controller, Contents, Commands
<1>8. blockno[h] \in Blocks
  <2>1. QueuedAt(h) BY <1>0, Zenon DEF Queue
  <2>2. PICK p \in Procs : locked[h] = p BY <1>3, <2>1, Zenon DEF QueuedAt
  <2>3. buf[p] = h /\ pc[p] \in Holders BY <1>0, <2>2, Zenon DEF Locks, LocksAt
  <2>4. pc[p] # "out" BY Zenon, <2>3 DEF Holders
  <2> QED BY <2>3, <2>4, Mine, Zenon
<1>9. disk[blockno[h]] = ctl.data /\ (dirty[h] => ctl.data = data[h])
  BY Zenon, <1>6, <1>7 DEF Working
<1>10. disk[blockno[h]] = latest[blockno[h]] \/ dirty[h]
  <2>1. CleanAt(blockno[h]) BY <1>0, <1>8, Zenon DEF Contents
  <2>2. ASSUME NEW c \in Bufs, blockno[c] = blockno[h] PROVE c = h
    BY <1>0, <1>8, <2>2, BioAssumption, Zenon DEF Once
  <2> QED BY <2>1, <2>2, Zenon DEF CleanAt
<1>11. disk[blockno[h]] = latest[blockno[h]]
  BY <1>7, <1>9, <1>10, Zenon DEF ContentAt
<1>12. /\ valid'[h] /\ \A c \in Bufs : c # h => valid'[c] = valid[c]
       /\ ~dirty'[h] /\ \A c \in Bufs : c # h => dirty'[c] = dirty[c]
  BY Zenon, <1>1, <1>5
<1>13. data'[h] = ctl.data /\ \A c \in Bufs : c # h => data'[c] = data[c]
  BY Zenon, <1>1, <1>5, <1>9
<1>14. \A p \in Procs : pc'[p] = IF pc[p] = "disk_wait" /\ buf[p] = h THEN "disk" ELSE pc[p]
  BY Zenon, <1>5 DEF wakeDisk
<1>15. Types'
  <2>1. pc' \in [Procs -> Places] BY Zenon, <1>1, <1>5 DEF wakeDisk, Places
  <2>2. valid' \in [Bufs -> BOOLEAN] /\ dirty' \in [Bufs -> BOOLEAN] BY <1>1, <1>5, Zenon
  <2>3. data' \in [Bufs -> Vals] BY Zenon, <1>1, <1>5, <1>7
  <2>4. ctl' \in Commands
    <3>1. Idle.data \in Vals BY Zenon, BioAssumption DEF Idle
    <3>2. CASE q = <<>>
      <4>1. Idle \in Commands BY Zenon, <3>1 DEF Idle, Commands
      <4> QED BY <1>5, <3>2, <4>1, Zenon
    <3>3. CASE q # <<>>
      <4>1. PICK n \in Bufs : n = Head(q) BY <3>3, HeadFacts, Zenon
      <4>2. blockno[n] \in Blocks \cup {NoBlock} /\ data[n] \in Vals
        BY Zenon, <1>0 DEF Types
      <4>3. Command(n, dirty[n], data[n]) \in Commands BY Zenon, <3>1, <4>2 DEF Command, Commands
      <4> QED BY <1>5, <3>3, <4>1, <4>3, Zenon
    <3> QED BY <3>2, <3>3
  <2> QED BY <1>0, <1>5, <1>6, <2>1, <2>2, <2>3, <2>4 DEF Types
<1>16. \A p \in Procs : /\ pc'[p] = "out" <=> pc[p] = "out"
                        /\ pc'[p] = "lock_wait" <=> pc[p] = "lock_wait"
                        /\ pc'[p] = "hold" <=> pc[p] = "hold"
                        /\ pc'[p] \in Holders <=> pc[p] \in Holders
                        /\ pc'[p] \in {"disk_wait", "disk"} <=> pc[p] \in {"disk_wait", "disk"}
                        /\ pc'[p] = "disk_wait" <=> pc[p] = "disk_wait" /\ buf[p] # h
                        /\ pc'[p] = "disk" => pc[p] = "disk" \/ buf[p] = h
  BY Zenon, <1>14 DEF Holders
<1>17. Uses'
  <2> SUFFICES ASSUME NEW p \in Procs PROVE UsesAt(p)' BY Zenon DEF Uses
  <2>1. UsesAt(p) BY <1>0, Zenon DEF Uses
  <2> QED BY <1>6, <1>16, <2>1, Zenon DEF UsesAt
<1>18. Locks'
  <2> SUFFICES ASSUME NEW c \in Bufs, NEW p \in Procs
               PROVE  locked'[c] = p <=> buf'[p] = c /\ pc'[p] \in Holders
    BY Zenon DEF Locks, LocksAt
  <2>1. locked[c] = p <=> buf[p] = c /\ pc[p] \in Holders BY <1>0, Zenon DEF Locks, LocksAt
  <2> QED BY <1>6, <1>16, <2>1, Zenon
<1>19. Counts' BY Zenon, <1>0, <1>6 DEF Counts, Users
<1>20. Once' /\ Listed' BY Zenon, <1>0, <1>6 DEF Once, Listed
<1>21. Queue'
  <2>1. ASSUME NEW c \in Bufs PROVE QueuedAt(c)'
    <3> SUFFICES ASSUME In(q, c) PROVE QueuedAt(c)' BY <1>5, Zenon DEF QueuedAt
    <3>1. In(idequeue, c) /\ c # h BY <1>4, Zenon
    <3>2. QueuedAt(c) BY <1>0, Zenon DEF Queue
    <3>3. valid'[c] = valid[c] /\ dirty'[c] = dirty[c] BY <1>12, <3>1, Zenon
    <3>4. locked[c] \in Procs /\ pc'[locked[c]] \in {"disk_wait", "disk"}
      BY <1>16, <3>1, <3>2, Zenon DEF QueuedAt, Waiting
    <3> QED BY <1>6, <3>1, <3>2, <3>3, <3>4, Zenon DEF QueuedAt, Waiting
  <2>2. ASSUME NEW p \in Procs PROVE WaitsAt(p)'
    <3>1. WaitsAt(p) BY <1>0, Zenon DEF Queue
    <3>2. ASSUME pc'[p] = "disk_wait" PROVE In(q, buf[p])
      BY <1>4, <1>16, <3>1, <3>2, Zenon DEF WaitsAt
    <3>3. ASSUME pc'[p] = "disk" PROVE In(q, buf[p]) \/ (valid'[buf[p]] /\ ~dirty'[buf[p]])
      <4>1. CASE buf[p] = h BY <1>12, <4>1, Zenon
      <4>2. CASE buf[p] # h
        <5>1. pc[p] = "disk" BY <1>16, <3>3, <4>2, Zenon
        <5>2. pc[p] # "out" BY Zenon, <5>1
        <5>3. buf[p] \in Bufs BY <5>2, Mine, Zenon
        <5> QED BY <1>4, <1>12, <3>1, <4>2, <5>1, <5>3, Zenon DEF WaitsAt
      <4> QED BY Zenon, <4>1, <4>2
    <3> QED BY <1>5, <1>6, <3>2, <3>3, Zenon DEF WaitsAt
  <2> QED BY <1>4, <1>5, <2>1, <2>2, Zenon DEF Queue
<1>22. Contents'
  <2>1. ASSUME NEW c \in Bufs PROVE ContentAt(c)'
    <3>1. ContentAt(c) BY <1>0, Zenon DEF Contents
    <3>2. CASE c = h
      <4>1. data'[h] = latest[blockno[h]] BY <1>9, <1>11, <1>13, Zenon
      <4> QED BY <1>6, <1>8, <1>12, <3>2, <4>1, Zenon DEF ContentAt
    <3>3. CASE c # h
      <4>1. valid'[c] = valid[c] /\ dirty'[c] = dirty[c] /\ data'[c] = data[c]
        BY <1>12, <1>13, <3>3, Zenon
      <4> QED BY <1>6, <3>1, <4>1, Zenon DEF ContentAt
    <3> QED BY Zenon, <3>2, <3>3
  <2>2. ASSUME NEW p \in Procs, pc'[p] = "hold" PROVE valid'[buf'[p]]
    <3>1. pc[p] = "hold" BY <1>16, <2>2, Zenon
    <3>2. buf[p] \in Bufs /\ valid[buf[p]] BY <3>1, Holding, Zenon
    <3>3. valid'[buf[p]] BY <1>12, <3>2, Zenon
    <3> QED BY <1>6, <3>3, Zenon
  <2>3. ASSUME NEW k \in Blocks PROVE CleanAt(k)'
    <3>1. CleanAt(k) BY <1>0, Zenon DEF Contents
    <3>2. CASE k = blockno[h] BY <1>6, <1>11, <3>2, Zenon DEF CleanAt
    <3>3. CASE k # blockno[h]
      <4>1. \A c \in Bufs : blockno[c] = k => dirty'[c] = dirty[c] BY <1>12, <3>3, Zenon
      <4> QED BY Zenon, <1>6, <3>1, <4>1 DEF CleanAt
    <3> QED BY Zenon, <3>2, <3>3
  <2> QED BY <2>1, <2>2, <2>3, Zenon DEF Contents
<1>23. Controller'
  <2>1. CASE q = <<>>
    <3>1. ctl' = Idle BY <1>5, <2>1, Zenon
    <3>2. ctl'.cmd = "none" /\ ~ctl'.done BY Zenon, <3>1 DEF Idle
    <3> QED BY <1>5, <2>1, <3>2, Zenon DEF Controller
  <2>2. CASE q # <<>>
    <3>1. PICK n \in Bufs : n = Head(q) /\ In(q, n) BY <2>2, HeadFacts, Zenon
    <3>2. ctl' = Command(n, dirty[n], data[n]) BY <1>5, <2>2, <3>1, Zenon
    <3>3. n # h BY <1>4, <3>1, Zenon
    <3>4. dirty'[n] = dirty[n] /\ data'[n] = data[n] BY <1>12, <1>13, <3>3, Zenon
    <3>5. /\ ctl'.cmd = IF dirty[n] THEN "write" ELSE "read"
          /\ ctl'.block = blockno[n] /\ ~ctl'.done
          /\ dirty[n] => ctl'.data = data[n]
      BY Zenon, <3>2 DEF Command
    <3>6. Working(n)' BY Zenon, <1>6, <3>4, <3>5 DEF Working
    <3> QED BY <1>5, <2>2, <3>1, <3>6, Zenon DEF Controller
  <2> QED BY Zenon, <2>1, <2>2
<1>24. Pins'
  <2>1. ASSUME NEW c \in Pinned' PROVE c \in Pinned
    <3>1. c \in Bufs /\ dirty'[c] /\ ~In(idequeue', c) BY Zenon DEF Pinned, In
    <3>2. c # h BY <1>12, <3>1, Zenon
    <3>3. dirty[c] /\ ~In(idequeue, c) BY <1>4, <1>5, <1>12, <3>1, <3>2, Zenon
    <3> QED BY <3>1, <3>3, PinnedFacts, Zenon
  <2> QED BY <2>1, FewerPinned, Zenon
<1> QED BY <1>15, <1>17, <1>18, <1>19, <1>20, <1>21, <1>22, <1>23, <1>24, Zenon DEF BioInv

-----------------------------------------------------------------------------
(* Theorems *)

\* binit(), with all buffers free and the disk idle, starts in BioInv.
LEMMA InitInv == Init => BioInv
<1> SUFFICES ASSUME Init PROVE BioInv OBVIOUS
<1>1. Idle.data \in Vals /\ Idle.cmd = "none" /\ Idle.done = FALSE
  BY Zenon, BioAssumption DEF Idle
<1>2. Idle \in Commands BY Zenon, BioAssumption DEF Idle, Commands
<1>3. NBUF \in Nat /\ 0 \notin Bufs BY BioAssumption DEF Bufs
<1>4. \A i \in Bufs : NBUF + 1 - i \in Bufs /\ NBUF + 1 - (NBUF + 1 - i) = i
  BY <1>3 DEF Bufs
<1>5. Types
  <2>1. list \in [Bufs -> Bufs] BY Zenon, <1>4 DEF Init
  <2>2. refcnt \in [Bufs -> Int] BY DEF Init
  <2>3. idequeue \in Seq(Bufs) BY DEF Init
  <2> QED BY Zenon, <1>1, <1>2, <2>1, <2>2, <2>3 DEF Init, Types, Places
<1>6. Uses BY Zenon DEF Init, Uses, UsesAt
<1>7. Locks BY Zenon, BioAssumption DEF Init, Locks, LocksAt, Holders
<1>8. Counts
  <2>1. \A b \in Bufs : Users(b) = {} BY Zenon, <1>3 DEF Init, Users
  <2>2. Cardinality({}) = 0 BY FS_EmptySet
  <2>3. \A b \in Bufs : refcnt[b] = 0 BY Zenon DEF Init
  <2> QED BY <2>1, <2>2, <2>3, Zenon DEF Counts
<1>9. Once BY Zenon DEF Init, Once
<1>10. Listed
  <2> SUFFICES ASSUME NEW b \in Bufs PROVE \E i \in Bufs : list[i] = b BY Zenon DEF Listed
  <2>1. list[NBUF + 1 - b] = b BY Zenon, <1>4 DEF Init
  <2> QED BY Zenon, <1>4, <2>1
<1>11. \A b : ~In(idequeue, b)
  <2>1. idequeue = <<>> /\ idequeue \in Seq(Bufs) BY DEF Init
  <2> QED BY <2>1, HeadFacts, Zenon
<1>12. Queue
  <2>1. Distinct(idequeue) BY <1>11, Zenon DEF Distinct, In
  <2>2. \A p \in Procs : pc[p] = "out" BY Zenon DEF Init
  <2> QED BY Zenon, <1>11, <2>1, <2>2 DEF Queue, QueuedAt, WaitsAt
<1>13. Contents BY Zenon DEF Init, Contents, ContentAt, CleanAt
<1>14. Controller BY Zenon, <1>1 DEF Init, Controller
<1>15. Pins
  <2>1. Pinned = {} BY Zenon DEF Init, Pinned
  <2>2. Cardinality({}) = 0 BY FS_EmptySet
  <2> QED BY <2>1, <2>2, BioAssumption DEF Pins
<1> QED BY <1>5, <1>6, <1>7, <1>8, <1>9, <1>10, <1>12, <1>13, <1>14, <1>15, Zenon DEF BioInv

\* BioInv is an invariant of the buffer cache.
THEOREM BioInvariant == Spec => []BioInv
<1>1. BioInv /\ [Next]_vars => BioInv'
  <2> SUFFICES ASSUME BioInv, [Next]_vars PROVE BioInv' OBVIOUS
  <2>1. ASSUME NEW p \in Procs, NEW k \in Blocks, Bget(p, k) PROVE BioInv'
    BY <2>1, BgetStep, Zenon
  <2>2. ASSUME NEW p \in Procs, Kernel(p) PROVE BioInv'
    BY <2>2, AcquireSleepStep, BreadStep, IderwTestStep, BrelseStep, BrelseUnrefStep, Zenon
    DEF Kernel
  <2>3. ASSUME NEW p \in Procs, Kill(p) PROVE BioInv' BY <2>3, KillStep, Zenon
  <2>4. ASSUME NEW p \in Procs, NEW v \in Vals, Bwrite(p, v) \/ LogWrite(p, v) PROVE BioInv'
    BY <2>4, BwriteStep, LogWriteStep, Zenon
  <2>5. CASE Serve BY <2>5, ServeStep, Zenon
  <2>6. CASE Ideintr BY <2>6, IdeintrStep, Zenon
  <2>7. CASE UNCHANGED vars
    <3>1. /\ UNCHANGED <<blockno, valid, dirty, refcnt, data, list, ideVars, buf, latest>>
          /\ pc' = pc /\ locked' = locked /\ idequeue' = idequeue /\ valid' = valid
          /\ dirty' = dirty /\ buf' = buf /\ blockno' = blockno
      BY <2>7, Zenon DEF vars, bufVars, ideVars
    <3>2. /\ pc' \in [Procs -> Places] /\ locked' \in [Bufs -> Procs \cup {NoProc}]
      BY <3>1, Zenon DEF BioInv, Types
    <3>3. Uses' /\ Locks' BY <3>1 DEF BioInv, Uses, UsesAt, Locks, LocksAt
    <3>4. \A b \in Bufs : QueuedAt(b)' BY Zenon, <3>1 DEF BioInv, Queue, QueuedAt, Waiting
    <3>5. \A p \in Procs : WaitsAt(p)' BY Zenon, <3>1 DEF BioInv, Queue, WaitsAt
    <3>6. \A p \in Procs : pc'[p] = "hold" => valid[buf[p]] BY <3>1, Zenon DEF BioInv, Contents
    <3> QED BY <3>1, <3>2, <3>3, <3>4, <3>5, <3>6, QuietStep, Zenon
  <2> QED BY <2>1, <2>2, <2>3, <2>4, <2>5, <2>6, <2>7, Zenon DEF Next
<1> QED BY <1>1, InitInv, PTL DEF Spec

\* Under BioInv there is a buffer for bget(): a buffer that may not be recycled
\* is in use by another process than the caller, or pinned.
LEMMA InvFinds == BioInv => BgetFinds
<1> SUFFICES ASSUME BioInv, NEW p \in Procs, pc[p] = "out"
             PROVE  \E b \in Bufs : Usable(b)
  BY ScanStops, Zenon DEF BgetFinds, BioInv
<1> SUFFICES ASSUME \A b \in Bufs : ~Usable(b) PROVE FALSE OBVIOUS
<1> DEFINE O == Procs \ {p}
           f == [q \in O |-> buf[q]]
           U == {f[q] : q \in O}
<1>1. buf[p] \notin Bufs BY DEF BioInv, Uses, UsesAt, Bufs
<1>2. ASSUME NEW b \in Bufs PROVE b \in U \cup Pinned
  <2>1. CASE \E q \in Procs : buf[q] = b
    <3>1. PICK q \in Procs : buf[q] = b BY Zenon, <2>1
    <3>2. q \in O /\ f[q] = b BY Zenon, <1>1, <3>1
    <3> QED BY Zenon, <3>2
  <2>2. CASE \A q \in Procs : buf[q] # b
    <3>1. Users(b) = {} BY Zenon, <2>2 DEF Users
    <3>2. refcnt[b] = 0 BY <3>1, FS_EmptySet, Zenon DEF BioInv, Counts
    <3>3. ~In(idequeue, b) BY <3>2, Unused, Zenon
    <3>4. dirty[b] BY <3>2, Zenon DEF Usable
    <3> QED BY <3>3, <3>4, PinnedFacts, Zenon
  <2> QED BY <2>1, <2>2, Zenon
<1>3. /\ IsFiniteSet(O) /\ Cardinality(O) = Cardinality(Procs) - 1
      /\ Cardinality(Procs) \in Nat
  BY BioAssumption, FS_RemoveElement, FS_CardinalityType, Zenon
<1>4. IsFiniteSet(U) /\ Cardinality(U) <= Cardinality(O)
  <2>1. f \in Surjection(O, U) BY Zenon DEF Surjection
  <2> QED BY <1>3, <2>1, FS_Surjection, Zenon
<1>5. IsFiniteSet(Pinned) /\ Cardinality(Pinned) \in Nat /\ Cardinality(Pinned) <= MaxPinned
  BY PinnedFacts, Finite, Zenon DEF BioInv, Pins
<1> HIDE DEF U, O, f
<1>6. /\ IsFiniteSet(U \cup Pinned)
      /\ Cardinality(U \cup Pinned) = Cardinality(U) + Cardinality(Pinned) - Cardinality(U \cap Pinned)
  BY <1>4, <1>5, FS_Union, Zenon
<1>7. Cardinality(U \cap Pinned) \in Nat /\ Cardinality(U) \in Nat
  <2>1. IsFiniteSet(U \cap Pinned)
    <3>1. U \cap Pinned \subseteq U OBVIOUS
    <3> QED BY <1>4, <3>1, FS_Subset, Zenon
  <2> QED BY <1>4, <2>1, FS_CardinalityType, Zenon
<1>8. NBUF <= Cardinality(U \cup Pinned)
  <2>1. Bufs \subseteq U \cup Pinned BY <1>2, Zenon
  <2> QED BY <1>6, <2>1, FS_Subset, Finite, Zenon
<1>9. Cardinality(U \cup Pinned) \in Nat BY <1>6, FS_CardinalityType, Zenon
<1> QED BY <1>3, <1>4, <1>5, <1>6, <1>7, <1>8, <1>9, BioAssumption

\* What the file system relies on follows from BioInv.
LEMMA InvSound == BioInv => CacheSound
<1> SUFFICES ASSUME BioInv PROVE CacheSound OBVIOUS
<1>0. /\ Types /\ Uses /\ Locks /\ Counts /\ Once /\ Queue /\ Contents /\ Controller
  BY Zenon DEF BioInv
<1>1. CachedOnce BY <1>0, Zenon DEF CachedOnce, Once, Counts, Users
<1>2. ReadsLatest
  <2> SUFFICES ASSUME NEW p \in Procs, pc[p] = "hold"
               PROVE  valid[buf[p]] /\ locked[buf[p]] = p /\ data[buf[p]] = latest[blockno[buf[p]]]
    BY Zenon DEF ReadsLatest
  <2> QED BY <1>0, Holding, Zenon DEF Contents, ContentAt
<1>3. CleanIsOnDisk
  <2> SUFFICES ASSUME NEW k \in Blocks, \A b \in Cached(k) : ~dirty[b] PROVE disk[k] = latest[k]
    BY Zenon DEF CleanIsOnDisk
  <2>1. \A b \in Bufs : blockno[b] = k => ~dirty[b] BY Zenon DEF Cached
  <2> QED BY <1>0, <2>1, Zenon DEF Contents, CleanAt
<1>4. BgetFinds BY InvFinds, Zenon
<1>5. QueueExact
  <2>1. ASSUME NEW i \in 1..Len(idequeue)
        PROVE  \E p \in Procs : /\ buf[p] = idequeue[i] /\ Waiting(p)
                               /\ locked[idequeue[i]] = p
    <3>1. idequeue[i] \in Bufs BY <1>0 DEF Types
    <3>2. In(idequeue, idequeue[i]) BY Zenon DEF In
    <3>3. QueuedAt(idequeue[i]) /\ LocksAt(idequeue[i]) BY <1>0, <3>1, Zenon DEF Queue, Locks
    <3> QED BY <3>2, <3>3, Zenon DEF QueuedAt, LocksAt
  <2>2. (ctl.cmd = "none") <=> (idequeue = <<>>)
    BY Zenon, <1>0 DEF Controller, Working
  <2>3. idequeue # <<>> => /\ ctl.block = blockno[Head(idequeue)]
                           /\ ctl.cmd = IF dirty[Head(idequeue)] THEN "write" ELSE "read"
    BY <1>0, Zenon DEF Controller, Working
  <2>4. \A p \in Procs : pc[p] = "disk_wait" =>
          \E i \in 1..Len(idequeue) : idequeue[i] = buf[p]
    BY <1>0, Zenon DEF Queue, WaitsAt, In
  <2>5. \A i, j \in 1..Len(idequeue) : idequeue[i] = idequeue[j] => i = j
    BY <1>0, Zenon DEF Queue, Distinct
  <2> QED BY <2>1, <2>2, <2>3, <2>4, <2>5, Zenon DEF QueueExact
<1>6. LockSleepJustified
  <2> SUFFICES ASSUME NEW p \in Procs, pc[p] = "lock_wait"
               PROVE  locked[buf[p]] # NoProc /\ locked[buf[p]] # p
    BY Zenon DEF LockSleepJustified
  <2>1. pc[p] # "out" /\ pc[p] \notin Holders BY DEF Holders
  <2>2. UsesAt(p) /\ buf[p] \in Bufs BY <1>0, <2>1, Mine, Zenon DEF Uses
  <2> QED BY <1>0, <2>1, <2>2, Zenon DEF UsesAt, Locks, LocksAt
<1> QED BY <1>1, <1>2, <1>3, <1>4, <1>5, <1>6, Zenon DEF CacheSound

\* The buffer cache keeps its promise to the file system: bread() returns what
\* was last written, bget() never panics, and nobody sleeps in acquiresleep() or
\* iderw() without somebody to wake them.
THEOREM CacheIsSound == Spec => []CacheSound
BY BioInvariant, InvSound, PTL

=============================================================================
