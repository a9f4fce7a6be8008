-------------------------------- MODULE Bio --------------------------------
(***************************************************************************)
(* The buffer cache of bio.c over the disk driver of ide.c, with the       *)
(* sleeping locks of sleeplock.c, as processes use them: bread(), then any *)
(* number of bwrite() or log_write(), then brelse().                       *)
(*                                                                         *)
(* A critical section under bcache.lock, idelock or the spin lock of a     *)
(* sleeping lock is one action.  The disk controller is external: it takes *)
(* one command at a time and answers with an interrupt.                    *)
(***************************************************************************)
EXTENDS Integers, Sequences, FiniteSets

CONSTANTS
  Procs,
  Blocks, Vals,      \* block numbers, contents of a block
  Written,           \* the blocks that are written at all
  NBUF,
  MaxPinned,         \* buffers the log may keep dirty at a time
  NoProc, NoBlock

\* A process has one buffer at a time; one that keeps two, as bmap() does while
\* balloc() reads the bit map, counts as two.  There are buffers for all of them
\* beside those that the log pins.
ASSUME BioAssumption ==
  /\ IsFiniteSet(Procs) /\ NoProc \notin Procs /\ NoBlock \notin Blocks
  /\ Written \subseteq Blocks /\ Vals # {}
  /\ NBUF \in Nat /\ MaxPinned \in Nat
  /\ NBUF >= Cardinality(Procs) + MaxPinned

Bufs == 1..NBUF

VARIABLES
  blockno, valid, dirty, refcnt, data,   \* struct buf, for each buffer
  list,      \* bcache.head: all buffers, the most recently used first
  locked,    \* who holds the sleeping lock of each buffer
  idequeue,  \* the buffers waiting for the disk
  ctl,       \* the controller: command, block, data, and whether it is done
  disk,
  pc, buf,   \* where each process is, and its buffer
  latest     \* history: what was last written to each block

bufVars == <<blockno, valid, dirty, refcnt, data, list, locked>>
ideVars == <<idequeue, ctl, disk>>
vars == <<bufVars, ideVars, pc, buf, latest>>

\* Outside; in bget() with a reference, before or asleep in acquiresleep();
\* in bread() with the lock; asleep in iderw(), and awake again; holding the
\* buffer that bread() returned; in brelse() after releasesleep().
Places == {"out", "lock", "lock_wait", "locked", "disk_wait", "disk", "hold",
           "release"}

Idle == [cmd |-> "none", block |-> NoBlock, data |-> CHOOSE v \in Vals : TRUE,
         done |-> FALSE]

\* binit(): the buffers hold no block (device 0 is not used).
Init ==
  /\ blockno = [b \in Bufs |-> NoBlock] /\ refcnt = [b \in Bufs |-> 0]
  /\ valid = [b \in Bufs |-> FALSE] /\ dirty = [b \in Bufs |-> FALSE]
  /\ data = [b \in Bufs |-> Idle.data]
  /\ list = [i \in Bufs |-> NBUF + 1 - i]
  /\ locked = [b \in Bufs |-> NoProc]
  /\ idequeue = <<>> /\ ctl = Idle
  /\ disk = [k \in Blocks |-> Idle.data] /\ latest = disk
  /\ pc = [p \in Procs |-> "out"] /\ buf = [p \in Procs |-> 0]

-----------------------------------------------------------------------------
(* bget(), and sleeping locks *)

\* A lookup that passes over buffers nobody uses.
Cached_InUse(k) == {b \in Bufs : blockno[b] = k /\ refcnt[b] > 0}
Cached(k) == {b \in Bufs : blockno[b] = k}

\* The last buffer of the list that may be recycled is the one bget() takes.
Usable_Dirty(b) == refcnt[b] = 0      \* without the test of B_DIRTY
Usable(b)  == refcnt[b] = 0 /\ ~dirty[b]
Victim(b)  == \E i \in Bufs : /\ list[i] = b /\ Usable(b)
                              /\ \A j \in (i + 1)..NBUF : ~Usable(list[j])

\* bget() under bcache.lock: the cached buffer, or a recycled one.
Bget(p, k) ==
  /\ pc[p] = "out"
  /\ \/ \E b \in Cached(k) :
          /\ refcnt' = [refcnt EXCEPT ![b] = @ + 1]
          /\ buf' = [buf EXCEPT ![p] = b]
          /\ UNCHANGED <<blockno, valid, dirty>>
     \/ /\ Cached(k) = {}
        /\ \E b \in Bufs :
             /\ Victim(b)
             /\ blockno' = [blockno EXCEPT ![b] = k]
             /\ valid' = [valid EXCEPT ![b] = FALSE]
             /\ dirty' = [dirty EXCEPT ![b] = FALSE]
             /\ refcnt' = [refcnt EXCEPT ![b] = 1]
             /\ buf' = [buf EXCEPT ![p] = b]
  /\ pc' = [pc EXCEPT ![p] = "lock"]
  /\ UNCHANGED <<data, list, locked, ideVars, latest>>

\* acquiresleep(): the test of locked, and sleep() or the lock.
AcquireSleep(p) ==
  /\ pc[p] = "lock"
  /\ IF locked[buf[p]] # NoProc
     THEN pc' = [pc EXCEPT ![p] = "lock_wait"] /\ UNCHANGED locked
     ELSE /\ pc' = [pc EXCEPT ![p] = "locked"]
          /\ locked' = [locked EXCEPT ![buf[p]] = p]
  /\ UNCHANGED <<blockno, valid, dirty, refcnt, data, list, ideVars, buf,
                 latest>>

\* releasesleep() of buffer b by p wakes all who wait for the lock.
wakeLock_None(b) == pc
wakeLock(b) == [q \in Procs |-> IF pc[q] = "lock_wait" /\ buf[q] = b
                                THEN "lock" ELSE pc[q]]

\* brelse(): releasesleep(), then the reference under bcache.lock.
Brelse(p) ==
  /\ pc[p] = "hold"
  /\ locked' = [locked EXCEPT ![buf[p]] = NoProc]
  /\ pc' = [wakeLock(buf[p]) EXCEPT ![p] = "release"]
  /\ UNCHANGED <<blockno, valid, dirty, refcnt, data, list, ideVars, buf,
                 latest>>

\* The list after buffer b has been moved to its head.  Without the unlinking of
\* its old place, the last buffer is not reached any more.
ToFront_Linked(b) == [n \in Bufs |-> IF n = 1 THEN b ELSE list[n - 1]]
ToFront(b) ==
  LET i == CHOOSE n \in Bufs : list[n] = b
  IN [n \in Bufs |-> IF n = 1 THEN b ELSE IF n <= i THEN list[n - 1]
                                          ELSE list[n]]

\* The reference goes only when it is the last one.
BrelseUnref_Leaks(p) ==
  /\ pc[p] = "release"
  /\ refcnt' = [refcnt EXCEPT ![buf[p]] = IF @ = 1 THEN 0 ELSE @]
  /\ list' = IF refcnt[buf[p]] = 1 THEN ToFront(buf[p]) ELSE list
  /\ pc' = [pc EXCEPT ![p] = "out"] /\ buf' = [buf EXCEPT ![p] = 0]
  /\ UNCHANGED <<blockno, valid, dirty, data, locked, ideVars, latest>>

BrelseUnref(p) ==
  LET b == buf[p]
  IN /\ pc[p] = "release"
     /\ refcnt' = [refcnt EXCEPT ![b] = @ - 1]
     /\ list' = IF refcnt[b] = 1 THEN ToFront(b) ELSE list
     /\ pc' = [pc EXCEPT ![p] = "out"] /\ buf' = [buf EXCEPT ![p] = 0]
     /\ UNCHANGED <<blockno, valid, dirty, data, locked, ideVars, latest>>

-----------------------------------------------------------------------------
(* ide.c *)

\* What idestart() tells the controller for a buffer with contents v.
Command(b, d, v) == [cmd |-> IF d THEN "write" ELSE "read",
                     block |-> blockno[b], data |-> IF d THEN v ELSE Idle.data,
                     done |-> FALSE]

\* The disk is started whether it is idle or not.
Iderw_Restarts(p, d, v) ==
  /\ idequeue' = Append(idequeue, buf[p])
  /\ ctl' = Command(buf[p], d, v)
  /\ pc' = [pc EXCEPT ![p] = "disk_wait"]
  /\ UNCHANGED disk

\* iderw() of a buffer whose B_DIRTY is d and whose contents are v: it is
\* queued, the disk is started if it was idle, and the caller sleeps.
Iderw(p, d, v) ==
  /\ idequeue' = Append(idequeue, buf[p])
  /\ ctl' = IF idequeue = <<>> THEN Command(buf[p], d, v) ELSE ctl
  /\ pc' = [pc EXCEPT ![p] = "disk_wait"]
  /\ UNCHANGED disk

\* The rest of bread(), with the lock.
Bread(p) ==
  /\ pc[p] = "locked"
  /\ IF valid[buf[p]]
     THEN pc' = [pc EXCEPT ![p] = "hold"] /\ UNCHANGED ideVars
     ELSE Iderw(p, dirty[buf[p]], data[buf[p]])
  /\ UNCHANGED <<bufVars, buf, latest>>

\* The controller serves its command (external).
Serve ==
  /\ ctl.cmd # "none" /\ ~ctl.done
  /\ IF ctl.cmd = "write"
     THEN /\ disk' = [disk EXCEPT ![ctl.block] = ctl.data]
          /\ ctl' = [ctl EXCEPT !.done = TRUE]
     ELSE /\ ctl' = [ctl EXCEPT !.done = TRUE, !.data = disk[ctl.block]]
          /\ UNCHANGED disk
  /\ UNCHANGED <<bufVars, idequeue, pc, buf, latest>>

\* wakeup(b) of ideintr().
wakeDisk_None(b) == pc
wakeDisk(b) == [q \in Procs |-> IF pc[q] = "disk_wait" /\ buf[q] = b
                                THEN "disk" ELSE pc[q]]

\* ideintr(): the first buffer of the queue is done, its process is woken, and
\* the disk is started on the next one.
Ideintr ==
  /\ ctl.done
  /\ LET b == Head(idequeue)
         n == Head(Tail(idequeue))
     IN /\ idequeue' = Tail(idequeue)
        /\ data' = [data EXCEPT ![b] = IF dirty[b] THEN @ ELSE ctl.data]
        /\ valid' = [valid EXCEPT ![b] = TRUE]
        /\ dirty' = [dirty EXCEPT ![b] = FALSE]
        /\ pc' = wakeDisk(b)
        /\ ctl' = IF Tail(idequeue) = <<>> THEN Idle
                  ELSE Command(n, dirty[n], data[n])
  /\ UNCHANGED <<blockno, refcnt, list, locked, disk, buf, latest>>

\* A process woken in iderw() tests the flags again.
IderwTest(p) ==
  /\ pc[p] = "disk"
  /\ pc' = [pc EXCEPT ![p] = IF valid[buf[p]] /\ ~dirty[buf[p]] THEN "hold"
                             ELSE "disk_wait"]
  /\ UNCHANGED <<bufVars, ideVars, buf, latest>>

\* kill() wakes a sleeping process, whatever it waits for.
Kill(p) ==
  /\ \/ pc[p] = "lock_wait" /\ pc' = [pc EXCEPT ![p] = "lock"]
     \/ pc[p] = "disk_wait" /\ pc' = [pc EXCEPT ![p] = "disk"]
  /\ UNCHANGED <<bufVars, ideVars, buf, latest>>

-----------------------------------------------------------------------------
(* The holder of a buffer *)

\* bwrite() without B_DIRTY: the driver reads instead.
Bwrite_Clean(p, v) ==
  LET b == buf[p]
  IN /\ pc[p] = "hold" /\ blockno[b] \in Written
     /\ data' = [data EXCEPT ![b] = v]
     /\ latest' = [latest EXCEPT ![blockno[b]] = v]
     /\ Iderw(p, FALSE, v)
     /\ UNCHANGED <<blockno, valid, dirty, refcnt, list, locked, buf>>

\* The holder changes the contents and calls bwrite().
Bwrite(p, v) ==
  LET b == buf[p]
  IN /\ pc[p] = "hold" /\ blockno[b] \in Written
     /\ data' = [data EXCEPT ![b] = v] /\ dirty' = [dirty EXCEPT ![b] = TRUE]
     /\ latest' = [latest EXCEPT ![blockno[b]] = v]
     /\ Iderw(p, TRUE, v)
     /\ UNCHANGED <<blockno, valid, refcnt, list, locked, buf>>

\* The buffers that log_write() keeps dirty until the log installs them.
Pinned == {b \in Bufs : dirty[b] /\ \A i \in 1..Len(idequeue) : idequeue[i] # b}

\* The holder changes the contents and calls log_write(), which leaves the
\* buffer dirty; the size of the log bounds how many are.
LogWrite(p, v) ==
  LET b == buf[p]
  IN /\ pc[p] = "hold" /\ blockno[b] \in Written
     /\ dirty[b] \/ Cardinality(Pinned) < MaxPinned
     /\ data' = [data EXCEPT ![b] = v] /\ dirty' = [dirty EXCEPT ![b] = TRUE]
     /\ latest' = [latest EXCEPT ![blockno[b]] = v]
     /\ UNCHANGED <<blockno, valid, refcnt, list, locked, ideVars, pc, buf>>

Kernel(p) == \/ AcquireSleep(p) \/ Bread(p) \/ IderwTest(p) \/ Brelse(p)
             \/ BrelseUnref(p)

Next ==
  \/ \E p \in Procs, k \in Blocks : Bget(p, k)
  \/ \E p \in Procs : Kernel(p) \/ Kill(p)
  \/ \E p \in Procs, v \in Vals : Bwrite(p, v) \/ LogWrite(p, v)
  \/ Serve \/ Ideintr

Spec == Init /\ [][Next]_vars

\* The scheduler runs a process that is not asleep, and the disk answers.
FairSpec == /\ Spec /\ WF_vars(Serve) /\ WF_vars(Ideintr)
            /\ \A p \in Procs : WF_vars(Kernel(p))

-----------------------------------------------------------------------------
(* Properties *)

Waiting(p) == pc[p] \in {"disk_wait", "disk"}

\* No block is in two buffers; refcnt counts the processes that have or wait
\* for a buffer, so bget() recycles none that is in use.
CachedOnce ==
  /\ \A b, c \in Bufs : blockno[b] = blockno[c] /\ blockno[b] # NoBlock => b = c
  /\ \A b \in Bufs : refcnt[b] = Cardinality({p \in Procs : buf[p] = b})

\* The requests of the driver: a buffer in idequeue is in it once, its process
\* waits in iderw() with the buffer locked, the first one is what the disk
\* works on, and a process asleep in iderw() is in the queue.
QueueExact ==
  /\ \A i, j \in 1..Len(idequeue) : idequeue[i] = idequeue[j] => i = j
  /\ \A i \in 1..Len(idequeue) :
       \E p \in Procs : /\ buf[p] = idequeue[i] /\ Waiting(p)
                        /\ locked[idequeue[i]] = p
  /\ (ctl.cmd = "none") <=> (idequeue = <<>>)
  /\ idequeue # <<>> =>
       /\ ctl.block = blockno[Head(idequeue)]
       /\ ctl.cmd = IF dirty[Head(idequeue)] THEN "write" ELSE "read"
  /\ \A p \in Procs : pc[p] = "disk_wait" =>
       \E i \in 1..Len(idequeue) : idequeue[i] = buf[p]

\* What bread() returns is what was last written to the block, through
\* recycling, pinned buffers and writes of other processes.
ReadsLatest ==
  \A p \in Procs : pc[p] = "hold" =>
    /\ valid[buf[p]] /\ locked[buf[p]] = p
    /\ data[buf[p]] = latest[blockno[buf[p]]]

\* A block without a dirty buffer is on the disk as it was last written.
CleanIsOnDisk ==
  \A k \in Blocks : (\A b \in Cached(k) : ~dirty[b]) => disk[k] = latest[k]

\* Whenever bget() is called there is a buffer for it: with at most MaxPinned
\* buffers pinned by the log it never panics with "no buffers".
BgetFinds ==
  (\E p \in Procs : pc[p] = "out") =>
    \A k \in Blocks : Cached(k) # {} \/ \E b \in Bufs : Victim(b)

\* A process sleeps in acquiresleep() only while another has the lock:
\* releasesleep() leaves no waiter behind.
LockSleepJustified ==
  \A p \in Procs : pc[p] = "lock_wait" => locked[buf[p]] \notin {NoProc, p}

\* A request to the disk is answered: the process that waits for it returns
\* from iderw() with the buffer.
RequestsFinish == \A p \in Procs : pc[p] = "disk_wait" ~> pc[p] = "hold"

\* The buffer cache and the driver below it, as the file system relies on them:
\* bread() finds what was last written in the one buffer of the block, which
\* agrees with the disk unless it is dirty, bget() never panics, and who sleeps
\* for the disk or for a lock is going to be woken.
CacheSound == /\ CachedOnce /\ ReadsLatest /\ CleanIsOnDisk /\ BgetFinds
              /\ QueueExact /\ LockSleepJustified

-----------------------------------------------------------------------------
(* The inductive invariant of the proofs *)

Commands == [cmd : {"none", "read", "write"}, block : Blocks \cup {NoBlock},
             data : Vals, done : BOOLEAN]

Types ==
  /\ blockno \in [Bufs -> Blocks \cup {NoBlock}]
  /\ valid \in [Bufs -> BOOLEAN] /\ dirty \in [Bufs -> BOOLEAN]
  /\ refcnt \in [Bufs -> Int] /\ data \in [Bufs -> Vals]
  /\ list \in [Bufs -> Bufs] /\ locked \in [Bufs -> Procs \cup {NoProc}]
  /\ idequeue \in Seq(Bufs) /\ ctl \in Commands
  /\ disk \in [Blocks -> Vals] /\ latest \in [Blocks -> Vals]
  /\ pc \in [Procs -> Places] /\ buf \in [Procs -> Bufs \cup {0}]

\* A process in bread() or brelse() has a buffer, and the buffer a block; the
\* lock a process sleeps for is taken.
UsesAt(p) ==
  /\ buf[p] = 0 <=> pc[p] = "out"
  /\ pc[p] # "out" => blockno[buf[p]] \in Blocks
  /\ pc[p] = "lock_wait" => locked[buf[p]] # NoProc
Uses == \A p \in Procs : UsesAt(p)

\* A buffer is locked from acquiresleep() to releasesleep().
Holders == {"locked", "disk_wait", "disk", "hold"}
LocksAt(b) == \A p \in Procs : locked[b] = p <=> buf[p] = b /\ pc[p] \in Holders
Locks == \A b \in Bufs : LocksAt(b)

Users(b) == {p \in Procs : buf[p] = b}
Counts == \A b \in Bufs : refcnt[b] = Cardinality(Users(b))
Once == \A b, c \in Bufs : blockno[b] = blockno[c] /\ blockno[b] # NoBlock => b = c
Listed == \A b \in Bufs : \E i \in Bufs : list[i] = b

\* A buffer waits for the disk while its holder does, and only until ideintr()
\* has made it valid and clean.
In(q, b) == \E i \in 1..Len(q) : q[i] = b
Distinct(q) == \A i, j \in 1..Len(q) : q[i] = q[j] => i = j
QueuedAt(b) == In(idequeue, b) =>
  /\ locked[b] \in Procs /\ Waiting(locked[b])
  /\ valid[b] => dirty[b]
WaitsAt(p) ==
  /\ pc[p] = "disk_wait" => In(idequeue, buf[p])
  /\ pc[p] = "disk" => In(idequeue, buf[p]) \/ (valid[buf[p]] /\ ~dirty[buf[p]])
Queue ==
  /\ Distinct(idequeue)
  /\ \A b \in Bufs : QueuedAt(b)
  /\ \A p \in Procs : WaitsAt(p)

\* A valid buffer has the latest contents of its block, and so has the disk
\* when no buffer of the block is dirty.
ContentAt(b) ==
  /\ dirty[b] => valid[b]
  /\ valid[b] => blockno[b] \in Blocks /\ data[b] = latest[blockno[b]]
CleanAt(k) == (\A b \in Bufs : blockno[b] = k => ~dirty[b]) => disk[k] = latest[k]
Contents ==
  /\ \A b \in Bufs : ContentAt(b)
  /\ \A p \in Procs : pc[p] = "hold" => valid[buf[p]]
  /\ \A k \in Blocks : CleanAt(k)

\* The disk works on the first buffer of the queue.
Working(b) ==
  /\ ctl.cmd = IF dirty[b] THEN "write" ELSE "read"
  /\ ctl.block = blockno[b]
  /\ ctl.cmd = "write" => ctl.data = data[b]
  /\ ctl.done => disk[ctl.block] = ctl.data
Controller ==
  /\ idequeue = <<>> => ctl.cmd = "none" /\ ~ctl.done
  /\ idequeue # <<>> => Working(Head(idequeue))

Pins == Cardinality(Pinned) <= MaxPinned

\* What every step of bio.c, sleeplock.c and ide.c preserves: references, locks,
\* list and queue are those of the processes, the buffers have what was written
\* last, and the controller works for the head of the queue.
BioInv == /\ Types /\ Uses /\ Locks /\ Counts /\ Once /\ Listed /\ Queue /\ Contents
          /\ Controller /\ Pins
=============================================================================
