-------------------------------- MODULE Log --------------------------------
(***************************************************************************)
(* The write-ahead log of log.c: file system calls that run concurrently   *)
(* between begin_op() and end_op(), group commit, a crash between any two  *)
(* disk writes, and recovery, which may crash again.                       *)
(*                                                                         *)
(* The disk is home (the blocks at their own places), dlog (the log        *)
(* blocks) and dhead (the header block); bwrite() of one of them is one    *)
(* step, and the only thing that survives a crash.  cache holds the        *)
(* contents of the buffers; a buffer in dirty (B_DIRTY) is not evicted.    *)
(* A critical section under log.lock is one action.                        *)
(***************************************************************************)
EXTENDS Integers, Sequences, FiniteSets

CONSTANTS
  Procs,         \* processes that make file system calls
  Blocks, Vals,  \* block numbers outside the log; contents of a block
  NoBlock,       \* not a block number
  MAXOPBLOCKS,   \* what begin_op() reserves for a call
  LOGSIZE,       \* size of lh.block
  size,          \* log.size, from the superblock: header and log blocks
  OpBlocks,      \* how many different blocks a call writes at most
  MaxWrites,     \* bound: calls of log_write() by one file system call
  MaxCrashes     \* bound

ASSUME LogAssumption ==
  /\ IsFiniteSet(Procs) /\ NoBlock \notin Blocks
  /\ MAXOPBLOCKS \in Nat /\ LOGSIZE \in Nat /\ size \in Nat /\ OpBlocks \in Nat
  /\ MaxWrites \in Nat /\ MaxCrashes \in Nat

\* A call can begin when the log is empty, and writes fewer blocks than it
\* reserves: log_write() panics when lh.n has come to log.size - 1, even if its
\* block is in the log already.
ASSUME RoomAssumption ==
  /\ MAXOPBLOCKS <= LOGSIZE /\ OpBlocks < MAXOPBLOCKS
  /\ OpBlocks < size - 1
  /\ LOGSIZE - 2 * (MAXOPBLOCKS - OpBlocks) < size - 1

VARIABLES
  home, dlog, dhead,        \* on disk
  cache, dirty,             \* buffer cache
  lh, outstanding, committing,   \* struct log; lh is block[0..n-1]
  pc, buf, wrote, calls,    \* per process: position, buffer in hand, blocks
                            \* and number of log_writes of this call
  step, tail,               \* commit() or recover_from_log(), and its loop
  crashes, panicked

diskVars == <<home, dlog, dhead>>
bufVars  == <<cache, dirty>>
logVars  == <<lh, outstanding, committing>>
opVars   == <<pc, buf, wrote, calls>>
runVars  == <<step, tail>>
vars     == <<diskVars, bufVars, logVars, opVars, runVars, crashes, panicked>>

\* Where a process is: outside a call, asleep in begin_op(), in a call, in
\* log_write() with a buffer it has modified, or in commit().
Places == {"idle", "asleep", "op", "append", "commit"}

\* The disk write that commit() or recover_from_log() makes next.
Steps == {"none", "read_head", "write_log", "write_head", "install", "erase",
          "done"}

\* Block b is one of the n blocks of the header h.
Holds(h, b) == \E i \in 1..Len(h) : h[i] = b

\* The variables stay in their types; LogInv bounds the lengths.
TypeOK ==
  /\ home \in [Blocks -> Vals] /\ dlog \in [1..LOGSIZE -> Vals]
  /\ dhead \in Seq(Blocks) /\ lh \in Seq(Blocks)
  /\ cache \in [Blocks -> Vals] /\ dirty \subseteq Blocks
  /\ outstanding \in Nat /\ committing \in BOOLEAN
  /\ pc \in [Procs -> Places] /\ buf \in [Procs -> Blocks \cup {NoBlock}]
  /\ wrote \in [Procs -> SUBSET Blocks] /\ calls \in [Procs -> 0..MaxWrites]
  /\ step \in Steps /\ tail \in Nat \ {0}
  /\ crashes \in 0..MaxCrashes
  /\ panicked \in {"no", "too big a transaction", "log_write outside of trans",
                   "log.committing"}

\* A machine that was shut down cleanly, before forkret() calls initlog().
Init ==
  /\ home \in [Blocks -> Vals] /\ cache = home /\ dirty = {}
  /\ dlog \in {[i \in 1..LOGSIZE |-> v] : v \in Vals} /\ dhead = <<>>
  /\ lh = <<>> /\ outstanding = 0 /\ committing = FALSE
  /\ pc = [p \in Procs |-> "idle"] /\ buf = [p \in Procs |-> NoBlock]
  /\ wrote = [p \in Procs |-> {}] /\ calls = [p \in Procs |-> 0]
  /\ step = "read_head" /\ tail = 1
  /\ crashes = 0 /\ panicked = "no"

Active == {p \in Procs : pc[p] \in {"op", "append"}}
Recovering == step # "none" /\ ~committing
-----------------------------------------------------------------------------
\* Mutation: wakeup(&log) is forgotten.
Awake_None(places) == places

\* wakeup(&log): the sleepers in begin_op() try again, which the model does
\* from "idle", where begin_op() may be called.
Awake(places) == [p \in Procs |-> IF places[p] = "asleep" THEN "idle"
                                                          ELSE places[p]]

\* Mutation: only what is in the log already is counted.
LogFull_Unreserved == Len(lh) + MAXOPBLOCKS > LOGSIZE

\* "this op might exhaust log space; wait for commit."
LogFull == Len(lh) + (outstanding + 1) * MAXOPBLOCKS > LOGSIZE

BeginOp(p) ==
  /\ panicked = "no" /\ ~Recovering /\ pc[p] = "idle"
  /\ IF committing \/ LogFull
     THEN /\ pc' = [pc EXCEPT ![p] = "asleep"]
          /\ UNCHANGED <<outstanding, wrote, calls>>
     ELSE /\ pc' = [pc EXCEPT ![p] = "op"]
          /\ outstanding' = outstanding + 1
          /\ wrote' = [wrote EXCEPT ![p] = {}]
          /\ calls' = [calls EXCEPT ![p] = 0]
  /\ UNCHANGED <<diskVars, bufVars, lh, committing, buf, runVars, crashes,
                 panicked>>

\* A call modifies a buffer, whose sleep lock it holds, and enters log_write(),
\* whose tests are made without log.lock.
Modify(p) ==
  /\ panicked = "no" /\ pc[p] = "op" /\ calls[p] < MaxWrites
  /\ \E b \in Blocks, v \in Vals :
       /\ Cardinality(wrote[p] \cup {b}) <= OpBlocks
       /\ \A q \in Procs : buf[q] # b
       /\ cache' = [cache EXCEPT ![b] = v]
       /\ buf' = [buf EXCEPT ![p] = b]
       /\ wrote' = [wrote EXCEPT ![p] = @ \cup {b}]
  /\ calls' = [calls EXCEPT ![p] = @ + 1]
  /\ pc' = [pc EXCEPT ![p] = "append"]
  /\ panicked' = IF Len(lh) >= LOGSIZE \/ Len(lh) >= size - 1
                 THEN "too big a transaction"
                 ELSE IF outstanding < 1 THEN "log_write outside of trans" ELSE "no"
  /\ UNCHANGED <<diskVars, dirty, logVars, runVars, crashes>>

\* Mutations: no absorption of a block that is logged already; B_DIRTY is not
\* set.
Logged_Twice(b) == Append(lh, b)
Pinned_Not(b) == dirty

Logged(b) == IF Holds(lh, b) THEN lh ELSE Append(lh, b)
Pinned(b) == dirty \cup {b}

\* The rest of log_write(), under log.lock, and brelse().
LogWrite(p) ==
  /\ panicked = "no" /\ pc[p] = "append"
  /\ lh' = Logged(buf[p])
  /\ dirty' = Pinned(buf[p])
  /\ buf' = [buf EXCEPT ![p] = NoBlock]
  /\ pc' = [pc EXCEPT ![p] = "op"]
  /\ UNCHANGED <<diskVars, cache, outstanding, committing, wrote, calls, runVars,
                 crashes, panicked>>

\* "commits if this was the last outstanding operation"
LastOp == outstanding = 1

\* Mutation: write_log() is forgotten.
CommitStart_NoLog == "write_head"

\* commit() begins with write_log().
CommitStart == "write_log"

\* end_op() up to the call of commit().
EndOp(p) ==
  /\ panicked = "no" /\ pc[p] = "op"
  /\ outstanding' = outstanding - 1
  /\ panicked' = IF committing THEN "log.committing" ELSE "no"
  /\ IF LastOp
     THEN /\ committing' = TRUE
          /\ pc' = [pc EXCEPT ![p] = "commit"]
          /\ step' = IF lh = <<>> THEN "done" ELSE CommitStart
          /\ tail' = 1
     ELSE /\ pc' = Awake([pc EXCEPT ![p] = "idle"])
          /\ UNCHANGED <<committing, step, tail>>
  /\ UNCHANGED <<diskVars, bufVars, lh, buf, wrote, calls, crashes>>
-----------------------------------------------------------------------------
(* commit() and recover_from_log() *)

WriteLog ==
  /\ panicked = "no" /\ step = "write_log"
  /\ dlog' = [dlog EXCEPT ![tail] = cache[lh[tail]]]
  /\ IF tail < Len(lh)
     THEN tail' = tail + 1 /\ UNCHANGED step
     ELSE tail' = 1 /\ step' = "write_head"
  /\ UNCHANGED <<home, dhead, bufVars, logVars, opVars, crashes, panicked>>

\* "the real commit"
WriteHead ==
  /\ panicked = "no" /\ step = "write_head"
  /\ dhead' = lh /\ step' = "install"
  /\ UNCHANGED <<home, dlog, bufVars, logVars, opVars, tail, crashes, panicked>>

\* Mutation: the last block is not installed.
MoreToInstall_OffByOne == tail < Len(lh)

MoreToInstall == tail <= Len(lh)

\* install_trans(), one block: bwrite() clears B_DIRTY when it is done.
Install ==
  /\ panicked = "no" /\ step = "install"
  /\ IF MoreToInstall
     THEN /\ home' = [home EXCEPT ![lh[tail]] = dlog[tail]]
          /\ cache' = [cache EXCEPT ![lh[tail]] = dlog[tail]]
          /\ dirty' = dirty \ {lh[tail]}
          /\ tail' = tail + 1 /\ UNCHANGED step
     ELSE step' = "erase" /\ UNCHANGED <<home, bufVars, tail>>
  /\ UNCHANGED <<dlog, dhead, logVars, opVars, crashes, panicked>>

\* log.lh.n = 0; write_head().  Recovery ends here.
Erase ==
  /\ panicked = "no" /\ step = "erase"
  /\ lh' = <<>> /\ dhead' = <<>> /\ tail' = 1
  /\ step' = IF committing THEN "done" ELSE "none"
  /\ UNCHANGED <<home, dlog, bufVars, outstanding, committing, opVars, crashes,
                 panicked>>

\* The end of end_op().
Done ==
  /\ panicked = "no" /\ step = "done"
  /\ committing' = FALSE /\ step' = "none"
  /\ pc' = Awake([p \in Procs |-> IF pc[p] = "commit" THEN "idle" ELSE pc[p]])
  /\ UNCHANGED <<diskVars, bufVars, lh, outstanding, buf, wrote, calls, tail,
                 crashes, panicked>>

ReadHead ==
  /\ panicked = "no" /\ step = "read_head"
  /\ lh' = dhead /\ step' = "install" /\ tail' = 1
  /\ UNCHANGED <<diskVars, bufVars, outstanding, committing, opVars, crashes,
                 panicked>>

\* The machine stops at any moment; only the disk is left.
Crash ==
  /\ crashes < MaxCrashes /\ crashes' = crashes + 1
  /\ cache' = home /\ dirty' = {}
  /\ lh' = <<>> /\ outstanding' = 0 /\ committing' = FALSE
  /\ pc' = [p \in Procs |-> "idle"] /\ buf' = [p \in Procs |-> NoBlock]
  /\ wrote' = [p \in Procs |-> {}] /\ calls' = [p \in Procs |-> 0]
  /\ step' = "read_head" /\ tail' = 1 /\ panicked' = "no"
  /\ UNCHANGED diskVars

Next ==
  \/ \E p \in Procs : BeginOp(p) \/ Modify(p) \/ LogWrite(p) \/ EndOp(p)
  \/ WriteLog \/ WriteHead \/ Install \/ Erase \/ Done \/ ReadHead
  \/ Crash

Spec == Init /\ [][Next]_vars
-----------------------------------------------------------------------------
\* What recovery makes of the disk: the blocks that the header names, from the
\* log; the others from their homes.
Index(h, b) == CHOOSE i \in 1..Len(h) : h[i] = b
Recovered == [b \in Blocks |-> IF Holds(dhead, b) THEN dlog[Index(dhead, b)]
                                                  ELSE home[b]]

\* The log implements a disk with atomic group commit: its current contents are
\* those of the buffer cache, its stable contents what recovery would restore.
Atomic == INSTANCE AtomicDisk WITH
  Ops <- Procs, open <- Active, stable <- Recovered,
  current <- IF Recovering THEN Recovered ELSE cache

\* Crash safety: every step of the log is a step of the atomic disk.
CrashAtomic == Atomic!Spec

\* A buffer that is neither dirty nor locked may be evicted and read again:
\* what is in the cache is on the disk.
EvictionSafe ==
  \A b \in Blocks \ dirty : (\A p \in Procs : buf[p] # b) => cache[b] = home[b]

\* When no call is running and the last end_op() has returned, what the calls
\* wrote is at its home on the disk, and the log is empty.
QuietDurable ==
  step = "none" /\ outstanding = 0 => home = cache /\ dhead = <<>> /\ lh = <<>>

\* The reservation of begin_op() suffices: log_write() never finds the log
\* full, nor end_op() a commit in progress.
NoPanic == panicked = "no"
-----------------------------------------------------------------------------
(* The inductive invariant *)

\* No block is in the log twice.
Distinct(h) == \A i, j \in 1..Len(h) : h[i] = h[j] => i = j

\* outstanding counts the calls in progress.
OutInv == outstanding = Cardinality(Active)

\* A process inside log_write() holds a buffer, alone; whatever else its call
\* wrote is in the log.
BufInv ==
  /\ \A p \in Procs : pc[p] = "append" <=> buf[p] # NoBlock
  /\ \A p, q \in Procs : buf[p] = buf[q] /\ buf[p] # NoBlock => p = q
  /\ \A p \in Active : /\ IsFiniteSet(wrote[p])
                       /\ Cardinality(wrote[p]) <= OpBlocks
                       /\ buf[p] # NoBlock => buf[p] \in wrote[p]
                       /\ \A b \in wrote[p] : Holds(lh, b) \/ buf[p] = b

\* Dirty buffers are in the log and not installed yet.
DirtyInv ==
  /\ \A b \in dirty : \E i \in 1..Len(lh) :
                         lh[i] = b /\ (step = "install" => i >= tail)
  /\ step \in {"read_head", "erase", "done"} => dirty = {}

\* How far commit() or recovery has come, and what is on the disk then.
LoggedUpTo(n) == \A i \in 1..Len(lh) : i < n => dlog[i] = cache[lh[i]]
InstalledUpTo(n) == \A i \in 1..Len(lh) : i < n => home[lh[i]] = dlog[i]
StepInv ==
  /\ step # "none" => Active = {}
  /\ step = "none" => ~committing /\ (outstanding = 0 => lh = <<>>)
  /\ step \in {"none", "write_log", "write_head", "done"} => dhead = <<>>
  /\ step \in {"write_log", "write_head", "done"} => committing
  /\ step = "read_head" => ~committing
  /\ step = "write_log" => tail <= Len(lh) /\ LoggedUpTo(tail)
  /\ step = "write_head" => tail = 1 /\ LoggedUpTo(Len(lh) + 1)
  /\ step \in {"install", "erase"} => dhead = lh
  /\ step = "install" => tail <= Len(lh) + 1 /\ InstalledUpTo(tail)
  /\ step = "install" /\ committing => LoggedUpTo(Len(lh) + 1)
  /\ step = "erase" => InstalledUpTo(Len(lh) + 1)
  /\ step = "done" => lh = <<>>
  /\ Recovering => cache = home

\* Blocks that the calls in progress may still add to the log: the call of p has
\* Spent(p) blocks there.  The log never fills beyond what one call writes or
\* beyond LOGSIZE less what two calls reserve and do not write, because a call
\* that begins while another is in progress leaves room for both.
Spent(p) == Cardinality({b \in wrote[p] : Holds(lh, b)})
Unspent == {s \in Active \X (1..OpBlocks) : Spent(s[1]) < s[2]}
Fits(n) == n <= OpBlocks \/ n + 2 * (MAXOPBLOCKS - OpBlocks) <= LOGSIZE
SpaceInv == Fits(Len(lh) + Cardinality(Unspent)) /\ Fits(Len(dhead))

\* Who sleeps in begin_op() will be woken: a call is in progress, whose end_op()
\* wakes or commits, or a commit is, which wakes when it is done.
WakerInv == \A p \in Procs : pc[p] = "asleep" => outstanding > 0 \/ committing

\* The conjunction that every step preserves: what is on the disk, in the cache
\* and in the log at each point of commit() and of recovery, and the space that
\* begin_op() has reserved.
LogInv ==
  /\ TypeOK /\ OutInv /\ BufInv /\ DirtyInv /\ StepInv /\ SpaceInv /\ WakerInv
  /\ Distinct(lh) /\ Distinct(dhead) /\ EvictionSafe
-----------------------------------------------------------------------------
\* A process in a call, commit() and recovery go on.
Fairness ==
  /\ \A p \in Procs : WF_vars(LogWrite(p)) /\ WF_vars(EndOp(p))
  /\ WF_vars(WriteLog \/ WriteHead \/ Install \/ Erase \/ Done \/ ReadHead)

FairSpec == Spec /\ Fairness

\* No lost wakeup in begin_op(): a call that sleeps there gets another try.
BeginOpWoken == \A p \in Procs : pc[p] = "asleep" ~> pc[p] # "asleep"

\* What the callers of the log rely on: what is evicted can be read back, what
\* end_op() returned from is on disk, the log never overflows, and who sleeps in
\* begin_op() has somebody to wake it.
LogSafe == EvictionSafe /\ QuietDurable /\ NoPanic /\ WakerInv
=============================================================================
