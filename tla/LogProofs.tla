------------------------------ MODULE LogProofs ------------------------------
(***************************************************************************)
(* The write-ahead log is safe and implements an atomic disk, for any      *)
(* number of processes, blocks and crashes and any size of the log that    *)
(* RoomAssumption allows: LogInv is inductive, the promises to the callers *)
(* of the log follow from it, and under it every step maps to a step of    *)
(* AtomicDisk.                                                             *)
(***************************************************************************)
EXTENDS Log, FiniteSetTheorems, TLAPS

-----------------------------------------------------------------------------
(* Operators *)

\* The header after log_write() of a block that is not in it.
LEMMA AppendFacts ==
  ASSUME NEW h \in Seq(Blocks), NEW b \in Blocks
  PROVE  /\ Append(h, b) \in Seq(Blocks) /\ Len(Append(h, b)) = Len(h) + 1
         /\ \A i \in 1..Len(h) : Append(h, b)[i] = h[i]
         /\ Append(h, b)[Len(h) + 1] = b
         /\ \A d : Holds(Append(h, b), d) <=> Holds(h, d) \/ d = b
         /\ Distinct(h) /\ ~Holds(h, b) => Distinct(Append(h, b))
<1>1. /\ Append(h, b) \in Seq(Blocks) /\ Len(Append(h, b)) = Len(h) + 1 /\ Len(h) \in Nat
      /\ \A i \in 1..Len(h) : Append(h, b)[i] = h[i]
      /\ Append(h, b)[Len(h) + 1] = b
  OBVIOUS
<1>2. \A i : i \in 1..Len(Append(h, b)) <=> i \in 1..Len(h) \/ i = Len(h) + 1
  BY <1>1
<1>3. \A d : Holds(Append(h, b), d) <=> Holds(h, d) \/ d = b
  BY <1>1, <1>2, Zenon DEF Holds
<1>4. ASSUME Distinct(h), ~Holds(h, b) PROVE Distinct(Append(h, b))
  BY <1>1, <1>2, <1>4, Zenon DEF Distinct, Holds
<1> QED BY <1>1, <1>3, <1>4

\* The place of a block in a header that names no block twice.
LEMMA IndexFacts ==
  ASSUME NEW h \in Seq(Blocks), Distinct(h), NEW i \in 1..Len(h)
  PROVE  Index(h, h[i]) = i
<1>1. \E j \in 1..Len(h) : h[j] = h[i] OBVIOUS
<1>2. Index(h, h[i]) \in 1..Len(h) /\ h[Index(h, h[i])] = h[i] BY <1>1 DEF Index
<1> QED BY <1>2 DEF Distinct

\* A shorter log fits as well; what fits leaves log_write() room for one more.
LEMMA FitsFacts ==
  ASSUME NEW m \in Nat, NEW n \in Nat, m <= n, Fits(n)
  PROVE  Fits(m) /\ m < LOGSIZE /\ m < size - 1
BY LogAssumption, RoomAssumption DEF Fits

\* begin_op() next to k - 1 other calls: what the k calls may write and what two
\* of them do not is within what the k calls reserve.
LEMMA Reserve ==
  ASSUME NEW m \in Nat, NEW n \in Nat, n <= m, NEW k \in Nat, k >= 2
  PROVE  k * n + 2 * (m - n) <= k * m
<1>1. PICK d \in Nat : m = n + d BY SMT
<1>2. k * m = k * n + k * d BY <1>1
<1>3. PICK j \in Nat : k = 2 + j BY SMT
<1>4. k * d = 2 * d + j * d /\ j * d \in Nat BY <1>3
<1> QED BY <1>1, <1>2, <1>4

\* The calls in progress and what they may still add to the log are finite.
LEMMA Finite ==
  ASSUME NEW A, A \subseteq Procs, NEW U, U \subseteq A \X (1..OpBlocks)
  PROVE  /\ IsFiniteSet(A) /\ IsFiniteSet(U) /\ Cardinality(U) \in Nat
         /\ Cardinality(U) <= Cardinality(A) * OpBlocks
         /\ Cardinality(A) \in Nat /\ Cardinality(A) * OpBlocks \in Nat
         /\ A = {} => Cardinality(U) = 0
<1>1. IsFiniteSet(A) BY LogAssumption, FS_Subset
<1>2. IsFiniteSet(1..OpBlocks) /\ Cardinality(1..OpBlocks) = OpBlocks
  BY LogAssumption, FS_Interval
<1>3. /\ IsFiniteSet(A \X (1..OpBlocks))
      /\ Cardinality(A \X (1..OpBlocks)) = Cardinality(A) * Cardinality(1..OpBlocks)
  BY Zenon, <1>1, <1>2, FS_Product
<1>4. IsFiniteSet(U) /\ Cardinality(U) <= Cardinality(A \X (1..OpBlocks))
  BY <1>3, FS_Subset
<1>5. Cardinality(U) \in Nat /\ Cardinality(A) \in Nat
  BY <1>1, <1>4, FS_CardinalityType
<1>6. A = {} => U = {} OBVIOUS
<1>7. Cardinality({}) = 0 BY FS_EmptySet
<1>8. Cardinality(A) * OpBlocks \in Nat BY <1>5, LogAssumption
<1> QED BY Zenon, <1>1, <1>2, <1>3, <1>4, <1>5, <1>6, <1>7, <1>8

\* The calls in progress are processes, each with up to OpBlocks blocks.
LEMMA Sets == Active \subseteq Procs /\ Unspent \subseteq Active \X (1..OpBlocks)
BY Zenon DEF Active, Unspent

\* The types that the proofs below use most.
LEMMA Types ==
  ASSUME TypeOK
  PROVE  /\ outstanding \in Nat /\ committing \in BOOLEAN /\ lh \in Seq(Blocks)
         /\ dhead \in Seq(Blocks) /\ Len(lh) \in Nat /\ Len(dhead) \in Nat
         /\ tail \in Nat \ {0} /\ pc \in [Procs -> Places]
<1>1. /\ outstanding \in Nat /\ committing \in BOOLEAN /\ lh \in Seq(Blocks)
      /\ dhead \in Seq(Blocks) /\ tail \in Nat \ {0} /\ pc \in [Procs -> Places]
  BY Zenon DEF TypeOK
<1> QED BY <1>1

-----------------------------------------------------------------------------
(* The file system calls *)

\* A process that begins, sleeps or is woken changes nothing but its place.
LEMMA PlacesStep ==
  ASSUME LogInv, pc' \in [Procs -> Places], Active' = Active,
         \A q \in Procs : pc'[q] = "append" <=> pc[q] = "append",
         UNCHANGED <<diskVars, bufVars, logVars, buf, wrote, calls, runVars, crashes, panicked>>,
         WakerInv'
  PROVE  LogInv'
<1>1. TypeOK' BY Zenon DEF LogInv, TypeOK, diskVars, bufVars, logVars, runVars
<1>2. OutInv' /\ BufInv' BY Zenon DEF LogInv, OutInv, BufInv, logVars, Holds
<1>3. DirtyInv' /\ EvictionSafe' /\ Distinct(lh)' /\ Distinct(dhead)'
  BY Zenon DEF LogInv, DirtyInv, EvictionSafe, Distinct, diskVars, bufVars, logVars, runVars
<1>4. StepInv'
  BY Zenon DEF LogInv, StepInv, LoggedUpTo, InstalledUpTo, Recovering, diskVars, bufVars,
     logVars, runVars
<1>5. SpaceInv' BY Zenon DEF LogInv, SpaceInv, Unspent, Spent, Holds, Fits, diskVars, logVars
<1> QED BY Zenon, <1>1, <1>2, <1>3, <1>4, <1>5 DEF LogInv

\* begin_op() that finds a commit or no space, and sleeps: outside a commit, a
\* call is in progress, because an empty log has room for one.
LEMMA SleepStep ==
  ASSUME LogInv, NEW p \in Procs, BeginOp(p), committing \/ LogFull
  PROVE  LogInv'
<1>1. /\ pc[p] = "idle" /\ pc' = [pc EXCEPT ![p] = "asleep"] /\ pc \in [Procs -> Places]
      /\ UNCHANGED <<diskVars, bufVars, logVars, buf, wrote, calls, runVars, crashes, panicked>>
  BY DEF BeginOp, logVars, LogInv, TypeOK
<1>2. pc' \in [Procs -> Places] BY <1>1 DEF Places
<1>3. Active' = Active /\ \A q \in Procs : pc'[q] = "append" <=> pc[q] = "append"
  BY <1>1 DEF Active
<1>4. outstanding > 0 \/ committing
  <2> TypeOK BY Zenon DEF LogInv
  <2> SUFFICES ASSUME outstanding = 0, ~committing PROVE FALSE
    BY TypeOK, Types
  <2>1. step = "none" BY Zenon DEF BeginOp, Recovering
  <2>2. lh = <<>> BY Zenon, <2>1 DEF LogInv, StepInv
  <2> QED BY <2>2, LogAssumption, RoomAssumption DEF LogFull
<1>5. WakerInv' BY <1>1, <1>4 DEF WakerInv, logVars
<1> QED BY <1>1, <1>2, <1>3, <1>5, PlacesStep

\* begin_op() that goes ahead has made sure of the space its call needs.
LEMMA BeginStep ==
  ASSUME LogInv, NEW p \in Procs, BeginOp(p), ~committing, ~LogFull
  PROVE  LogInv'
<1>1. /\ pc[p] = "idle" /\ pc' = [pc EXCEPT ![p] = "op"] /\ outstanding' = outstanding + 1
      /\ wrote' = [wrote EXCEPT ![p] = {}] /\ calls' = [calls EXCEPT ![p] = 0]
      /\ UNCHANGED <<diskVars, bufVars, lh, committing, buf, runVars, crashes, panicked>>
  BY Zenon DEF BeginOp
<1>a. TypeOK BY Zenon DEF LogInv
<1>b. step = "none" BY Zenon DEF BeginOp, Recovering
<1>2. TypeOK'
  <2>1. pc' \in [Procs -> Places] /\ outstanding' \in Nat
    BY <1>a, <1>1, Types DEF Places
  <2>3. calls \in [Procs -> 0..MaxWrites] BY Zenon, <1>a DEF TypeOK
  <2>4. calls' \in [Procs -> 0..MaxWrites] BY <1>1, <2>3, LogAssumption
  <2>2. wrote' \in [Procs -> SUBSET Blocks] BY <1>a, <1>1 DEF TypeOK
  <2> QED BY Zenon, <1>a, <1>1, <2>1, <2>2, <2>4 DEF TypeOK, diskVars, bufVars, runVars
<1>3. p \notin Active /\ Active' = Active \cup {p} BY <1>a, <1>1 DEF Active, TypeOK
<1>4. OutInv'
  <2>1. IsFiniteSet(Active) BY Zenon, Sets, Finite
  <2>2. Cardinality(Active') = Cardinality(Active) + 1 BY Zenon, <1>3, <2>1, FS_AddElement
  <2> QED BY <1>1, <2>2 DEF LogInv, OutInv
<1>5. BufInv'
  <2>1. ASSUME NEW q \in Procs PROVE (pc[q] = "append" <=> buf[q] # NoBlock)'
    BY <1>a, <1>1 DEF LogInv, BufInv, TypeOK
  <2>2. buf[p] = NoBlock /\ wrote'[p] = {} BY <1>a, <1>1 DEF LogInv, BufInv, TypeOK
  <2>3. IsFiniteSet({}) /\ Cardinality({}) <= OpBlocks BY FS_EmptySet, LogAssumption
  <2>4. ASSUME NEW q \in Active', q # p
        PROVE  /\ IsFiniteSet(wrote'[q]) /\ Cardinality(wrote'[q]) <= OpBlocks
               /\ buf'[q] # NoBlock => buf'[q] \in wrote'[q]
               /\ \A b \in wrote'[q] : Holds(lh, b)' \/ buf'[q] = b
    <3>1. q \in Active /\ q \in Procs /\ wrote'[q] = wrote[q] BY <1>a, <1>1, <1>3, <2>4 DEF Active, TypeOK
    <3> QED BY Zenon, <1>1, <3>1 DEF LogInv, BufInv, Holds
  <2>5. ASSUME NEW q \in Active'
        PROVE  /\ IsFiniteSet(wrote'[q]) /\ Cardinality(wrote'[q]) <= OpBlocks
               /\ buf'[q] # NoBlock => buf'[q] \in wrote'[q]
               /\ \A b \in wrote'[q] : Holds(lh, b)' \/ buf'[q] = b
    BY Zenon, <1>1, <2>2, <2>3, <2>4
  <2>6. \A q, r \in Procs : buf'[q] = buf'[r] /\ buf'[q] # NoBlock => q = r
    BY Zenon, <1>1 DEF LogInv, BufInv
  <2> QED BY Zenon, <2>1, <2>5, <2>6 DEF BufInv
<1>6. DirtyInv' /\ EvictionSafe' /\ Distinct(lh)' /\ Distinct(dhead)'
  BY Zenon, <1>1 DEF LogInv, DirtyInv, EvictionSafe, Distinct, diskVars, bufVars, runVars
<1>7. StepInv'
  <2>1. outstanding' # 0 /\ step' = "none" BY <1>a, <1>b, <1>1, Types DEF runVars
  <2> QED BY Zenon, <1>b, <1>1, <2>1 DEF LogInv, StepInv, Recovering, diskVars, runVars
<1>8. SpaceInv'
  <2> DEFINE k == outstanding + 1
  <2>1. Cardinality(Active') = k /\ k \in Nat
    BY <1>a, <1>1, <1>4, Types DEF OutInv
  <2>2. /\ Cardinality(Unspent') \in Nat /\ Cardinality(Unspent') <= k * OpBlocks
        /\ k * OpBlocks \in Nat
    <3>1. Active' \subseteq Procs /\ Unspent' \subseteq Active' \X (1..OpBlocks)
      BY Zenon DEF Active, Unspent
    <3> QED BY <2>1, <3>1, Finite
  <2>3. Len(lh) \in Nat /\ Len(lh) + k * MAXOPBLOCKS <= LOGSIZE
    <3>1. k * MAXOPBLOCKS \in Nat BY <2>1, LogAssumption
    <3>2. ~ (Len(lh) + k * MAXOPBLOCKS > LOGSIZE) BY Zenon DEF LogFull
    <3> QED BY <1>a, <3>1, <3>2, Types, LogAssumption
  <2>4. CASE outstanding = 0
    <3>1. Len(lh) = 0 BY <2>4, <1>b DEF LogInv, StepInv
    <3> QED BY <1>1, <2>2, <2>4, <3>1, LogAssumption DEF LogInv, SpaceInv, Fits, diskVars
  <2>5. CASE outstanding # 0
    <3>1. k >= 2 BY <1>a, <2>5, Types
    <3>2. k * OpBlocks + 2 * (MAXOPBLOCKS - OpBlocks) <= k * MAXOPBLOCKS
      BY <2>1, <3>1, Reserve, LogAssumption, RoomAssumption
    <3>3. Len(lh) + Cardinality(Unspent') + 2 * (MAXOPBLOCKS - OpBlocks) <= LOGSIZE
      <4> DEFINE r == k * OpBlocks  m == k * MAXOPBLOCKS
      <4>1. m \in Nat BY <2>1, LogAssumption
      <4> HIDE DEF r, m
      <4> QED BY <2>2, <2>3, <3>2, <4>1, LogAssumption DEF r, m
    <3> QED BY <1>1, <3>3 DEF LogInv, SpaceInv, Fits, diskVars
  <2> QED BY <2>4, <2>5
<1>9. WakerInv' BY <1>a, <1>1, Types DEF WakerInv
<1> QED BY Zenon, <1>2, <1>4, <1>5, <1>6, <1>7, <1>8, <1>9 DEF LogInv

\* While a call is in progress no commit and no recovery is.
LEMMA InCall ==
  ASSUME LogInv, NEW p \in Active
  PROVE  /\ step = "none" /\ ~committing /\ dhead = <<>> /\ ~Recovering
         /\ outstanding \in Nat \ {0} /\ TypeOK
<1>1. step = "none" /\ ~committing /\ dhead = <<>> /\ TypeOK BY Zenon DEF LogInv, StepInv
<1>2. outstanding = Cardinality(Active) BY Zenon DEF LogInv, OutInv
<1>3. IsFiniteSet(Active) BY Zenon, Sets, Finite
<1>4. Cardinality(Active) \in Nat /\ (Cardinality(Active) = 0 <=> Active = {})
  BY Zenon, <1>3, FS_CardinalityType, FS_EmptySet
<1>5. ~Recovering BY Zenon, <1>1 DEF Recovering
<1> QED BY <1>1, <1>2, <1>4, <1>5

\* The blocks of W that are in the header h.
InLog(W, h) == {b \in W : Holds(h, b)}

\* Writing more blocks, or having more of them in the log, spends more.
LEMMA SpentMore ==
  ASSUME NEW W, IsFiniteSet(W), NEW h, NEW V, V \subseteq W, NEW g,
         \A b : Holds(g, b) => Holds(h, b)
  PROVE  /\ InLog(V, g) \subseteq InLog(W, h) /\ IsFiniteSet(InLog(W, h))
         /\ Cardinality(InLog(V, g)) <= Cardinality(InLog(W, h))
         /\ Cardinality(InLog(V, g)) \in Nat /\ Cardinality(InLog(W, h)) \in Nat
<1>1. InLog(V, g) \subseteq InLog(W, h) /\ InLog(W, h) \subseteq W BY Zenon DEF InLog
<1>2. IsFiniteSet(InLog(W, h)) BY Zenon, <1>1, FS_Subset
<1>3. IsFiniteSet(InLog(V, g)) /\ Cardinality(InLog(V, g)) <= Cardinality(InLog(W, h))
  BY Zenon, <1>1, <1>2, FS_Subset
<1> QED BY Zenon, <1>1, <1>2, <1>3, FS_CardinalityType

\* What fits keeps fitting while nothing is added to the log.
LEMMA SpaceKept ==
  ASSUME LogInv, lh' = lh, dhead' = dhead, Unspent' \subseteq Unspent
  PROVE  SpaceInv'
<1>1. IsFiniteSet(Unspent) /\ Cardinality(Unspent) \in Nat BY Zenon, Sets, Finite
<1>2. Cardinality(Unspent') \in Nat /\ Cardinality(Unspent') <= Cardinality(Unspent)
  BY <1>1, FS_Subset, FS_CardinalityType
<1>3. Len(lh) \in Nat /\ Fits(Len(lh) + Cardinality(Unspent)) /\ Fits(Len(dhead))
  <2>1. TypeOK /\ SpaceInv BY Zenon DEF LogInv
  <2> QED BY <2>1, Types DEF SpaceInv
<1>4. Fits(Len(lh) + Cardinality(Unspent')) BY <1>1, <1>2, <1>3, FitsFacts
<1>5. SpaceInv' <=> Fits(Len(lh') + Cardinality(Unspent')) /\ Fits(Len(dhead'))
  BY Zenon DEF SpaceInv, Fits
<1> QED BY Zenon, <1>3, <1>4, <1>5

\* A call that modifies a buffer and enters log_write().
LEMMA ModifyStep ==
  ASSUME LogInv, NEW p \in Procs, Modify(p)
  PROVE  LogInv'
<1>1. PICK b \in Blocks, v \in Vals :
        /\ Cardinality(wrote[p] \cup {b}) <= OpBlocks
        /\ \A q \in Procs : buf[q] # b
        /\ cache' = [cache EXCEPT ![b] = v]
        /\ buf' = [buf EXCEPT ![p] = b]
        /\ wrote' = [wrote EXCEPT ![p] = @ \cup {b}]
  BY Zenon DEF Modify
<1>2. /\ pc[p] = "op" /\ calls[p] < MaxWrites /\ calls' = [calls EXCEPT ![p] = @ + 1]
      /\ pc' = [pc EXCEPT ![p] = "append"]
      /\ UNCHANGED <<diskVars, dirty, logVars, runVars, crashes>>
  BY Zenon DEF Modify
<1>3. panicked' \in {"no", "too big a transaction", "log_write outside of trans", "log.committing"}
  BY Zenon DEF Modify
<1>4. p \in Active BY Zenon, <1>2 DEF Active
<1>5. /\ step = "none" /\ ~committing /\ dhead = <<>> /\ TypeOK /\ outstanding \in Nat \ {0}
  BY Zenon, <1>4, InCall
<1>6. Active' = Active BY <1>2, <1>5, Types DEF Active
<1>7. TypeOK'
  <2>1. calls \in [Procs -> 0..MaxWrites] /\ cache \in [Blocks -> Vals]
        /\ buf \in [Procs -> Blocks \cup {NoBlock}] /\ wrote \in [Procs -> SUBSET Blocks]
    BY Zenon, <1>5 DEF TypeOK
  <2>2. calls' \in [Procs -> 0..MaxWrites] BY <1>2, <2>1, LogAssumption
  <2>3. pc' \in [Procs -> Places] BY <1>2, <1>5, Types DEF Places
  <2>4. cache' \in [Blocks -> Vals] /\ buf' \in [Procs -> Blocks \cup {NoBlock}]
        /\ wrote' \in [Procs -> SUBSET Blocks]
    BY <1>1, <2>1
  <2> QED BY Zenon, <1>2, <1>3, <1>5, <2>2, <2>3, <2>4 DEF TypeOK, diskVars, logVars, runVars
<1>8. OutInv' BY Zenon, <1>2, <1>6 DEF LogInv, OutInv, logVars
<1>9. /\ buf[p] = NoBlock /\ b # NoBlock /\ buf'[p] = b /\ wrote'[p] = wrote[p] \cup {b}
      /\ \A q \in Procs : q # p => buf'[q] = buf[q] /\ wrote'[q] = wrote[q]
  <2>1. buf \in [Procs -> Blocks \cup {NoBlock}] /\ wrote \in [Procs -> SUBSET Blocks]
    BY Zenon, <1>5 DEF TypeOK
  <2>2. buf[p] = NoBlock BY Zenon, <1>2 DEF LogInv, BufInv
  <2> QED BY <1>1, <2>1, <2>2, LogAssumption
<1>10. IsFiniteSet(wrote'[p]) /\ \A q \in Active : IsFiniteSet(wrote[q])
  <2>1. \A q \in Active : IsFiniteSet(wrote[q]) BY Zenon DEF LogInv, BufInv
  <2>2. IsFiniteSet(wrote[p]) BY Zenon, <1>4, <2>1
  <2>3. IsFiniteSet(wrote[p] \cup {b}) BY <2>2, FS_AddElement
  <2> QED BY Zenon, <1>9, <2>1, <2>3
<1>11. BufInv'
  <2>1. ASSUME NEW q \in Procs PROVE pc'[q] = "append" <=> buf'[q] # NoBlock
    <3>1. q # p => pc'[q] = pc[q] BY Zenon, <1>2, <1>5, Types
    <3>2. pc'[p] = "append" BY <1>2, <1>5, Types
    <3> QED BY Zenon, <3>1, <3>2, <1>9 DEF LogInv, BufInv
  <2>2. ASSUME NEW q \in Procs, NEW r \in Procs, buf'[q] = buf'[r], buf'[q] # NoBlock PROVE q = r
    <3>1. CASE q = p \/ r = p BY Zenon, <1>1, <1>9, <2>2, <3>1
    <3>2. CASE q # p /\ r # p
      <4>1. buf[q] = buf[r] /\ buf[q] # NoBlock BY Zenon, <1>9, <2>2, <3>2
      <4> QED BY Zenon, <4>1 DEF LogInv, BufInv
    <3> QED BY Zenon, <3>1, <3>2
  <2>3. ASSUME NEW q \in Active
        PROVE  /\ IsFiniteSet(wrote'[q]) /\ Cardinality(wrote'[q]) <= OpBlocks
               /\ buf'[q] # NoBlock => buf'[q] \in wrote'[q]
               /\ \A d \in wrote'[q] : Holds(lh, d) \/ buf'[q] = d
    <3>1. q \in Procs BY Zenon, Sets
    <3>2. CASE q = p
      <4>1. ASSUME NEW d \in wrote[p] PROVE Holds(lh, d)
        <5>1. d \in Blocks BY Zenon, <1>5 DEF TypeOK
        <5> QED BY Zenon, <5>1, <1>4, <1>9, LogAssumption DEF LogInv, BufInv
      <4> QED BY Zenon, <3>2, <4>1, <1>1, <1>9, <1>10
    <3>3. CASE q # p BY Zenon, <3>1, <3>3, <1>9 DEF LogInv, BufInv
    <3> QED BY Zenon, <3>2, <3>3
  <2>4. lh' = lh BY Zenon, <1>2 DEF logVars
  <2> QED BY Zenon, <1>6, <2>1, <2>2, <2>3, <2>4 DEF BufInv, Holds
<1>12. DirtyInv' /\ Distinct(lh)' /\ Distinct(dhead)'
  BY Zenon, <1>2 DEF LogInv, DirtyInv, Distinct, diskVars, logVars, runVars
<1>13. StepInv'
  <2>1. step' = "none" /\ ~committing' /\ outstanding' # 0 /\ dhead' = <<>>
    BY Zenon, <1>2, <1>5 DEF diskVars, logVars, runVars
  <2> QED BY Zenon, <2>1 DEF StepInv, Recovering
<1>14. SpaceInv'
  <2>1. ASSUME NEW q \in Active
        PROVE  Spent(q) <= Spent(q)' /\ Spent(q) \in Nat /\ Spent(q)' \in Nat
    <3>1. wrote[q] \subseteq wrote'[q] /\ IsFiniteSet(wrote'[q]) BY Zenon, Sets, <1>9, <1>10
    <3>2. lh' = lh BY Zenon, <1>2 DEF logVars
    <3>3. Spent(q)' = Cardinality(InLog(wrote'[q], lh)) /\ Spent(q) = Cardinality(InLog(wrote[q], lh))
      BY Zenon, <3>2 DEF Spent, InLog
    <3>4. /\ Cardinality(InLog(wrote[q], lh)) <= Cardinality(InLog(wrote'[q], lh))
          /\ Cardinality(InLog(wrote[q], lh)) \in Nat /\ Cardinality(InLog(wrote'[q], lh)) \in Nat
      BY <3>1, SpentMore
    <3> QED BY Zenon, <3>3, <3>4
  <2>2. ASSUME NEW s \in Unspent' PROVE s \in Unspent
    <3>1. s \in Active \X (1..OpBlocks) /\ Spent(s[1])' < s[2] BY Zenon, <1>6 DEF Unspent
    <3>2. s[1] \in Active /\ s[2] \in Int BY <3>1
    <3>3. Spent(s[1]) < s[2] BY <3>1, <3>2, <2>1
    <3> QED BY Zenon, <3>1, <3>3 DEF Unspent
  <2> QED BY Zenon, <2>2, <1>2, SpaceKept DEF diskVars, logVars
<1>15. WakerInv'
  BY Zenon, <1>2, <1>5, Types DEF LogInv, WakerInv, logVars
<1>16. EvictionSafe'
  <2>1. ASSUME NEW d \in Blocks \ dirty, \A q \in Procs : buf'[q] # d PROVE cache'[d] = home[d]
    <3>1. d # b /\ cache \in [Blocks -> Vals] BY Zenon, <2>1, <1>5, <1>9 DEF TypeOK
    <3>2. cache'[d] = cache[d] BY <3>1, <1>1
    <3>3. \A q \in Procs : buf[q] # d BY Zenon, <2>1, <1>9, LogAssumption
    <3> QED BY Zenon, <3>2, <3>3 DEF LogInv, EvictionSafe
  <2> QED BY Zenon, <1>2, <2>1 DEF EvictionSafe, diskVars
<1> QED BY Zenon, <1>7, <1>8, <1>11, <1>12, <1>13, <1>14, <1>15, <1>16 DEF LogInv

\* The part of log_write() under log.lock: a block that is new to the log takes
\* the place that the call has reserved for it.
LEMMA LogWriteStep ==
  ASSUME LogInv, NEW p \in Procs, LogWrite(p)
  PROVE  LogInv'
<1> DEFINE b == buf[p]
<1>1. /\ pc[p] = "append" /\ lh' = Logged(b) /\ dirty' = Pinned(b)
      /\ buf' = [buf EXCEPT ![p] = NoBlock] /\ pc' = [pc EXCEPT ![p] = "op"]
      /\ UNCHANGED <<diskVars, cache, outstanding, committing, wrote, calls, runVars, crashes, panicked>>
  BY Zenon DEF LogWrite
<1>2. p \in Active BY Zenon, <1>1 DEF Active
<1>3. step = "none" /\ ~committing /\ dhead = <<>> /\ TypeOK /\ outstanding \in Nat \ {0}
  BY Zenon, <1>2, InCall
<1>4. buf \in [Procs -> Blocks \cup {NoBlock}] /\ wrote \in [Procs -> SUBSET Blocks]
      /\ dirty \subseteq Blocks /\ pc \in [Procs -> Places] /\ lh \in Seq(Blocks)
  BY Zenon, <1>3 DEF TypeOK
<1>5. b \in Blocks /\ b \in wrote[p] /\ \A q \in Procs : q # p => buf[q] # b
  <2>1. b # NoBlock BY Zenon, <1>1 DEF LogInv, BufInv
  <2>2. b \in Blocks BY <1>4, <2>1
  <2> QED BY Zenon, <1>2, <2>1, <2>2 DEF LogInv, BufInv
<1>6. /\ lh' \in Seq(Blocks) /\ Distinct(lh') /\ \A d : Holds(lh', d) <=> Holds(lh, d) \/ d = b
  <2>1. CASE Holds(lh, b)
    <3>1. lh' = lh BY Zenon, <1>1, <2>1 DEF Logged
    <3> QED BY Zenon, <1>4, <2>1, <3>1 DEF LogInv
  <2>2. CASE ~Holds(lh, b)
    <3>1. lh' = Append(lh, b) BY Zenon, <1>1, <2>2 DEF Logged
    <3>2. Distinct(lh) BY Zenon DEF LogInv
    <3> QED BY Zenon, <1>4, <1>5, <2>2, <3>1, <3>2, AppendFacts
  <2> QED BY Zenon, <2>1, <2>2
<1>7. /\ buf'[p] = NoBlock /\ \A q \in Procs : q # p => buf'[q] = buf[q]
      /\ pc'[p] = "op" /\ \A q \in Procs : q # p => pc'[q] = pc[q]
  BY <1>1, <1>4
<1>8. Active' = Active BY Zenon, <1>1, <1>7 DEF Active
<1>9. TypeOK'
  <2>1. pc' \in [Procs -> Places] BY <1>1, <1>4 DEF Places
  <2>2. buf' \in [Procs -> Blocks \cup {NoBlock}] BY <1>1, <1>4
  <2>3. dirty' \subseteq Blocks BY <1>1, <1>4, <1>5 DEF Pinned
  <2> QED BY Zenon, <1>1, <1>3, <1>6, <2>1, <2>2, <2>3 DEF TypeOK, diskVars, runVars
<1>10. OutInv' BY Zenon, <1>1, <1>8 DEF LogInv, OutInv
<1>11. BufInv'
  <2>1. ASSUME NEW q \in Procs PROVE pc'[q] = "append" <=> buf'[q] # NoBlock
    BY Zenon, <1>7 DEF LogInv, BufInv
  <2>2. ASSUME NEW q \in Procs, NEW r \in Procs, buf'[q] = buf'[r], buf'[q] # NoBlock PROVE q = r
    <3>1. q # p /\ r # p /\ buf[q] = buf[r] /\ buf[q] # NoBlock BY Zenon, <1>7, <2>2
    <3> QED BY Zenon, <3>1 DEF LogInv, BufInv
  <2>3. ASSUME NEW q \in Active
        PROVE  /\ IsFiniteSet(wrote[q]) /\ Cardinality(wrote[q]) <= OpBlocks
               /\ buf'[q] # NoBlock => buf'[q] \in wrote[q]
               /\ \A d \in wrote[q] : Holds(lh', d) \/ buf'[q] = d
    <3>1. q \in Procs BY Zenon, Sets
    <3> QED BY Zenon, <1>6, <1>7, <3>1 DEF LogInv, BufInv
  <2> QED BY Zenon, <1>1, <1>8, <2>1, <2>2, <2>3 DEF BufInv
<1>12. DirtyInv'
  <2>1. ASSUME NEW d \in dirty' PROVE Holds(lh', d)
    <3>1. d \in dirty \/ d = b BY Zenon, <1>1 DEF Pinned
    <3>2. d \in dirty => Holds(lh, d) BY Zenon DEF LogInv, DirtyInv, Holds
    <3> QED BY Zenon, <3>1, <3>2, <1>6
  <2>2. step' = "none" BY Zenon, <1>1, <1>3 DEF runVars
  <2> QED BY Zenon, <2>1, <2>2 DEF DirtyInv, Holds
<1>13. StepInv'
  <2>1. step' = "none" /\ ~committing' /\ outstanding' # 0 /\ dhead' = <<>>
    BY Zenon, <1>1, <1>3 DEF diskVars, runVars
  <2> QED BY Zenon, <2>1 DEF StepInv, Recovering
<1>14. \A q \in Active : IsFiniteSet(wrote[q]) /\ Cardinality(wrote[q]) <= OpBlocks
  BY Zenon DEF LogInv, BufInv
<1>15. ASSUME NEW q \in Active
       PROVE  Spent(q) <= Spent(q)' /\ Spent(q) \in Nat /\ Spent(q)' \in Nat
  <2>1. /\ Cardinality(InLog(wrote[q], lh)) <= Cardinality(InLog(wrote[q], lh'))
        /\ Cardinality(InLog(wrote[q], lh)) \in Nat /\ Cardinality(InLog(wrote[q], lh')) \in Nat
    BY Zenon, <1>6, <1>14, SpentMore
  <2> QED BY Zenon, <1>1, <2>1 DEF Spent, InLog
<1>16. ASSUME NEW s \in Unspent' PROVE s \in Unspent
  <2>1. s \in Active \X (1..OpBlocks) /\ Spent(s[1])' < s[2] BY Zenon, <1>8 DEF Unspent
  <2>2. s[1] \in Active /\ s[2] \in Int BY <2>1
  <2>3. Spent(s[1]) < s[2] BY <2>1, <2>2, <1>15
  <2> QED BY Zenon, <2>1, <2>3 DEF Unspent
<1>17. SpaceInv'
  <2>1. CASE Holds(lh, b)
    <3>1. lh' = lh BY Zenon, <1>1, <2>1 DEF Logged
    <3> QED BY Zenon, <3>1, <1>1, <1>16, SpaceKept DEF diskVars
  <2>2. CASE ~Holds(lh, b)
    <3> DEFINE X == InLog(wrote[p], lh)
               s == <<p, Cardinality(X) + 1>>
    <3>1. IsFiniteSet(wrote[p]) /\ Cardinality(wrote[p]) <= OpBlocks BY Zenon, <1>2, <1>14
    <3>2. X \subseteq wrote[p] /\ b \notin X /\ X \cup {b} \subseteq wrote[p]
      BY Zenon, <1>5, <2>2 DEF InLog
    <3>3. IsFiniteSet(X) /\ Cardinality(X) \in Nat /\ IsFiniteSet(X \cup {b})
          /\ Cardinality(X \cup {b}) = Cardinality(X) + 1
      <4>1. IsFiniteSet(X) BY Zenon, <3>1, <3>2, FS_Subset
      <4> QED BY <4>1, <3>2, FS_AddElement, FS_CardinalityType
    <3>4. Cardinality(X) + 1 \in 1..OpBlocks
      <4>1. Cardinality(X \cup {b}) <= Cardinality(wrote[p]) BY Zenon, <3>1, <3>2, FS_Subset
      <4>2. Cardinality(wrote[p]) \in Nat BY Zenon, <3>1, FS_CardinalityType
      <4> QED BY <4>1, <4>2, <3>1, <3>3, LogAssumption
    <3>5. Spent(p) = Cardinality(X) /\ Spent(p)' = Cardinality(X) + 1
      <4>1. InLog(wrote[p], lh') = X \cup {b} BY Zenon, <1>5, <1>6 DEF InLog
      <4>2. Spent(p) = Cardinality(X) BY Zenon DEF Spent, InLog
      <4>3. Spent(p)' = Cardinality(InLog(wrote[p], lh')) BY Zenon, <1>1 DEF Spent, InLog
      <4> QED BY Zenon, <3>3, <4>1, <4>2, <4>3
    <3> HIDE DEF X
    <3>6. s \in Unspent
      <4>1. Cardinality(X) < Cardinality(X) + 1 BY <3>3
      <4> QED BY <4>1, <1>2, <3>4, <3>5 DEF Unspent
    <3>7. s \notin Unspent'
      <4>1. ~ (Cardinality(X) + 1 < Cardinality(X) + 1) BY <3>3
      <4>2. s[1] = p /\ s[2] = Cardinality(X) + 1 OBVIOUS
      <4>3. s \in Unspent' => Spent(s[1])' < s[2] BY Zenon DEF Unspent
      <4> QED BY <4>1, <4>2, <4>3, <3>5
    <3>8. Unspent' \subseteq Unspent \ {s} BY Zenon, <1>16, <3>7
    <3>9. IsFiniteSet(Unspent) /\ Cardinality(Unspent) \in Nat BY Zenon, Sets, Finite
    <3> HIDE DEF s
    <3>10. IsFiniteSet(Unspent \ {s}) /\ Cardinality(Unspent \ {s}) = Cardinality(Unspent) - 1
      BY <3>6, <3>9, FS_RemoveElement
    <3>11. Cardinality(Unspent') \in Nat /\ Cardinality(Unspent') <= Cardinality(Unspent) - 1
      BY <3>8, <3>10, FS_Subset, FS_CardinalityType
    <3>12. Len(lh) \in Nat /\ Len(lh') = Len(lh) + 1
      BY <1>1, <1>4, <1>5, <2>2, AppendFacts DEF Logged
    <3>13. Fits(Len(lh) + Cardinality(Unspent)) /\ Fits(Len(dhead)) BY Zenon DEF LogInv, SpaceInv
    <3>14. Fits(Len(lh') + Cardinality(Unspent')) BY <3>9, <3>11, <3>12, <3>13, FitsFacts
    <3>15. SpaceInv' <=> Fits(Len(lh') + Cardinality(Unspent')) /\ Fits(Len(dhead'))
      BY Zenon DEF SpaceInv, Fits
    <3> QED BY Zenon, <1>1, <3>13, <3>14, <3>15 DEF diskVars
  <2> QED BY Zenon, <2>1, <2>2
<1>18. WakerInv' BY Zenon, <1>1, <1>7 DEF LogInv, WakerInv
<1>19. EvictionSafe'
  <2>1. ASSUME NEW d \in Blocks \ dirty', \A q \in Procs : buf'[q] # d PROVE cache[d] = home[d]
    <3>1. d # b /\ d \notin dirty BY Zenon, <2>1, <1>1 DEF Pinned
    <3>2. \A q \in Procs : buf[q] # d BY Zenon, <2>1, <3>1, <1>7
    <3> QED BY Zenon, <3>1, <3>2 DEF LogInv, EvictionSafe
  <2> QED BY Zenon, <1>1, <2>1 DEF EvictionSafe, diskVars
<1>20. Distinct(lh)' /\ Distinct(dhead)' BY Zenon, <1>1, <1>6 DEF LogInv, Distinct, diskVars
<1> QED
  BY Zenon, <1>9, <1>10, <1>11, <1>12, <1>13, <1>17, <1>18, <1>19, <1>20 DEF LogInv

\* end_op(): the last call in progress starts the commit, another one wakes the
\* sleepers.
LEMMA EndOpStep ==
  ASSUME LogInv, NEW p \in Procs, EndOp(p)
  PROVE  LogInv'
<1>1. /\ pc[p] = "op" /\ outstanding' = outstanding - 1
      /\ UNCHANGED <<diskVars, bufVars, lh, buf, wrote, calls, crashes>>
      /\ panicked' \in {"no", "log.committing"}
  BY Zenon DEF EndOp
<1>2. p \in Active BY Zenon, <1>1 DEF Active
<1>3. step = "none" /\ ~committing /\ dhead = <<>> /\ TypeOK /\ outstanding \in Nat \ {0}
  BY Zenon, <1>2, InCall
<1>4. pc \in [Procs -> Places] /\ lh \in Seq(Blocks) BY <1>3, Types
<1>5. \/ /\ outstanding = 1 /\ committing' = TRUE /\ pc' = [pc EXCEPT ![p] = "commit"]
         /\ step' = (IF lh = <<>> THEN "done" ELSE "write_log") /\ tail' = 1
      \/ /\ outstanding # 1 /\ pc' = Awake([pc EXCEPT ![p] = "idle"])
         /\ UNCHANGED <<committing, step, tail>>
  BY Zenon DEF EndOp, LastOp, CommitStart
<1>6. /\ pc' \in [Procs -> Places] /\ Active' = Active \ {p}
      /\ \A q \in Procs : pc'[q] = "append" <=> pc[q] = "append"
      /\ outstanding # 1 => \A q \in Procs : pc'[q] # "asleep"
  <2>1. CASE pc' = [pc EXCEPT ![p] = "commit"] /\ outstanding = 1
    BY <1>1, <1>4, <2>1 DEF Places, Active
  <2>2. CASE pc' = Awake([pc EXCEPT ![p] = "idle"]) BY <1>1, <1>4, <2>2 DEF Places, Active, Awake
  <2> QED BY Zenon, <1>5, <2>1, <2>2
<1>7. IsFiniteSet(Active) /\ outstanding = Cardinality(Active)
  BY Zenon, Sets, Finite DEF LogInv, OutInv
<1>8. IsFiniteSet(Active') /\ outstanding' = Cardinality(Active')
  BY <1>1, <1>2, <1>6, <1>7, FS_RemoveElement
<1>9. outstanding' \in Nat /\ (outstanding = 1 <=> outstanding' = 0) BY <1>1, <1>3
<1>10. outstanding = 1 => Active' = {} BY Zenon, <1>8, <1>9, FS_EmptySet
<1>11. TypeOK'
  <2>1. committing' \in BOOLEAN /\ step' \in Steps /\ tail' \in Nat \ {0}
    <3>1. step \in Steps BY Zenon, <1>3 DEF TypeOK
    <3>2. committing \in BOOLEAN BY Zenon, <1>3 DEF TypeOK
    <3>3. committing' \in BOOLEAN /\ step' \in Steps BY Zenon, <1>5, <3>1, <3>2 DEF Steps
    <3>4. tail' = 1 \/ tail' = tail BY Zenon, <1>5
    <3> QED BY <1>3, <3>3, <3>4, Types
  <2> QED BY Zenon, <1>1, <1>3, <1>6, <1>9, <2>1 DEF TypeOK, diskVars, bufVars
<1>12. OutInv' BY Zenon, <1>8 DEF OutInv
<1>13. BufInv' BY Zenon, <1>1, <1>6 DEF LogInv, BufInv, Holds
<1>14. SpaceInv'
  <2>1. ASSUME NEW s \in Unspent' PROVE s \in Unspent
    <3>1. s \in Active' \X (1..OpBlocks) /\ Spent(s[1])' < s[2] BY Zenon DEF Unspent
    <3>2. s \in Active \X (1..OpBlocks) BY <1>6, <3>1
    <3>3. Spent(s[1])' = Spent(s[1]) BY Zenon, <1>1 DEF Spent
    <3> QED BY Zenon, <3>1, <3>2, <3>3 DEF Unspent
  <2> QED BY Zenon, <1>1, <2>1, SpaceKept DEF diskVars
<1>15. WakerInv'
  <2>1. outstanding # 1 => outstanding' > 0 BY <1>1, <1>3
  <2> QED BY Zenon, <2>1, <1>5 DEF WakerInv
<1>16. Distinct(lh)' /\ Distinct(dhead)' /\ EvictionSafe'
  BY Zenon, <1>1 DEF LogInv, Distinct, EvictionSafe, diskVars, bufVars
<1>17. DirtyInv' /\ StepInv'
  <2>1. \A d \in dirty : \E i \in 1..Len(lh) : lh[i] = d BY Zenon DEF LogInv, DirtyInv
  <2>2. lh' = lh /\ dirty' = dirty /\ dhead' = <<>> BY Zenon, <1>1, <1>3 DEF bufVars, diskVars
  <2>3. CASE outstanding # 1
    <3>1. step' = "none" /\ ~committing' /\ outstanding' # 0 BY <1>3, <1>5, <1>9, <2>3
    <3>2. DirtyInv' BY Zenon, <2>1, <2>2, <3>1 DEF DirtyInv
    <3>3. StepInv' BY Zenon, <2>2, <3>1 DEF StepInv, Recovering
    <3> QED BY Zenon, <3>2, <3>3
  <2>4. CASE outstanding = 1 /\ lh = <<>>
    <3>1. step' = "done" /\ committing' /\ Active' = {} BY Zenon, <1>5, <1>10, <2>4
    <3>2. dirty = {} BY <2>1, <2>4
    <3>3. DirtyInv' BY Zenon, <2>2, <3>1, <3>2 DEF DirtyInv
    <3>4. StepInv' BY Zenon, <2>2, <2>4, <3>1 DEF StepInv, Recovering
    <3> QED BY Zenon, <3>3, <3>4
  <2>5. CASE outstanding = 1 /\ lh # <<>>
    <3>1. step' = "write_log" /\ committing' /\ Active' = {} /\ tail' = 1
      BY Zenon, <1>5, <1>10, <2>5
    <3>2. DirtyInv' BY Zenon, <2>1, <2>2, <3>1 DEF DirtyInv
    <3>3. tail' <= Len(lh') /\ \A i \in 1..Len(lh') : ~(i < tail') BY <1>4, <2>2, <2>5, <3>1
    <3>4. LoggedUpTo(tail)' BY Zenon, <3>3 DEF LoggedUpTo
    <3>5. StepInv' BY Zenon, <2>2, <3>1, <3>3, <3>4 DEF StepInv, Recovering
    <3> QED BY Zenon, <3>2, <3>5
  <2> QED BY Zenon, <2>3, <2>4, <2>5
<1> QED BY Zenon, <1>11, <1>12, <1>13, <1>14, <1>15, <1>16, <1>17 DEF LogInv

-----------------------------------------------------------------------------
(* commit() and recovery *)

\* A disk write of commit() or of recovery leaves the calls alone: there are
\* none in progress.
LEMMA RunStep ==
  ASSUME LogInv, step # "none", UNCHANGED opVars, outstanding' = outstanding,
         committing' = committing, Fits(Len(lh')), Fits(Len(dhead')), lh' \in Seq(Blocks)
  PROVE  /\ OutInv' /\ BufInv' /\ SpaceInv' /\ WakerInv'
         /\ Active = {} /\ Active' = {} /\ TypeOK
         /\ \A q \in Procs : buf[q] = NoBlock /\ buf'[q] = NoBlock
<1>1. Active = {} /\ TypeOK BY Zenon DEF LogInv, StepInv
<1>2. pc' = pc /\ buf' = buf /\ wrote' = wrote BY Zenon DEF opVars
<1>3. Active' = {} BY Zenon, <1>1, <1>2 DEF Active
<1>4. OutInv' BY Zenon, <1>1, <1>3 DEF LogInv, OutInv
<1>5. BufInv' BY Zenon, <1>2, <1>3 DEF LogInv, BufInv
<1>6. WakerInv' BY Zenon, <1>2 DEF LogInv, WakerInv
<1>7. \A q \in Procs : buf[q] = NoBlock BY Zenon, <1>1 DEF LogInv, BufInv, Active
<1>8. SpaceInv'
  <2>1. Active' \subseteq Procs /\ Unspent' \subseteq Active' \X (1..OpBlocks)
    BY Zenon DEF Active, Unspent
  <2>2. Cardinality(Unspent') = 0 BY <1>3, <2>1, Finite
  <2>3. Len(lh') + Cardinality(Unspent') = Len(lh') BY <2>2
  <2>4. SpaceInv' <=> Fits(Len(lh') + Cardinality(Unspent')) /\ Fits(Len(dhead'))
    BY Zenon DEF SpaceInv, Fits
  <2> QED BY Zenon, <2>3, <2>4
<1> QED BY Zenon, <1>1, <1>2, <1>3, <1>4, <1>5, <1>6, <1>7, <1>8

\* What is in the log and in the header fits.
LEMMA LogFits ==
  ASSUME LogInv
  PROVE  Fits(Len(lh)) /\ Len(lh) < LOGSIZE /\ Fits(Len(dhead)) /\ Len(dhead) < LOGSIZE
<1>1. Cardinality(Unspent) \in Nat BY Zenon, Sets, Finite
<1>2. TypeOK /\ SpaceInv BY Zenon DEF LogInv
<1>3. Len(lh) \in Nat /\ Len(dhead) \in Nat BY <1>2, Types
<1>4. Fits(Len(lh) + Cardinality(Unspent)) /\ Fits(Len(dhead)) BY Zenon, <1>2 DEF SpaceInv
<1>5. Len(lh) + Cardinality(Unspent) \in Nat /\ Len(lh) <= Len(lh) + Cardinality(Unspent)
      /\ Len(dhead) <= Len(dhead)
  BY <1>1, <1>3
<1> QED BY Zenon, <1>3, <1>4, <1>5, FitsFacts

\* write_log(): one block goes to the log.
LEMMA WriteLogStep ==
  ASSUME LogInv, WriteLog
  PROVE  LogInv'
<1>1. /\ step = "write_log" /\ dlog' = [dlog EXCEPT ![tail] = cache[lh[tail]]]
      /\ UNCHANGED <<home, dhead, bufVars, logVars, opVars, crashes, panicked>>
      /\ \/ tail < Len(lh) /\ tail' = tail + 1 /\ step' = "write_log"
         \/ ~(tail < Len(lh)) /\ tail' = 1 /\ step' = "write_head"
  BY Zenon DEF WriteLog
<1>2. /\ dhead = <<>> /\ committing /\ tail <= Len(lh) /\ LoggedUpTo(tail) /\ TypeOK
  BY Zenon, <1>1 DEF LogInv, StepInv
<1>3. lh' = lh /\ dhead' = dhead /\ outstanding' = outstanding /\ committing' = committing
      /\ cache' = cache /\ dirty' = dirty /\ home' = home
  BY Zenon, <1>1 DEF logVars, bufVars
<1>4. lh \in Seq(Blocks) /\ Len(lh) \in Nat /\ tail \in Nat \ {0} BY <1>2, Types
<1>5. Fits(Len(lh)) /\ Len(lh) < LOGSIZE /\ Fits(Len(dhead)) BY Zenon, LogFits
<1>6. /\ OutInv' /\ BufInv' /\ SpaceInv' /\ WakerInv' /\ Active' = {}
  BY Zenon, <1>1, <1>3, <1>4, <1>5, RunStep
<1>7. dlog \in [1..LOGSIZE -> Vals] /\ cache \in [Blocks -> Vals] BY Zenon, <1>2 DEF TypeOK
<1>8. tail \in 1..Len(lh) /\ tail \in 1..LOGSIZE /\ lh[tail] \in Blocks
  BY <1>2, <1>4, <1>5, LogAssumption
<1>9. dlog' \in [1..LOGSIZE -> Vals] /\ dlog'[tail] = cache[lh[tail]]
      /\ \A i \in 1..LOGSIZE : i # tail => dlog'[i] = dlog[i]
  BY <1>1, <1>7, <1>8
<1>10. \A i \in 1..Len(lh) : i \in 1..LOGSIZE BY <1>4, <1>5, LogAssumption
<1>11. TypeOK'
  <2>1. tail' \in Nat \ {0} /\ step' \in Steps BY <1>1, <1>4 DEF Steps
  <2> QED BY Zenon, <1>1, <1>2, <1>3, <1>9, <2>1 DEF TypeOK, opVars
<1>12. Distinct(lh)' /\ Distinct(dhead)' BY Zenon, <1>3 DEF LogInv, Distinct
<1>13. EvictionSafe' BY Zenon, <1>1, <1>3 DEF LogInv, EvictionSafe, opVars
<1>14. DirtyInv' BY Zenon, <1>1, <1>3 DEF LogInv, DirtyInv
<1>15. StepInv'
  <2>1. ASSUME NEW i \in 1..Len(lh), i < tail \/ i = tail PROVE dlog'[i] = cache[lh[i]]
    <3>1. i = tail => dlog'[i] = cache[lh[i]] BY Zenon, <1>9
    <3>2. i < tail => dlog[i] = cache[lh[i]] BY Zenon, <1>2 DEF LoggedUpTo
    <3> QED BY Zenon, <2>1, <3>1, <3>2, <1>9, <1>10
  <2>2. CASE tail < Len(lh)
    <3>1. step' = "write_log" /\ tail' = tail + 1 BY Zenon, <1>1, <2>2
    <3>2. tail' <= Len(lh) /\ \A i \in 1..Len(lh) : i < tail' => i < tail \/ i = tail
      BY <1>4, <2>2, <3>1
    <3>3. LoggedUpTo(tail)' BY Zenon, <1>3, <2>1, <3>2 DEF LoggedUpTo
    <3> QED BY Zenon, <1>2, <1>3, <1>6, <3>1, <3>2, <3>3 DEF StepInv, Recovering
  <2>3. CASE ~(tail < Len(lh))
    <3>1. step' = "write_head" /\ tail' = 1 BY Zenon, <1>1, <2>3
    <3>2. \A i \in 1..Len(lh) : i < tail \/ i = tail BY <1>2, <1>4, <2>3
    <3>3. LoggedUpTo(Len(lh) + 1)' BY Zenon, <1>3, <2>1, <3>2 DEF LoggedUpTo
    <3> QED BY Zenon, <1>2, <1>3, <1>6, <3>1, <3>3 DEF StepInv, Recovering
  <2> QED BY Zenon, <2>2, <2>3
<1> QED BY Zenon, <1>6, <1>11, <1>12, <1>13, <1>14, <1>15 DEF LogInv

\* write_head(), "the real commit": the header names the blocks of the log.
LEMMA WriteHeadStep ==
  ASSUME LogInv, WriteHead
  PROVE  LogInv'
<1>1. /\ step = "write_head" /\ dhead' = lh /\ step' = "install" /\ tail' = tail
      /\ UNCHANGED <<home, dlog, bufVars, logVars, opVars, crashes, panicked>>
  BY Zenon DEF WriteHead
<1>2. tail = 1 /\ committing /\ LoggedUpTo(Len(lh) + 1) /\ TypeOK
  BY Zenon, <1>1 DEF LogInv, StepInv
<1>3. lh' = lh /\ outstanding' = outstanding /\ committing' = committing
      /\ cache' = cache /\ dirty' = dirty
  BY Zenon, <1>1 DEF logVars, bufVars
<1>4. lh \in Seq(Blocks) /\ Len(lh) \in Nat BY <1>2, Types
<1>5. Fits(Len(lh)) BY Zenon, LogFits
<1>6. OutInv' /\ BufInv' /\ SpaceInv' /\ WakerInv' /\ Active' = {}
  BY Zenon, <1>1, <1>3, <1>4, <1>5, RunStep
<1>7. TypeOK'
  <2>1. step' \in Steps BY <1>1 DEF Steps
  <2> QED BY Zenon, <1>1, <1>2, <1>3, <1>4, <2>1 DEF TypeOK, opVars
<1>8. Distinct(lh)' /\ Distinct(dhead)' BY Zenon, <1>1, <1>3 DEF LogInv, Distinct
<1>9. EvictionSafe' BY Zenon, <1>1, <1>3 DEF LogInv, EvictionSafe, opVars
<1>10. tail <= Len(lh) + 1 /\ \A i \in 1..Len(lh) : i >= tail /\ ~(i < tail) BY <1>2, <1>4
<1>11. DirtyInv' BY Zenon, <1>1, <1>3, <1>10 DEF LogInv, DirtyInv
<1>12. InstalledUpTo(tail)' /\ LoggedUpTo(Len(lh) + 1)'
  BY Zenon, <1>1, <1>2, <1>3, <1>10 DEF InstalledUpTo, LoggedUpTo
<1>13. StepInv' BY Zenon, <1>1, <1>2, <1>3, <1>6, <1>10, <1>12 DEF StepInv, Recovering
<1> QED BY Zenon, <1>6, <1>7, <1>8, <1>9, <1>11, <1>13 DEF LogInv

\* install_trans(), one block, or the end of its loop.
LEMMA InstallStep ==
  ASSUME LogInv, Install
  PROVE  LogInv'
<1>1. /\ step = "install" /\ UNCHANGED <<dlog, dhead, logVars, opVars, crashes, panicked>>
      /\ \/ /\ tail <= Len(lh) /\ home' = [home EXCEPT ![lh[tail]] = dlog[tail]]
            /\ cache' = [cache EXCEPT ![lh[tail]] = dlog[tail]]
            /\ dirty' = dirty \ {lh[tail]} /\ tail' = tail + 1 /\ step' = "install"
         \/ ~(tail <= Len(lh)) /\ step' = "erase" /\ UNCHANGED <<home, bufVars, tail>>
  BY Zenon DEF Install, MoreToInstall
<1>2. dhead = lh /\ tail <= Len(lh) + 1 /\ InstalledUpTo(tail) /\ TypeOK
      /\ (committing => LoggedUpTo(Len(lh) + 1)) /\ (~committing => cache = home)
  BY Zenon, <1>1 DEF LogInv, StepInv, Recovering
<1>3. lh' = lh /\ dhead' = dhead /\ outstanding' = outstanding /\ committing' = committing
      /\ dlog' = dlog
  BY Zenon, <1>1 DEF logVars
<1>4. lh \in Seq(Blocks) /\ Len(lh) \in Nat /\ tail \in Nat \ {0} BY <1>2, Types
<1>5. Fits(Len(lh)) /\ Len(lh) < LOGSIZE /\ Fits(Len(dhead)) BY Zenon, LogFits
<1>6. /\ OutInv' /\ BufInv' /\ SpaceInv' /\ WakerInv' /\ Active' = {}
      /\ \A q \in Procs : buf[q] = NoBlock
  BY Zenon, <1>1, <1>3, <1>4, <1>5, RunStep
<1>7. Distinct(lh) BY Zenon DEF LogInv
<1>8. Distinct(lh)' /\ Distinct(dhead)' BY Zenon, <1>3 DEF LogInv, Distinct
<1>9. \A d \in Blocks \ dirty : cache[d] = home[d]
  BY Zenon, <1>6, LogAssumption DEF LogInv, EvictionSafe
<1>10. \A d \in dirty : \E i \in 1..Len(lh) : lh[i] = d /\ i >= tail
  BY Zenon, <1>1 DEF LogInv, DirtyInv
<1>11. CASE tail <= Len(lh)
  <2> DEFINE b == lh[tail]
  <2>1. /\ home' = [home EXCEPT ![b] = dlog[tail]] /\ cache' = [cache EXCEPT ![b] = dlog[tail]]
        /\ dirty' = dirty \ {b} /\ tail' = tail + 1 /\ step' = "install"
    BY Zenon, <1>1, <1>11
  <2>2. /\ dlog \in [1..LOGSIZE -> Vals] /\ cache \in [Blocks -> Vals] /\ home \in [Blocks -> Vals]
        /\ dirty \subseteq Blocks
    BY Zenon, <1>2 DEF TypeOK
  <2>3. tail \in 1..Len(lh) /\ b \in Blocks /\ dlog[tail] \in Vals
    BY <1>4, <1>5, <1>11, <2>2, LogAssumption
  <2>4. /\ home' \in [Blocks -> Vals] /\ cache' \in [Blocks -> Vals]
        /\ home'[b] = dlog[tail] /\ cache'[b] = dlog[tail]
        /\ \A d \in Blocks : d # b => home'[d] = home[d] /\ cache'[d] = cache[d]
    BY <2>1, <2>2, <2>3
  <2>5. \A i \in 1..Len(lh) : lh[i] \in Blocks /\ (i # tail => lh[i] # b)
    BY <1>4, <1>7, <2>3 DEF Distinct
  <2>6. \A i \in 1..Len(lh) : /\ i < tail' <=> i < tail \/ i = tail
                              /\ i >= tail' <=> i >= tail /\ i # tail
    BY <1>4, <2>1
  <2>7. TypeOK'
    <3>1. tail' \in Nat \ {0} BY <1>4, <2>1
    <3>2. dirty' \subseteq Blocks BY Zenon, <2>1, <2>2
    <3>3. /\ pc' = pc /\ buf' = buf /\ wrote' = wrote /\ calls' = calls /\ step' = step
          /\ crashes' = crashes /\ panicked' = panicked
      BY Zenon, <1>1, <2>1 DEF opVars
    <3> QED BY Zenon, <1>2, <1>3, <2>4, <3>1, <3>2, <3>3 DEF TypeOK
  <2>8. EvictionSafe'
    <3>1. ASSUME NEW d \in Blocks \ dirty' PROVE cache'[d] = home'[d]
      <4>1. CASE d = b BY Zenon, <4>1, <2>4
      <4>2. CASE d # b
        <5>1. d \in Blocks \ dirty BY Zenon, <4>2, <2>1
        <5> QED BY Zenon, <4>2, <5>1, <1>9, <2>4
      <4> QED BY Zenon, <4>1, <4>2
    <3> QED BY Zenon, <3>1 DEF EvictionSafe
  <2>9. DirtyInv'
    <3>1. ASSUME NEW d \in dirty' PROVE \E i \in 1..Len(lh) : lh[i] = d /\ i >= tail'
      <4>1. d \in dirty /\ d # b BY Zenon, <2>1
      <4>2. PICK i \in 1..Len(lh) : lh[i] = d /\ i >= tail BY Zenon, <4>1, <1>10
      <4>3. i # tail BY Zenon, <4>1, <4>2
      <4> QED BY Zenon, <4>2, <4>3, <2>6
    <3>2. lh' = lh /\ step' = "install" BY Zenon, <1>3, <2>1
    <3> QED BY Zenon, <3>1, <3>2 DEF DirtyInv
  <2>10. InstalledUpTo(tail)'
    <3>1. ASSUME NEW i \in 1..Len(lh), i < tail' PROVE home'[lh[i]] = dlog[i]
      <4>1. CASE i = tail BY Zenon, <4>1, <2>4
      <4>2. CASE i # tail
        <5>1. i < tail /\ lh[i] \in Blocks /\ lh[i] # b BY Zenon, <4>2, <3>1, <2>5, <2>6
        <5>2. home[lh[i]] = dlog[i] BY Zenon, <5>1, <1>2 DEF InstalledUpTo
        <5> QED BY Zenon, <5>1, <5>2, <2>4
      <4> QED BY Zenon, <4>1, <4>2
    <3> QED BY Zenon, <3>1, <1>3 DEF InstalledUpTo
  <2>11. ASSUME committing PROVE LoggedUpTo(Len(lh) + 1)'
    <3>1. ASSUME NEW i \in 1..Len(lh), i < Len(lh) + 1 PROVE dlog[i] = cache'[lh[i]]
      <4>1. CASE i = tail BY Zenon, <4>1, <2>4
      <4>2. CASE i # tail
        <5>1. lh[i] \in Blocks /\ lh[i] # b BY Zenon, <4>2, <2>5
        <5>2. dlog[i] = cache[lh[i]] BY Zenon, <1>2, <2>11, <3>1 DEF LoggedUpTo
        <5> QED BY Zenon, <5>1, <5>2, <2>4
      <4> QED BY Zenon, <4>1, <4>2
    <3> QED BY Zenon, <3>1, <1>3 DEF LoggedUpTo
  <2>12. ~committing => cache' = home' BY Zenon, <1>2, <2>1
  <2>13. tail' <= Len(lh) + 1 BY <1>4, <1>11, <2>1
  <2>14. StepInv'
    BY Zenon, <1>2, <1>3, <1>6, <2>1, <2>10, <2>11, <2>12, <2>13 DEF StepInv, Recovering
  <2> QED BY Zenon, <1>6, <1>8, <2>7, <2>8, <2>9, <2>14 DEF LogInv
<1>12. CASE ~(tail <= Len(lh))
  <2>1. step' = "erase" /\ home' = home /\ cache' = cache /\ dirty' = dirty /\ tail' = tail
    BY Zenon, <1>1, <1>12 DEF bufVars
  <2>2. \A i \in 1..Len(lh) : i < tail /\ ~(i >= tail) BY <1>2, <1>4, <1>12
  <2>3. dirty = {} BY Zenon, <1>10, <2>2
  <2>4. TypeOK'
    <3>1. step' \in Steps BY <2>1 DEF Steps
    <3> QED BY Zenon, <1>1, <1>2, <1>3, <2>1, <3>1 DEF TypeOK, opVars
  <2>5. EvictionSafe' BY Zenon, <1>9, <2>1 DEF EvictionSafe
  <2>6. DirtyInv' BY Zenon, <2>1, <2>3 DEF DirtyInv
  <2>7. InstalledUpTo(Len(lh) + 1)' BY Zenon, <1>2, <1>3, <2>1, <2>2 DEF InstalledUpTo
  <2>8. StepInv' BY Zenon, <1>2, <1>3, <1>6, <2>1, <2>7 DEF StepInv, Recovering
  <2> QED BY Zenon, <1>6, <1>8, <2>4, <2>5, <2>6, <2>8 DEF LogInv
<1> QED BY Zenon, <1>11, <1>12

\* Erasing the header ends the transaction, and recovery.
LEMMA EraseStep ==
  ASSUME LogInv, Erase
  PROVE  LogInv'
<1>1. /\ step = "erase" /\ lh' = <<>> /\ dhead' = <<>> /\ tail' = 1
      /\ step' = (IF committing THEN "done" ELSE "none")
      /\ UNCHANGED <<home, dlog, bufVars, outstanding, committing, opVars, crashes, panicked>>
  BY Zenon DEF Erase
<1>2. dirty = {} /\ TypeOK BY Zenon, <1>1 DEF LogInv, DirtyInv
<1>3. Len(lh') = 0 /\ lh' \in Seq(Blocks) /\ Fits(Len(lh')) /\ Len(dhead') = 0
  <2>1. Len(lh') = 0 /\ Len(dhead') = 0 /\ lh' \in Seq(Blocks) BY <1>1
  <2>2. Len(lh) \in Nat /\ 0 <= Len(lh) BY <1>2, Types
  <2>3. Fits(0) BY <2>2, LogFits, FitsFacts
  <2> QED BY Zenon, <2>1, <2>3
<1>4. OutInv' /\ BufInv' /\ SpaceInv' /\ WakerInv' /\ Active' = {}
  BY Zenon, <1>1, <1>3, RunStep
<1>5. TypeOK'
  <2>1. step' \in Steps /\ tail' \in Nat \ {0} BY <1>1 DEF Steps
  <2> QED BY Zenon, <1>1, <1>2, <1>3, <2>1 DEF TypeOK, opVars, bufVars
<1>6. Distinct(lh)' /\ Distinct(dhead)' BY <1>1 DEF Distinct
<1>7. EvictionSafe' BY Zenon, <1>1 DEF LogInv, EvictionSafe, opVars, bufVars
<1>8. DirtyInv' BY Zenon, <1>1, <1>2 DEF DirtyInv, bufVars
<1>9. StepInv' BY Zenon, <1>1, <1>4 DEF StepInv, Recovering
<1> QED BY Zenon, <1>4, <1>5, <1>6, <1>7, <1>8, <1>9 DEF LogInv

\* The end of end_op(): the sleepers are woken.
LEMMA DoneStep ==
  ASSUME LogInv, Done
  PROVE  LogInv'
<1>1. /\ step = "done" /\ committing' = FALSE /\ step' = "none"
      /\ pc' = Awake([q \in Procs |-> IF pc[q] = "commit" THEN "idle" ELSE pc[q]])
      /\ UNCHANGED <<diskVars, bufVars, lh, outstanding, buf, wrote, calls, tail, crashes, panicked>>
  BY Zenon DEF Done
<1>2. lh = <<>> /\ dhead = <<>> /\ Active = {} /\ dirty = {} /\ TypeOK
  BY Zenon, <1>1 DEF LogInv, StepInv, DirtyInv
<1>3. pc \in [Procs -> Places] BY <1>2, Types
<1>4. /\ pc' \in [Procs -> Places] /\ Active' = {}
      /\ \A q \in Procs : pc'[q] # "asleep" /\ (pc'[q] = "append" <=> pc[q] = "append")
  BY <1>1, <1>2, <1>3 DEF Active, Awake, Places
<1>5. TypeOK'
  <2>1. step' \in Steps BY <1>1 DEF Steps
  <2> QED BY Zenon, <1>1, <1>2, <1>4, <2>1 DEF TypeOK, diskVars, bufVars
<1>6. OutInv' BY Zenon, <1>1, <1>2, <1>4 DEF LogInv, OutInv
<1>7. BufInv' BY Zenon, <1>1, <1>4 DEF LogInv, BufInv
<1>8. DirtyInv' BY Zenon, <1>1, <1>2 DEF DirtyInv, bufVars
<1>9. StepInv' BY Zenon, <1>1, <1>2 DEF StepInv, Recovering, diskVars
<1>10. SpaceInv'
  <2>1. Unspent' \subseteq Unspent
    <3>1. Unspent' \subseteq Active' \X (1..OpBlocks) BY Zenon DEF Unspent
    <3> QED BY <1>4, <3>1
  <2> QED BY Zenon, <1>1, <2>1, SpaceKept DEF diskVars
<1>11. WakerInv' BY Zenon, <1>4 DEF WakerInv
<1>12. Distinct(lh)' /\ Distinct(dhead)' /\ EvictionSafe'
  BY Zenon, <1>1 DEF LogInv, Distinct, EvictionSafe, diskVars, bufVars
<1> QED BY Zenon, <1>5, <1>6, <1>7, <1>8, <1>9, <1>10, <1>11, <1>12 DEF LogInv

\* read_head(): recovery starts from what the disk says.
LEMMA ReadHeadStep ==
  ASSUME LogInv, ReadHead
  PROVE  LogInv'
<1>1. /\ step = "read_head" /\ lh' = dhead /\ step' = "install" /\ tail' = 1
      /\ UNCHANGED <<diskVars, bufVars, outstanding, committing, opVars, crashes, panicked>>
  BY Zenon DEF ReadHead
<1>2. ~committing /\ dirty = {} /\ TypeOK /\ cache = home
  BY Zenon, <1>1 DEF LogInv, StepInv, DirtyInv, Recovering
<1>3. dhead \in Seq(Blocks) /\ Len(dhead) \in Nat BY <1>2, Types
<1>4. dhead' = dhead /\ home' = home /\ dlog' = dlog /\ cache' = cache /\ dirty' = dirty
  BY Zenon, <1>1 DEF diskVars, bufVars
<1>5. Fits(Len(dhead)) BY Zenon, LogFits
<1>6. OutInv' /\ BufInv' /\ SpaceInv' /\ WakerInv' /\ Active' = {}
  BY Zenon, <1>1, <1>3, <1>4, <1>5, RunStep
<1>7. TypeOK'
  <2>1. step' \in Steps /\ tail' \in Nat \ {0} BY <1>1 DEF Steps
  <2> QED BY Zenon, <1>1, <1>2, <1>3, <1>4, <2>1 DEF TypeOK, opVars
<1>8. Distinct(lh)' /\ Distinct(dhead)' BY Zenon, <1>1, <1>4 DEF LogInv, Distinct
<1>9. EvictionSafe' BY Zenon, <1>1, <1>4 DEF LogInv, EvictionSafe, opVars
<1>10. DirtyInv' BY Zenon, <1>1, <1>2, <1>4 DEF DirtyInv
<1>11. tail' <= Len(lh') + 1 /\ \A i \in 1..Len(lh') : ~(i < tail') BY <1>1, <1>3
<1>12. InstalledUpTo(tail)' BY Zenon, <1>11 DEF InstalledUpTo
<1>13. StepInv' BY Zenon, <1>1, <1>2, <1>4, <1>6, <1>11, <1>12 DEF StepInv, Recovering
<1> QED BY Zenon, <1>6, <1>7, <1>8, <1>9, <1>10, <1>13 DEF LogInv

\* A machine that starts, for the first time or after a crash, finds nothing but
\* its disk.
Started ==
  /\ home \in [Blocks -> Vals] /\ cache = home /\ dirty = {} /\ dlog \in [1..LOGSIZE -> Vals]
  /\ dhead \in Seq(Blocks) /\ Distinct(dhead) /\ Fits(Len(dhead))
  /\ lh = <<>> /\ outstanding = 0 /\ committing = FALSE
  /\ pc = [p \in Procs |-> "idle"] /\ buf = [p \in Procs |-> NoBlock]
  /\ wrote = [p \in Procs |-> {}] /\ calls = [p \in Procs |-> 0]
  /\ step = "read_head" /\ tail = 1 /\ crashes \in 0..MaxCrashes /\ panicked = "no"

\* LogInv holds in such a state.
LEMMA StartUp == Started => LogInv
<1> SUFFICES ASSUME Started PROVE LogInv OBVIOUS
<1>a. lh = <<>> /\ outstanding = 0 /\ committing = FALSE /\ step = "read_head" /\ tail = 1
  BY Zenon DEF Started
<1>b. /\ pc = [p \in Procs |-> "idle"] /\ buf = [p \in Procs |-> NoBlock]
      /\ wrote = [p \in Procs |-> {}] /\ calls = [p \in Procs |-> 0]
  BY Zenon DEF Started
<1>1. Active = {} /\ \A q \in Procs : pc[q] = "idle" /\ buf[q] = NoBlock BY <1>b DEF Active
<1>2. TypeOK
  <2>0. lh \in Seq(Blocks) BY <1>a
  <2>1. pc \in [Procs -> Places] /\ wrote \in [Procs -> SUBSET Blocks] BY <1>b DEF Places
  <2>4. committing \in BOOLEAN /\ step \in Steps BY Zenon, <1>a DEF Steps
  <2>5. tail \in Nat \ {0} /\ outstanding \in Nat BY <1>a
  <2>2. buf \in [Procs -> Blocks \cup {NoBlock}] BY <1>b
  <2>3. calls \in [Procs -> 0..MaxWrites] BY <1>b, LogAssumption
  <2> QED BY Zenon, <2>0, <2>1, <2>2, <2>3, <2>4, <2>5 DEF TypeOK, Started
<1>3. OutInv BY Zenon, <1>1, <1>a, FS_EmptySet DEF OutInv
<1>4. BufInv BY Zenon, <1>1 DEF BufInv
<1>5. DirtyInv /\ EvictionSafe BY Zenon DEF DirtyInv, EvictionSafe, Started
<1>6. StepInv BY Zenon, <1>1, <1>a DEF StepInv, Recovering, Started
<1>7. SpaceInv
  <2>1. Cardinality(Unspent) = 0 BY <1>1, Sets, Finite
  <2>2. Len(lh) = 0 /\ Len(lh) + Cardinality(Unspent) = 0 BY <1>a, <2>1
  <2>3. Fits(0) BY LogAssumption DEF Fits
  <2> QED BY Zenon, <2>2, <2>3 DEF SpaceInv, Started
<1>8. WakerInv BY <1>1 DEF WakerInv
<1>9. Distinct(lh) BY <1>a DEF Distinct
<1> QED BY Zenon, <1>2, <1>3, <1>4, <1>5, <1>6, <1>7, <1>8, <1>9 DEF LogInv, Started

\* The machine is shut down cleanly before it starts for the first time.
LEMMA InitLogInv == Init => LogInv
<1> SUFFICES ASSUME Init PROVE LogInv OBVIOUS
<1>1. PICK v \in Vals : dlog = [i \in 1..LOGSIZE |-> v] BY Zenon DEF Init
<1>2. dlog \in [1..LOGSIZE -> Vals] BY <1>1
<1>3. dhead = <<>> /\ crashes = 0 BY Zenon DEF Init
<1>4. dhead \in Seq(Blocks) /\ Distinct(dhead) /\ Fits(Len(dhead)) /\ crashes \in 0..MaxCrashes
  BY <1>3, LogAssumption DEF Distinct, Fits
<1>5. Started BY Zenon, <1>2, <1>4 DEF Init, Started
<1> QED BY Zenon, <1>5, StartUp

\* A crash leaves the disk as it is.
LEMMA CrashStep ==
  ASSUME LogInv, Crash
  PROVE  LogInv'
<1>1. /\ cache' = home /\ dirty' = {} /\ lh' = <<>> /\ outstanding' = 0 /\ committing' = FALSE
      /\ pc' = [p \in Procs |-> "idle"] /\ buf' = [p \in Procs |-> NoBlock]
      /\ wrote' = [p \in Procs |-> {}] /\ calls' = [p \in Procs |-> 0]
      /\ step' = "read_head" /\ tail' = 1 /\ panicked' = "no"
      /\ home' = home /\ dlog' = dlog /\ dhead' = dhead
  BY Zenon DEF Crash, diskVars
<1>2. /\ home \in [Blocks -> Vals] /\ dlog \in [1..LOGSIZE -> Vals] /\ dhead \in Seq(Blocks)
      /\ Distinct(dhead) /\ crashes \in 0..MaxCrashes
  BY Zenon DEF LogInv, TypeOK
<1>3. Fits(Len(dhead)) BY Zenon, LogFits
<1>4. crashes' \in 0..MaxCrashes BY <1>2, LogAssumption DEF Crash
<1>5. Started' BY Zenon, <1>1, <1>2, <1>3, <1>4 DEF Started, Distinct, Fits
<1> QED BY <1>5, StartUp, PTL

-----------------------------------------------------------------------------
(* The invariant, and what the callers of the log rely on *)

\* Every step of the log preserves LogInv.
LEMMA StepLogInv ==
  ASSUME LogInv, [Next]_vars
  PROVE  LogInv'
<1>1. CASE UNCHANGED vars
  <2>1. /\ UNCHANGED <<diskVars, bufVars, logVars, opVars, runVars, crashes, panicked>>
    BY Zenon, <1>1 DEF vars
  <2>2. TypeOK'
    BY Zenon, <2>1 DEF LogInv, TypeOK, diskVars, bufVars, logVars, opVars, runVars
  <2>3. Active' = Active /\ pc' = pc BY Zenon, <2>1 DEF Active, opVars
  <2>4. WakerInv' BY Zenon, <2>1, <2>3 DEF LogInv, WakerInv, logVars
  <2>5. pc' \in [Procs -> Places] BY Zenon, <2>2 DEF TypeOK
  <2> QED BY Zenon, <2>1, <2>3, <2>4, <2>5, PlacesStep DEF opVars
<1>2. ASSUME NEW p \in Procs, BeginOp(p) \/ Modify(p) \/ LogWrite(p) \/ EndOp(p)
      PROVE  LogInv'
  BY Zenon, <1>2, SleepStep, BeginStep, ModifyStep, LogWriteStep, EndOpStep
<1>3. CASE WriteLog \/ WriteHead \/ Install \/ Erase \/ Done \/ ReadHead \/ Crash
  BY Zenon, <1>3, WriteLogStep, WriteHeadStep, InstallStep, EraseStep, DoneStep, ReadHeadStep,
     CrashStep
<1> QED BY Zenon, <1>1, <1>2, <1>3 DEF Next

\* LogInv holds of every reachable state: at each point of a commit or of a
\* recovery the disk, the cache and the log agree as it says, and what begin_op()
\* has reserved is there.
THEOREM LogInvariant == Spec => []LogInv
BY InitLogInv, StepLogInv, PTL DEF Spec

\* No step panics: log_write() finds room in the log, and end_op() no commit.
LEMMA NoPanicStep ==
  ASSUME LogInv, NoPanic, [Next]_vars
  PROVE  NoPanic'
<1>1. ASSUME NEW p \in Procs, Modify(p) PROVE NoPanic'
  <2>1. p \in Active BY Zenon, <1>1 DEF Active, Modify
  <2>2. outstanding \in Nat \ {0} /\ TypeOK BY Zenon, <2>1, InCall
  <2>3. Len(lh) \in Nat /\ Fits(Len(lh)) BY <2>2, Types, LogFits
  <2>4. Len(lh) < LOGSIZE /\ Len(lh) < size - 1 BY <2>3, FitsFacts
  <2>5. ~(Len(lh) >= LOGSIZE) /\ ~(Len(lh) >= size - 1) /\ ~(outstanding < 1)
    BY <2>2, <2>3, <2>4, LogAssumption
  <2> QED BY Zenon, <1>1, <2>5 DEF Modify, NoPanic
<1>2. ASSUME NEW p \in Procs, EndOp(p) PROVE NoPanic'
  <2>1. p \in Active BY Zenon, <1>2 DEF Active, EndOp
  <2>2. ~committing BY Zenon, <2>1, InCall
  <2> QED BY Zenon, <1>2, <2>2 DEF EndOp, NoPanic
<1>3. ASSUME NEW p \in Procs, BeginOp(p) \/ LogWrite(p) PROVE NoPanic'
  BY Zenon, <1>3 DEF BeginOp, LogWrite, NoPanic
<1>4. CASE WriteLog \/ WriteHead \/ Install \/ Erase \/ Done \/ ReadHead
  BY Zenon, <1>4 DEF WriteLog, WriteHead, Install, Erase, Done, ReadHead, NoPanic
<1>5. CASE Crash BY Zenon, <1>5 DEF Crash, NoPanic
<1>6. CASE UNCHANGED vars BY Zenon, <1>6 DEF vars, NoPanic
<1> QED BY Zenon, <1>1, <1>2, <1>3, <1>4, <1>5, <1>6 DEF Next

\* When no call is running, the cache holds what is on the disk.
LEMMA QuietCache ==
  ASSUME LogInv, step = "none", outstanding = 0
  PROVE  home = cache /\ dhead = <<>> /\ lh = <<>>
<1>1. lh = <<>> /\ dhead = <<>> BY Zenon DEF LogInv, StepInv
<1>2. \A d \in dirty : \E i \in 1..Len(lh) : lh[i] = d BY Zenon DEF LogInv, DirtyInv
<1>3. dirty = {} BY <1>1, <1>2
<1>4. IsFiniteSet(Active) /\ Cardinality(Active) = 0 BY Zenon, Sets, Finite DEF LogInv, OutInv
<1>5. Active = {} BY Zenon, <1>4, FS_EmptySet
<1>6. \A q \in Procs : buf[q] = NoBlock BY Zenon, <1>5 DEF LogInv, BufInv, Active
<1>7. \A d \in Blocks : cache[d] = home[d]
  BY Zenon, <1>3, <1>6, LogAssumption DEF LogInv, EvictionSafe
<1>8. home \in [Blocks -> Vals] /\ cache \in [Blocks -> Vals] BY Zenon DEF LogInv, TypeOK
<1>9. home = cache BY <1>7, <1>8
<1> QED BY Zenon, <1>1, <1>9

\* The log is safe for its callers, whatever the number of processes, blocks and
\* crashes: a buffer may be evicted whenever it is neither dirty nor locked,
\* what end_op() returned from is on the disk, log_write() and end_op() never
\* panic, and who sleeps in begin_op() has somebody to wake it.
THEOREM LogSafety == Spec => []LogSafe
<1>1. Init => LogInv /\ NoPanic BY Zenon, InitLogInv DEF Init, NoPanic
<1>2. LogInv /\ NoPanic /\ [Next]_vars => (LogInv /\ NoPanic)'
  BY Zenon, StepLogInv, NoPanicStep
<1>3. LogInv /\ NoPanic => LogSafe
  BY Zenon, QuietCache DEF LogSafe, QuietDurable, LogInv
<1> QED BY <1>1, <1>2, <1>3, PTL DEF Spec

-----------------------------------------------------------------------------
(* The log implements the atomic disk *)

\* The contents that the calls see, as in the refinement mapping.
Current == IF Recovering THEN Recovered ELSE cache

\* What recovery makes of homes h, log blocks d and a header g.
RecoveredFrom(h, d, g) == [b \in Blocks |-> IF Holds(g, b) THEN d[Index(g, b)] ELSE h[b]]

\* With an empty header, recovery leaves the disk as it is.
LEMMA RecoveredEmpty ==
  ASSUME NEW h \in [Blocks -> Vals], NEW d
  PROVE  RecoveredFrom(h, d, <<>>) = h
<1>1. \A b : ~Holds(<<>>, b) BY DEF Holds
<1>2. RecoveredFrom(h, d, <<>>) = [b \in Blocks |-> h[b]] BY Zenon, <1>1 DEF RecoveredFrom
<1> QED BY <1>2

\* A header that names no block twice: recovery takes its i-th block from the
\* i-th block of the log.
LEMMA RecoveredAt ==
  ASSUME NEW h \in Seq(Blocks), Distinct(h), NEW b, Holds(h, b)
  PROVE  Index(h, b) \in 1..Len(h) /\ h[Index(h, b)] = b
BY DEF Holds, Index

\* Nothing that the atomic disk shows changes: begin_op() that sleeps,
\* log_write() under log.lock, and every disk write but that of the header.
LEMMA Stutter ==
  ASSUME Current' = Current, Recovered' = Recovered, Active' = Active
  PROVE  [Atomic!Next]_(Atomic!vars)
BY Zenon DEF Atomic!vars, Current

\* Each step of a call is a step of the atomic disk.
LEMMA CallRefines ==
  ASSUME LogInv, LogInv', NEW p \in Procs, BeginOp(p) \/ Modify(p) \/ LogWrite(p) \/ EndOp(p)
  PROVE  [Atomic!Next]_(Atomic!vars)
<1>1. CASE BeginOp(p)
  <2>1. /\ ~Recovering /\ UNCHANGED <<diskVars, bufVars, committing, runVars>>
    BY Zenon, <1>1 DEF BeginOp
  <2>2. Recovered' = Recovered BY Zenon, <2>1 DEF Recovered, diskVars
  <2>3. cache' = cache /\ ~Recovering' BY Zenon, <2>1 DEF Recovering, bufVars, runVars
  <2>4. Active' = Active \/ Active' = Active \cup {p}
    <3>1. pc \in [Procs -> Places] BY Zenon DEF LogInv, TypeOK
    <3>2. \/ pc[p] = "idle" /\ pc' = [pc EXCEPT ![p] = "asleep"]
          \/ pc' = [pc EXCEPT ![p] = "op"]
      BY Zenon, <1>1 DEF BeginOp
    <3> QED BY <3>1, <3>2 DEF Active
  <2>5. CASE Active' = Active BY Zenon, <2>1, <2>2, <2>3, <2>5, Stutter DEF Current
  <2>6. CASE Active' = Active \cup {p}
    <3>1. Atomic!Begin(p) BY Zenon, <2>1, <2>2, <2>3, <2>6 DEF Atomic!Begin
    <3> QED BY Zenon, <3>1 DEF Atomic!Next
  <2> QED BY Zenon, <2>4, <2>5, <2>6
<1>2. CASE Modify(p)
  <2>1. PICK b \in Blocks, v \in Vals : cache' = [cache EXCEPT ![b] = v] BY Zenon, <1>2 DEF Modify
  <2>2. p \in Active BY Zenon, <1>2 DEF Active, Modify
  <2>3. ~Recovering /\ UNCHANGED <<diskVars, logVars, runVars>> BY Zenon, <1>2, <2>2, InCall DEF Modify
  <2>4. Recovered' = Recovered BY Zenon, <2>3 DEF Recovered, diskVars
  <2>5. ~Recovering' BY Zenon, <2>3 DEF Recovering, logVars, runVars
  <2>6. Active' = Active
    <3>1. pc \in [Procs -> Places] BY Zenon DEF LogInv, TypeOK
    <3>2. pc[p] = "op" /\ pc' = [pc EXCEPT ![p] = "append"] BY Zenon, <1>2 DEF Modify
    <3> QED BY <3>1, <3>2 DEF Active
  <2>7. Atomic!Write(p, b, v) BY Zenon, <2>1, <2>2, <2>3, <2>4, <2>5, <2>6 DEF Atomic!Write
  <2> QED BY Zenon, <2>7 DEF Atomic!Next
<1>3. CASE LogWrite(p)
  <2>1. UNCHANGED <<diskVars, cache, committing, runVars>> BY Zenon, <1>3 DEF LogWrite
  <2>2. Recovered' = Recovered BY Zenon, <2>1 DEF Recovered, diskVars
  <2>3. Current' = Current BY Zenon, <2>1, <2>2 DEF Current, Recovering, runVars
  <2>4. Active' = Active
    <3>1. pc \in [Procs -> Places] BY Zenon DEF LogInv, TypeOK
    <3>2. pc[p] = "append" /\ pc' = [pc EXCEPT ![p] = "op"] BY Zenon, <1>3 DEF LogWrite
    <3> QED BY <3>1, <3>2 DEF Active
  <2> QED BY Zenon, <2>2, <2>3, <2>4, Stutter
<1>4. CASE EndOp(p)
  <2>1. p \in Active BY Zenon, <1>4 DEF Active, EndOp
  <2>2. ~Recovering /\ step = "none" BY Zenon, <2>1, InCall
  <2>3. UNCHANGED <<diskVars, bufVars>> BY Zenon, <1>4 DEF EndOp
  <2>4. ~Recovering' BY Zenon, <1>4, <2>2 DEF EndOp, Recovering
  <2>5. Recovered' = Recovered BY Zenon, <2>3 DEF Recovered, diskVars
  <2>6. Active' = Active \ {p}
    <3>1. pc \in [Procs -> Places] BY Zenon DEF LogInv, TypeOK
    <3>2. \/ pc' = [pc EXCEPT ![p] = "commit"]
          \/ pc' = Awake([pc EXCEPT ![p] = "idle"])
      BY Zenon, <1>4 DEF EndOp
    <3> QED BY <3>1, <3>2 DEF Awake, Active
  <2>7. Atomic!End(p) BY Zenon, <2>1, <2>2, <2>3, <2>4, <2>5, <2>6 DEF Atomic!End, bufVars
  <2> QED BY Zenon, <2>7 DEF Atomic!Next
<1> QED BY Zenon, <1>1, <1>2, <1>3, <1>4

\* write_head() is the commit: at once, the blocks of the log become what a crash
\* would leave.
LEMMA WriteHeadRefines ==
  ASSUME LogInv, LogInv', WriteHead
  PROVE  [Atomic!Next]_(Atomic!vars)
<1>1. /\ step = "write_head" /\ dhead' = lh /\ step' = "install" /\ home' = home /\ dlog' = dlog
      /\ cache' = cache /\ committing' = committing /\ pc' = pc
  BY Zenon DEF WriteHead, bufVars, logVars, opVars
<1>2. committing /\ LoggedUpTo(Len(lh) + 1) /\ Active = {} /\ TypeOK /\ Distinct(lh)
  BY Zenon, <1>1 DEF LogInv, StepInv
<1>3. ~Recovering /\ ~Recovering' BY Zenon, <1>1, <1>2 DEF Recovering
<1>4. Active' = Active BY Zenon, <1>1 DEF Active
<1>5. lh \in Seq(Blocks) /\ Len(lh) \in Nat BY <1>2, Types
<1>6. \A i \in 1..Len(lh) : dlog[i] = cache[lh[i]]
  <2>1. \A i \in 1..Len(lh) : i < Len(lh) + 1 BY <1>5
  <2> QED BY Zenon, <1>2, <2>1 DEF LoggedUpTo
<1>7. ASSUME NEW b \in Blocks
      PROVE  (IF Holds(lh, b) THEN dlog[Index(lh, b)] ELSE home[b]) = cache[b]
  <2>1. CASE Holds(lh, b) BY Zenon, <2>1, <1>2, <1>5, <1>6, RecoveredAt
  <2>2. CASE ~Holds(lh, b)
    <3>1. b \notin dirty BY Zenon, <2>2 DEF LogInv, DirtyInv, Holds
    <3>2. \A q \in Procs : buf[q] = NoBlock BY Zenon, <1>2 DEF LogInv, BufInv, Active
    <3>3. cache[b] = home[b] BY Zenon, <3>1, <3>2, LogAssumption DEF LogInv, EvictionSafe
    <3> QED BY Zenon, <2>2, <3>3
  <2> QED BY Zenon, <2>1, <2>2
<1>8. Recovered' = cache
  <2>1. Recovered' = [b \in Blocks |-> IF Holds(lh, b) THEN dlog[Index(lh, b)] ELSE home[b]]
    BY Zenon, <1>1 DEF Recovered
  <2>2. cache \in [Blocks -> Vals] BY Zenon, <1>2 DEF TypeOK
  <2>3. Recovered' = [b \in Blocks |-> cache[b]] BY Zenon, <2>1, <1>7
  <2> QED BY <2>2, <2>3
<1>9. Atomic!Commit BY Zenon, <1>1, <1>2, <1>3, <1>4, <1>8 DEF Atomic!Commit
<1> QED BY Zenon, <1>9 DEF Atomic!Next

\* The other disk writes of commit() and of recovery change nothing that the
\* calls see or that a crash would leave.
LEMMA DiskWriteRefines ==
  ASSUME LogInv, LogInv', WriteLog \/ Install \/ Erase
  PROVE  [Atomic!Next]_(Atomic!vars)
<1>1. /\ pc' = pc /\ committing' = committing /\ step # "none"
  BY Zenon DEF WriteLog, Install, Erase, opVars, logVars
<1>2. Active' = Active BY Zenon, <1>1 DEF Active
<1>3. /\ TypeOK /\ Distinct(lh) /\ home \in [Blocks -> Vals] /\ home' \in [Blocks -> Vals]
      /\ cache \in [Blocks -> Vals]
  BY Zenon DEF LogInv, TypeOK
<1>4. lh \in Seq(Blocks) /\ Len(lh) \in Nat /\ tail \in Nat \ {0} BY <1>3, Types
<1>5. CASE WriteLog
  <2>1. committing /\ dhead = <<>> /\ dhead' = <<>> /\ cache' = cache /\ home' = home
    BY Zenon, <1>5 DEF WriteLog, LogInv, StepInv, bufVars
  <2>2. Recovered = RecoveredFrom(home, dlog, <<>>) /\ Recovered' = RecoveredFrom(home', dlog', <<>>)
    BY Zenon, <2>1 DEF Recovered, RecoveredFrom
  <2>3. Recovered = home BY Zenon, <2>2, <1>3, RecoveredEmpty
  <2>4. Recovered' = home' BY Zenon, <2>2, <1>3, RecoveredEmpty
  <2>5. Current' = Current BY Zenon, <1>1, <2>1 DEF Current, Recovering
  <2> QED BY Zenon, <1>2, <2>1, <2>3, <2>4, <2>5, Stutter
<1>6. CASE Install
  <2>1. /\ step = "install" /\ step' # "none" /\ dhead' = dhead /\ dlog' = dlog
        /\ \/ /\ tail <= Len(lh) /\ home' = [home EXCEPT ![lh[tail]] = dlog[tail]]
              /\ cache' = [cache EXCEPT ![lh[tail]] = dlog[tail]]
           \/ home' = home /\ cache' = cache
    BY Zenon, <1>6 DEF Install, MoreToInstall, bufVars
  <2>2. dhead = lh /\ (committing => LoggedUpTo(Len(lh) + 1)) BY Zenon, <2>1 DEF LogInv, StepInv
  <2>3. ASSUME NEW b \in Blocks, ~Holds(dhead, b) PROVE home'[b] = home[b]
    <3>1. tail <= Len(lh) => tail \in 1..Len(lh) BY <1>4
    <3>2. tail <= Len(lh) => lh[tail] # b BY Zenon, <3>1, <2>2, <2>3 DEF Holds
    <3> QED BY <1>3, <2>1, <3>2
  <2>4. Recovered' = Recovered
    <3>1. Recovered' = [b \in Blocks |-> IF Holds(dhead, b) THEN dlog[Index(dhead, b)] ELSE home'[b]]
      BY Zenon, <2>1 DEF Recovered
    <3> QED BY Zenon, <2>3, <3>1 DEF Recovered
  <2>5. committing => cache' = cache
    <3>1. ASSUME committing, tail <= Len(lh) PROVE dlog[tail] = cache[lh[tail]] /\ lh[tail] \in Blocks
      <4>1. tail \in 1..Len(lh) /\ tail < Len(lh) + 1 BY <1>4, <3>1
      <4>2. lh[tail] \in Blocks BY <1>4, <4>1
      <4> QED BY Zenon, <2>2, <3>1, <4>1, <4>2 DEF LoggedUpTo
    <3> QED BY <1>3, <2>1, <3>1
  <2>6. Current' = Current BY Zenon, <1>1, <2>1, <2>4, <2>5 DEF Current, Recovering
  <2> QED BY Zenon, <1>2, <2>4, <2>6, Stutter
<1>7. CASE Erase
  <2>1. /\ step = "erase" /\ dhead' = <<>> /\ home' = home /\ cache' = cache
        /\ step' = (IF committing THEN "done" ELSE "none")
    BY Zenon, <1>7 DEF Erase, bufVars
  <2>2. dhead = lh /\ InstalledUpTo(Len(lh) + 1) /\ (~committing => cache = home)
    BY Zenon, <2>1 DEF LogInv, StepInv, Recovering
  <2>3. ASSUME NEW b \in Blocks, Holds(dhead, b) PROVE dlog[Index(dhead, b)] = home[b]
    <3>1. Index(lh, b) \in 1..Len(lh) /\ lh[Index(lh, b)] = b BY Zenon, <1>3, <1>4, <2>2, <2>3, RecoveredAt
    <3>2. Index(lh, b) < Len(lh) + 1 BY <1>4, <3>1
    <3> QED BY Zenon, <2>2, <3>1, <3>2 DEF InstalledUpTo
  <2>4. Recovered = home
    <3>1. Recovered = [b \in Blocks |-> home[b]] BY Zenon, <2>3 DEF Recovered
    <3> QED BY <1>3, <3>1
  <2>5. Recovered' = RecoveredFrom(home', dlog', <<>>) BY Zenon, <2>1 DEF Recovered, RecoveredFrom
  <2>6. Recovered' = home' BY Zenon, <2>5, <1>3, RecoveredEmpty
  <2>7. Current' = Current
    BY Zenon, <1>1, <2>1, <2>2, <2>4, <2>6 DEF Current, Recovering
  <2> QED BY Zenon, <1>2, <2>1, <2>4, <2>6, <2>7, Stutter
<1> QED BY Zenon, <1>5, <1>6, <1>7

\* The steps that write nothing: the end of a commit, the start of a recovery,
\* and the crash, after which the calls see what it left.
LEMMA RestRefines ==
  ASSUME LogInv, LogInv', Done \/ ReadHead \/ Crash
  PROVE  [Atomic!Next]_(Atomic!vars)
<1>1. UNCHANGED diskVars BY Zenon DEF Done, ReadHead, Crash
<1>2. Recovered' = Recovered BY Zenon, <1>1 DEF Recovered, diskVars
<1>3. CASE Done
  <2>1. step = "done" /\ step' = "none" /\ cache' = cache BY Zenon, <1>3 DEF Done, bufVars
  <2>2. committing /\ Active = {} BY Zenon, <2>1 DEF LogInv, StepInv
  <2>3. Current' = Current BY Zenon, <2>1, <2>2 DEF Current, Recovering
  <2>4. Active' = {} BY Zenon, <1>3, <2>2 DEF Active, Done, Awake
  <2> QED BY Zenon, <1>2, <2>2, <2>3, <2>4, Stutter
<1>4. CASE ReadHead
  <2>1. step = "read_head" /\ step' = "install" /\ committing' = committing /\ pc' = pc
        /\ cache' = cache
    BY Zenon, <1>4 DEF ReadHead, opVars, bufVars
  <2>2. Current' = Current BY Zenon, <1>2, <2>1 DEF Current, Recovering
  <2>3. Active' = Active BY Zenon, <2>1 DEF Active
  <2> QED BY Zenon, <1>2, <2>2, <2>3, Stutter
<1>5. CASE Crash
  <2>1. step' = "read_head" /\ committing' = FALSE /\ pc' = [p \in Procs |-> "idle"]
    BY Zenon, <1>5 DEF Crash
  <2>2. Recovering' BY Zenon, <2>1 DEF Recovering
  <2>3. Active' = {} BY <2>1 DEF Active
  <2>4. Atomic!Crash BY Zenon, <1>2, <2>2, <2>3 DEF Atomic!Crash
  <2> QED BY Zenon, <2>4 DEF Atomic!Next
<1> QED BY Zenon, <1>3, <1>4, <1>5

\* Crash safety: log.c implements a disk on which the writes of the calls that
\* commit together reach the disk together or, if the machine crashes, not at
\* all, and never while one of the calls is unfinished.
THEOREM LogIsAtomic == Spec => CrashAtomic
<1>1. Init => Atomic!Init
  <2> SUFFICES ASSUME Init PROVE Atomic!Init OBVIOUS
  <2>1. home \in [Blocks -> Vals] /\ dhead = <<>> /\ cache = home BY Zenon DEF Init
  <2>2. Recovered = RecoveredFrom(home, dlog, <<>>) BY Zenon, <2>1 DEF Recovered, RecoveredFrom
  <2>4. Recovered = home BY Zenon, <2>1, <2>2, RecoveredEmpty
  <2>3. Active = {} BY DEF Init, Active
  <2> QED BY Zenon, <2>1, <2>3, <2>4 DEF Atomic!Init
<1>2. LogInv /\ LogInv' /\ [Next]_vars => [Atomic!Next]_(Atomic!vars)
  <2> SUFFICES ASSUME LogInv, LogInv', [Next]_vars PROVE [Atomic!Next]_(Atomic!vars) OBVIOUS
  <2>1. CASE UNCHANGED vars
    <3>1. UNCHANGED <<diskVars, cache, committing, step, pc>>
      BY Zenon, <2>1 DEF vars, bufVars, logVars, opVars, runVars
    <3>2. Recovered' = Recovered BY Zenon, <3>1 DEF Recovered, diskVars
    <3>3. Current' = Current BY Zenon, <3>1, <3>2 DEF Current, Recovering
    <3>4. Active' = Active BY Zenon, <3>1 DEF Active
    <3> QED BY Zenon, <3>2, <3>3, <3>4, Stutter
  <2>2. CASE Next
    BY Zenon, <2>2, CallRefines, WriteHeadRefines, DiskWriteRefines, RestRefines DEF Next
  <2> QED BY Zenon, <2>1, <2>2
<1> QED BY <1>1, <1>2, LogInvariant, PTL DEF Spec, CrashAtomic, Atomic!Spec
=============================================================================
