----------------------------- MODULE LogProofs -----------------------------
(***************************************************************************)
(* The log for every number of processes, blocks and crashes: commits are  *)
(* alone, the log never overflows if it has LOGSIZE blocks besides its     *)
(* header, and it implements AtomicDisk.                                   *)
(***************************************************************************)
EXTENDS Log, TLAPS, FiniteSetTheorems

NoRepeat(s) == \A i, j \in 1 .. Len(s) : s[i] = s[j] => i = j

(***************************************************************************)
(* The inductive invariant.  Every open operation still has the blocks it  *)
(* has not used reserved; together with the logged ones they fit.          *)
(***************************************************************************)
Reserved == {s \in Op \X (1 .. MAXOPBLOCKS) : s[1] \in Open /\ s[2] > used[s[1]]}

Fits == Len(lh) + Cardinality(Reserved) <= LOGSIZE

Writers ==
  \A p \in Procs : pc[p] = "write" => depth[p] > 0 /\ used[Innermost(p)] < MAXOPBLOCKS

Committer ==
  /\ \A p, q \in Procs : pc[p] = "commit" /\ pc[q] = "commit" => p = q
  /\ committing <=> stage \in {"log", "install", "done"}
  /\ Booting => depth = [p \in Procs |-> 0]

Heads == NoRepeat(lh) /\ NoRepeat(head) /\ Len(head) <= LOGSIZE

\* The blocks that are not logged are on the disk.
CleanOnDisk == \A b \in Blocks : ~InLog(b) => cache[b] = disk[b]

\* The blocks before tail are where this stage puts them.
Installing ==
  /\ head = lh /\ tail <= Len(lh)
  /\ \A i \in 1 .. tail : disk[lh[i]] = logd[i]

Stages ==
  /\ stage = "boot" => lh = <<>> /\ tail = 0 /\ cache = disk
  /\ stage = "recover" => cache = disk /\ Installing
  /\ stage \in {"none", "log", "done"} => head = <<>>
  /\ stage \in {"none", "log", "install"} => CleanOnDisk
  /\ stage = "log" => tail <= Len(lh) /\ \A i \in 1 .. tail : logd[i] = cache[lh[i]]
  /\ stage = "install" => Installing /\ \A i \in 1 .. Len(lh) : logd[i] = cache[lh[i]]
  /\ stage = "done" => lh = <<>> /\ cache = disk

LogInv ==
  /\ TypeOK /\ CommitAlone
  /\ Fits /\ Writers /\ Committer /\ Heads /\ Stages

-----------------------------------------------------------------------------
\* There are finitely many operations and reservations.
LEMMA Finite ==
  ASSUME TypeOK
  PROVE  /\ IsFiniteSet(Op) /\ IsFiniteSet(Open) /\ Cardinality(Open) \in Nat
         /\ IsFiniteSet(Reserved) /\ Cardinality(Reserved) \in Nat
<1>1. IsFiniteSet({1, 2})
  <2>1. IsFiniteSet({1}) /\ {1, 2} = {1} \cup {2}
    BY FS_Singleton
  <2> QED
    BY <2>1, FS_AddElement
<1>2. IsFiniteSet(Op)
  BY <1>1, LogAssumption, FS_Product DEF Op
<1>3. Open \in SUBSET Op
  BY DEF Open
<1>4. IsFiniteSet(Open) /\ Cardinality(Open) \in Nat
  BY <1>2, <1>3, FS_Subset, FS_CardinalityType
<1>5. IsFiniteSet(1 .. MAXOPBLOCKS)
  BY LogAssumption, FS_Interval
<1>6. IsFiniteSet(Op \X (1 .. MAXOPBLOCKS))
  BY <1>2, <1>5, FS_Product, Zenon
<1>7. Reserved \in SUBSET (Op \X (1 .. MAXOPBLOCKS))
  BY DEF Reserved
<1>8. IsFiniteSet(Reserved) /\ Cardinality(Reserved) \in Nat
  BY <1>6, <1>7, FS_Subset, FS_CardinalityType
<1> QED
  BY <1>2, <1>4, <1>8

\* No open operation, no reservation.
LEMMA NothingReserved ==
  ASSUME TypeOK, Open = {}
  PROVE  Reserved = {} /\ Cardinality(Reserved) = 0
<1>1. Reserved = {}
  BY DEF Reserved
<1> QED
  BY <1>1, FS_EmptySet

\* The operations of a set reserve at most MAXOPBLOCKS blocks each.
LEMMA ReservedBound ==
  ASSUME NEW O, IsFiniteSet(O), NEW R \in SUBSET (O \X (1 .. MAXOPBLOCKS))
  PROVE  Cardinality(R) \in Nat /\ Cardinality(R) <= Cardinality(O) * MAXOPBLOCKS
<1>1. IsFiniteSet(1 .. MAXOPBLOCKS) /\ Cardinality(1 .. MAXOPBLOCKS) = MAXOPBLOCKS
  BY LogAssumption, FS_Interval
<1>2. /\ IsFiniteSet(O \X (1 .. MAXOPBLOCKS))
      /\ Cardinality(O \X (1 .. MAXOPBLOCKS)) = Cardinality(O) * MAXOPBLOCKS
  BY <1>1, FS_Product, Zenon
<1> QED
  BY <1>2, FS_Subset, FS_CardinalityType

\* Depth zero everywhere means that nothing is open, and the reverse.
LEMMA OpenEmpty ==
  ASSUME TypeOK
  PROVE  /\ Open = {} <=> \A p \in Procs : depth[p] = 0
         /\ Active = {} <=> Open = {}
<1>1. \A p \in Procs : <<p, 1>> \in Op
  BY DEF Op
<1>0. \A p \in Procs : depth[p] \in 0 .. 2
  BY DEF TypeOK
<1>2. ASSUME NEW p \in Procs, depth[p] # 0 PROVE <<p, 1>> \in Open
  BY <1>0, <1>1, <1>2 DEF Open
<1>3. ASSUME NEW o \in Open PROVE o[1] \in Procs /\ depth[o[1]] # 0
  BY <1>0 DEF Open, Op
<1>4. ASSUME NEW p \in Procs PROVE depth[p] > 0 <=> depth[p] # 0
  BY <1>0
<1>5. Active = {} <=> \A p \in Procs : depth[p] = 0
  BY <1>4 DEF Active
<1> QED
  BY <1>2, <1>3, <1>5, Zenon

-----------------------------------------------------------------------------
\* A list without elements does not repeat any.
LEMMA EmptyList == NoRepeat(<<>>) /\ Len(<<>>) = 0
BY DEF NoRepeat

LEMMA InitInv ==
  ASSUME Init
  PROVE  LogInv
<1> USE DEF Init
<1>1. TypeOK
  <2>1. <<>> \in Seq(Blocks)
    OBVIOUS
  <2>2. used \in [Op -> 0 .. MAXOPBLOCKS]
    BY LogAssumption
  <2>3. depth \in [Procs -> 0 .. 2] /\ pc \in [Procs -> {"run", "write", "asleep", "woken", "commit"}]
    OBVIOUS
  <2> QED
    BY <2>1, <2>2, <2>3, Zenon DEF TypeOK
<1>2. Open = {} /\ Reserved = {} /\ Cardinality(Reserved) = 0 /\ Cardinality(Open) = 0
  BY <1>1, OpenEmpty, NothingReserved, FS_EmptySet, Zenon
<1>3. CommitAlone
  BY <1>2 DEF CommitAlone
<1>4. Fits /\ Heads
  BY <1>2, EmptyList, LogAssumption DEF Fits, Heads
<1>5. Writers /\ Committer
  BY DEF Writers, Committer, Booting
<1>6. Stages
  BY DEF Stages
<1> QED
  BY <1>1, <1>3, <1>4, <1>5, <1>6 DEF LogInv

\* What a step that neither begins, ends nor writes in an operation leaves alone.
LEMMA SameOps ==
  ASSUME UNCHANGED <<depth, used>>
  PROVE  Open' = Open /\ Reserved' = Reserved /\ Active' = Active
BY DEF Open, Reserved, Active, Op

-----------------------------------------------------------------------------
(* The steps of commit and of recovery.                                     *)

\* The logged blocks have their place in the log.
LEMMA LogLength ==
  ASSUME LogInv
  PROVE  /\ Len(lh) \in Nat /\ Len(lh) <= LOGSIZE /\ LOGSIZE \in Nat /\ tail \in Nat
         /\ \A i \in 1 .. Len(lh) : lh[i] \in Blocks /\ i \in 1 .. LOGSIZE
<1>1. Cardinality(Reserved) \in Nat
  BY Finite DEF LogInv
<1>2. Len(lh) \in Nat /\ tail \in Nat /\ lh \in Seq(Blocks)
  BY DEF LogInv, TypeOK
<1>3. Len(lh) <= LOGSIZE
  BY <1>1, <1>2, LogAssumption DEF LogInv, Fits
<1> QED
  BY <1>2, <1>3, LogAssumption

LEMMA WriteLogInv ==
  ASSUME LogInv, write_log
  PROVE  LogInv'
<1> USE DEF LogInv, write_log
<1>1. Open' = Open /\ Reserved' = Reserved
  BY SameOps
<1>2. /\ tail + 1 \in 1 .. Len(lh) /\ tail + 1 \in 1 .. LOGSIZE
      /\ lh[tail + 1] \in Blocks /\ Len(lh) \in Nat
  BY LogLength
<1>3. TypeOK'
  BY <1>2 DEF TypeOK
<1>4. CommitAlone' /\ Fits' /\ Heads'
  BY <1>1 DEF CommitAlone, Fits, Heads
<1>5. Writers' /\ Committer'
  BY DEF Writers, Committer, Booting, Innermost
<1>6. Stages'
  <2>1. ASSUME NEW i \in 1 .. tail' PROVE logd'[i] = cache'[lh'[i]]
    <3>1. CASE i = tail + 1
      BY <1>2, <3>1 DEF TypeOK
    <3>2. CASE i # tail + 1
      <4>1. i \in 1 .. tail
        BY <3>2 DEF TypeOK
      <4> QED
        BY <3>2, <4>1, <1>2 DEF TypeOK, Stages
    <3> QED
      BY <3>1, <3>2
  <2> QED
    BY <1>2, <2>1 DEF Stages, CleanOnDisk, InLog
<1> QED
  BY <1>3, <1>4, <1>5, <1>6

LEMMA WriteHeadInv ==
  ASSUME LogInv, write_head
  PROVE  LogInv'
<1> USE DEF LogInv, write_head
<1>1. Open' = Open /\ Reserved' = Reserved
  BY SameOps
<1>2. TypeOK'
  BY DEF TypeOK
<1>3. CommitAlone' /\ Fits' /\ Heads'
  BY <1>1, LogLength DEF CommitAlone, Fits, Heads
<1>4. Writers' /\ Committer'
  BY DEF Writers, Committer, Booting, Innermost
<1>5. Stages'
  BY LogLength DEF Stages, LogWritten, Installing, CleanOnDisk, InLog
<1> QED
  BY <1>2, <1>3, <1>4, <1>5

LEMMA InstallInv ==
  ASSUME LogInv, install_trans
  PROVE  LogInv'
<1> USE DEF LogInv, install_trans
<1>1. Open' = Open /\ Reserved' = Reserved
  BY SameOps
<1>2. /\ tail + 1 \in 1 .. Len(lh) /\ tail + 1 \in 1 .. LOGSIZE
      /\ lh[tail + 1] \in Blocks /\ Len(lh) \in Nat /\ tail \in Nat /\ tail' = tail + 1
  BY LogLength DEF NextTail
<1>3. logd[tail + 1] \in Values
  BY <1>2 DEF TypeOK
<1>4. TypeOK'
  BY <1>2, <1>3 DEF TypeOK
<1>5. CommitAlone' /\ Fits' /\ Heads'
  BY <1>1 DEF CommitAlone, Fits, Heads
<1>6. Writers' /\ Committer'
  BY DEF Writers, Committer, Booting, Innermost
<1>7. Installing'
  <2>1. Installing
    BY DEF Stages
  <2>2. ASSUME NEW i \in 1 .. tail' PROVE disk'[lh'[i]] = logd'[i]
    <3>1. CASE i = tail + 1
      BY <1>2, <3>1 DEF TypeOK
    <3>2. CASE i # tail + 1
      <4>1. i \in 1 .. tail /\ i \in 1 .. Len(lh)
        BY <1>2, <3>2
      <4>2. lh[i] # lh[tail + 1] /\ lh[i] \in Blocks
        BY <1>2, <3>2, <4>1, LogLength, Zenon DEF Heads, NoRepeat
      <4> QED
        BY <2>1, <4>1, <4>2 DEF TypeOK, Installing
    <3> QED
      BY <3>1, <3>2
  <2> QED
    BY <1>2, <2>1, <2>2 DEF Installing
<1>8. CASE stage = "recover"
  <2>1. cache' = disk'
    BY <1>8 DEF Stages
  <2> QED
    BY <1>4, <1>5, <1>6, <1>7, <1>8, <2>1 DEF Stages
<1>9. CASE stage = "install"
  <2>1. cache' = cache
    BY <1>2, <1>9 DEF Stages, TypeOK
  <2>2. CleanOnDisk'
    <3>1. ASSUME NEW b \in Blocks, ~InLog(b) PROVE disk'[b] = disk[b]
      BY <1>2, <3>1 DEF InLog, TypeOK
    <3> QED
      BY <2>1, <3>1, <1>9 DEF CleanOnDisk, InLog, Stages
  <2> QED
    BY <1>4, <1>5, <1>6, <1>7, <1>9, <2>1, <2>2 DEF Stages
<1> QED
  BY <1>8, <1>9

\* When everything is installed, the cache is what the disk holds.
LEMMA AllInstalled ==
  ASSUME LogInv, stage = "install", tail = Len(lh)
  PROVE  cache = disk
<1> USE DEF LogInv
<1>1. ASSUME NEW b \in Blocks PROVE cache[b] = disk[b]
  <2>1. CASE ~InLog(b)
    BY <2>1 DEF Stages, CleanOnDisk
  <2>2. CASE InLog(b)
    <3>1. PICK i \in 1 .. Len(lh) : lh[i] = b
      BY <2>2 DEF InLog
    <3> QED
      BY <3>1 DEF Stages, Installing
  <2> QED
    BY <2>1, <2>2
<1> QED
  BY <1>1 DEF TypeOK

LEMMA ClearHeadInv ==
  ASSUME LogInv, clear_head
  PROVE  LogInv'
<1> USE DEF LogInv, clear_head
<1>1. Open' = Open /\ Reserved' = Reserved
  BY SameOps
<1>2. TypeOK'
  <2>1. <<>> \in Seq(Blocks)
    OBVIOUS
  <2> QED
    BY <2>1 DEF TypeOK
<1>3. CommitAlone'
  BY <1>1 DEF CommitAlone
<1>4. Fits' /\ Heads'
  BY <1>1, Finite, LogLength, EmptyList DEF Fits, Heads
<1>5. Writers' /\ Committer'
  BY Zenon DEF Writers, Committer, Booting, Innermost
<1>6. Stages'
  <2>1. cache = disk
    BY AllInstalled, Zenon DEF Stages, Installed
  <2> QED
    BY <2>1, Zenon DEF Stages, CleanOnDisk
<1> QED
  BY <1>2, <1>3, <1>4, <1>5, <1>6

LEMMA EndCommitInv ==
  ASSUME LogInv, NEW p \in Procs, end_commit(p)
  PROVE  LogInv'
<1> USE DEF LogInv, end_commit
<1>1. Open' = Open /\ Reserved' = Reserved
  BY SameOps
<1>2. \A q \in Procs : pc'[q] = IF q = p THEN "run" ELSE IF pc[q] = "asleep" THEN "woken" ELSE pc[q]
  BY DEF Woken, TypeOK
<1>3. TypeOK'
  <2>1. pc' \in [Procs -> {"run", "write", "asleep", "woken", "commit"}]
    BY <1>2 DEF TypeOK, Woken
  <2> QED
    BY <2>1, Zenon DEF TypeOK
<1>4. CommitAlone'
  <2>1. \A q \in Procs : pc'[q] # "commit"
    BY <1>2, Zenon DEF Committer
  <2> QED
    BY <1>1, <2>1, Zenon DEF CommitAlone
<1>5. Fits' /\ Heads'
  BY <1>1 DEF Fits, Heads
<1>6. Writers' /\ Committer'
  <2>1. Writers'
    BY <1>2, Zenon DEF Writers, Innermost
  <2>2. Committer'
    BY <1>2, Zenon DEF Committer, Booting
  <2> QED
    BY <2>1, <2>2, Zenon
<1>7. Stages'
  BY Zenon DEF Stages, CleanOnDisk
<1> QED
  BY <1>3, <1>4, <1>5, <1>6, <1>7

LEMMA CrashInv ==
  ASSUME LogInv, Crash
  PROVE  LogInv'
<1> USE DEF LogInv, Crash
<1>1. TypeOK'
  <2>1. <<>> \in Seq(Blocks)
    OBVIOUS
  <2>2. used' \in [Op -> 0 .. MAXOPBLOCKS]
    BY LogAssumption
  <2>3. depth' \in [Procs -> 0 .. 2] /\ pc' \in [Procs -> {"run", "write", "asleep", "woken", "commit"}]
    OBVIOUS
  <2>4. tail' \in Nat /\ outstanding' \in Nat
    BY DEF TypeOK
  <2>5. /\ disk' \in [Blocks -> Values] /\ cache' \in [Blocks -> Values]
        /\ logd' \in [1 .. LOGSIZE -> Values] /\ head' \in Seq(Blocks)
    BY DEF TypeOK
  <2>6. committing' \in BOOLEAN
    BY Zenon
  <2> QED
    BY <2>1, <2>2, <2>3, <2>4, <2>5, <2>6 DEF TypeOK
<1>2. Open' = {}
  <2>1. \A o \in Op : o[1] \in Procs /\ o[2] >= 1
    BY DEF Op
  <2>2. \A o \in Op : depth'[o[1]] = 0
    BY <2>1
  <2> QED
    BY <2>1, <2>2 DEF Open, Op
<1>3. Reserved' = {} /\ Cardinality({}) = 0
  BY <1>2, FS_EmptySet DEF Reserved
<1>4. CommitAlone'
  BY <1>2, <1>3 DEF CommitAlone
<1>5. Fits' /\ Heads'
  BY <1>3, EmptyList, LogAssumption DEF Fits, Heads
<1>6. Writers' /\ Committer'
  BY DEF Writers, Committer, Booting
<1>7. Stages'
  BY Zenon DEF Stages
<1> QED
  BY <1>1, <1>4, <1>5, <1>6, <1>7

LEMMA ReadHeadInv ==
  ASSUME LogInv, read_head
  PROVE  LogInv'
<1> USE DEF LogInv, read_head
<1>1. Open' = Open /\ Reserved' = Reserved
  BY SameOps
<1>2. TypeOK'
  BY DEF TypeOK
<1>3. CommitAlone'
  BY <1>1 DEF CommitAlone
<1>4. Fits' /\ Heads'
  <2>1. Open = {}
    BY OpenEmpty DEF Committer, Booting
  <2>2. Cardinality(Reserved) = 0
    BY <2>1, NothingReserved
  <2> QED
    BY <1>1, <2>2, LogAssumption DEF Fits, Heads, TypeOK
<1>5. Writers' /\ Committer'
  BY DEF Writers, Committer, Booting, Innermost
<1>6. Stages'
  BY DEF Stages, Installing, TypeOK
<1> QED
  BY <1>2, <1>3, <1>4, <1>5, <1>6

-----------------------------------------------------------------------------
(* The steps of an operation.                                               *)

\* Only an operation in progress keeps a process from being idle: while there
\* is one, nobody commits or recovers.
LEMMA OpenStage ==
  ASSUME LogInv, NEW p \in Procs, depth[p] > 0
  PROVE  /\ ~committing /\ stage = "none" /\ Innermost(p) \in Open /\ Innermost(p) \in Op
         /\ depth[p] \in 1 .. 2
<1> USE DEF LogInv
<1>1. depth[p] \in 1 .. 2
  BY DEF TypeOK
<1>2. Innermost(p) \in Op /\ Innermost(p) \in Open
  BY <1>1 DEF Innermost, Op, Open
<1>3. ~committing
  BY <1>2 DEF CommitAlone
<1>4. ~Booting
  BY <1>1 DEF Committer
<1> QED
  BY <1>1, <1>2, <1>3, <1>4 DEF Committer, Booting, TypeOK

LEMMA BeginWaits ==
  ASSUME LogInv, NEW p \in Procs, begin_op(p), MustWait
  PROVE  LogInv'
<1> USE DEF LogInv, begin_op
<1>1. Open' = Open /\ Reserved' = Reserved
  BY SameOps
<1>2. \A q \in Procs : pc'[q] = IF q = p THEN "asleep" ELSE pc[q]
  BY DEF TypeOK
<1>3. TypeOK'
  BY Zenon DEF TypeOK
<1>4. CommitAlone'
  BY <1>1, <1>2 DEF CommitAlone
<1>5. Fits' /\ Heads' /\ Stages'
  BY <1>1, Zenon DEF Fits, Heads, Stages, CleanOnDisk, InLog, Installing
<1>6. Writers' /\ Committer'
  BY <1>2, Zenon DEF Writers, Committer, Booting, Innermost
<1> QED
  BY <1>3, <1>4, <1>5, <1>6

LEMMA BeginStarts ==
  ASSUME LogInv, NEW p \in Procs, begin_op(p), ~MustWait
  PROVE  LogInv'
<1> USE DEF LogInv, begin_op
<1> DEFINE o == <<p, depth[p] + 1>>
<1>1. /\ depth[p] \in 0 .. 1 /\ o \in Op /\ o \notin Open
      /\ \A q \in Procs : depth'[q] = IF q = p THEN depth[p] + 1 ELSE depth[q]
  BY DEF TypeOK, Op, Open
<1>2. Open' = Open \cup {o}
  <2>1. ASSUME NEW x \in Op PROVE x \in Open' <=> x \in Open \/ x = o
    <3>1. PICK q \in Procs, k \in {1, 2} : x = <<q, k>>
      BY DEF Op
    <3>2. x \in Open' <=> k <= depth'[q]
      BY <3>1 DEF Open, Op
    <3>3. x \in Open <=> k <= depth[q]
      BY <3>1 DEF Open, Op
    <3>4. depth[q] \in 0 .. 2
      BY Zenon DEF TypeOK
    <3> QED
      BY <1>1, <3>1, <3>2, <3>3, <3>4
  <2> QED
    BY <1>1, <2>1, Zenon DEF Open, Op
<1>3. IsFiniteSet(Open') /\ Cardinality(Open') = outstanding + 1
  BY <1>1, <1>2, Finite, FS_AddElement, Zenon DEF CommitAlone
<1>4. \A q \in Procs : pc'[q] = IF q = p THEN "run" ELSE pc[q]
  BY Zenon DEF TypeOK
<1>5. TypeOK'
  <2>1. depth' \in [Procs -> 0 .. 2]
    BY <1>1 DEF TypeOK
  <2> QED
    BY <2>1 DEF TypeOK
<1>6. CommitAlone'
  BY <1>3, <1>4 DEF CommitAlone, MustWait
<1>7. Fits' /\ Heads'
  <2>1. Reserved' \in SUBSET (Open' \X (1 .. MAXOPBLOCKS))
    BY DEF Reserved
  <2>2. Cardinality(Reserved') \in Nat /\ Cardinality(Reserved') <= (outstanding + 1) * MAXOPBLOCKS
    BY <1>3, <2>1, ReservedBound, Zenon
  <2>3. /\ Len(lh) \in Nat /\ (outstanding + 1) * MAXOPBLOCKS \in Nat
        /\ ~(Len(lh) + (outstanding + 1) * MAXOPBLOCKS > LOGSIZE)
    BY LogAssumption DEF MustWait, TypeOK
  <2> QED
    BY <2>2, <2>3, LogAssumption DEF Fits, Heads
<1>8. Writers'
  BY <1>1, <1>4, Zenon DEF Writers, Innermost
<1>9. Committer'
  BY <1>4 DEF Committer, Booting
<1>10. Stages'
  BY Zenon DEF Stages, CleanOnDisk, InLog, Installing
<1> QED
  BY <1>5, <1>6, <1>7, <1>8, <1>9, <1>10

LEMMA LogCheckInv ==
  ASSUME LogInv, NEW p \in Procs, log_check(p)
  PROVE  LogInv'
<1> USE DEF LogInv, log_check
<1>1. Open' = Open /\ Reserved' = Reserved
  BY SameOps
<1>2. \A q \in Procs : pc'[q] = IF q = p THEN "write" ELSE pc[q]
  BY DEF TypeOK
<1>3. TypeOK'
  BY Zenon DEF TypeOK
<1>4. CommitAlone'
  <2>1. \A q \in Procs : pc'[q] = "commit" <=> pc[q] = "commit"
    BY <1>2
  <2> QED
    BY <1>1, <2>1, Zenon DEF CommitAlone
<1>5. Fits' /\ Heads' /\ Stages'
  BY <1>1, Zenon DEF Fits, Heads, Stages, CleanOnDisk, InLog, Installing
<1>6. Writers' /\ Committer'
  <2>1. Writers'
    BY <1>2 DEF Writers, Innermost
  <2>2. Committer'
    BY <1>2 DEF Committer, Booting
  <2> QED
    BY <2>1, <2>2, Zenon
<1> QED
  BY <1>3, <1>4, <1>5, <1>6

\* A block that is logged for the first time takes the place of a reservation.
LEMMA ReservationUsed ==
  ASSUME LogInv, NEW p \in Procs, pc[p] = "write", depth' = depth,
         used' = [used EXCEPT ![Innermost(p)] = @ + 1]
  PROVE  /\ Cardinality(Reserved') = Cardinality(Reserved) - 1
         /\ Cardinality(Reserved) \in Nat \ {0}
<1> USE DEF LogInv
<1> DEFINE o == Innermost(p)
           r == <<o, used[o] + 1>>
<1>1. o \in Op /\ o \in Open /\ used[o] \in 0 .. MAXOPBLOCKS - 1
  <2>1. depth[p] > 0 /\ used[o] < MAXOPBLOCKS
    BY DEF Writers
  <2>2. o \in Op /\ o \in Open
    BY <2>1, OpenStage
  <2>3. used[o] \in 0 .. MAXOPBLOCKS
    BY <2>2 DEF TypeOK
  <2> QED
    BY <2>1, <2>2, <2>3, LogAssumption
<1>2. /\ used'[o] = used[o] + 1
      /\ \A x \in Op : x # o => used'[x] = used[x]
  BY <1>1, Zenon DEF TypeOK
<1> HIDE DEF o
<1>3. Open' = Open
  BY DEF Open, Op
<1>4. r \in Reserved
  BY <1>1, LogAssumption DEF Reserved
<1>5. Reserved' = Reserved \ {r}
  <2>1. ASSUME NEW x \in Op, NEW k \in 1 .. MAXOPBLOCKS
        PROVE  <<x, k>> \in Reserved' <=> <<x, k>> \in Reserved /\ <<x, k>> # r
    <3>1. <<x, k>> \in Reserved' <=> x \in Open /\ k > used'[x]
      BY <1>3 DEF Reserved
    <3>2. <<x, k>> \in Reserved <=> x \in Open /\ k > used[x]
      BY DEF Reserved
    <3>3. CASE x = o
      BY <1>1, <1>2, <3>1, <3>2, <3>3
    <3>4. CASE x # o
      BY <1>2, <3>1, <3>2, <3>4
    <3> QED
      BY <3>3, <3>4
  <2>2. Reserved \subseteq Op \X (1 .. MAXOPBLOCKS) /\ Reserved' \subseteq Op \X (1 .. MAXOPBLOCKS)
    BY DEF Reserved, Op
  <2>3. ASSUME NEW y \in Op \X (1 .. MAXOPBLOCKS)
        PROVE  y \in Reserved' <=> y \in Reserved \ {r}
    <3>1. PICK x \in Op, k \in 1 .. MAXOPBLOCKS : y = <<x, k>>
      OBVIOUS
    <3> QED
      BY <2>1, <3>1
  <2> QED
    BY <2>2, <2>3
<1>6. IsFiniteSet(Reserved) /\ Cardinality(Reserved) \in Nat
  BY Finite
<1>7. Cardinality(Reserved) # 0
  BY <1>4, <1>6, FS_EmptySet
<1> QED
  BY <1>4, <1>5, <1>6, <1>7, FS_RemoveElement, Zenon

LEMMA LogWriteInv ==
  ASSUME LogInv, NEW p \in Procs, NEW b \in Blocks, NEW v \in Values, log_write(p, b, v)
  PROVE  LogInv'
<1> USE DEF LogInv, log_write
<1>1. /\ depth[p] > 0 /\ used[Innermost(p)] < MAXOPBLOCKS
      /\ ~committing /\ stage = "none" /\ Innermost(p) \in Op
  BY OpenStage, Zenon DEF Writers
<1>2. \A q \in Procs : pc'[q] = IF q = p THEN "run" ELSE pc[q]
  BY Zenon DEF TypeOK
<1>3. Open' = Open
  BY Zenon DEF Open, Op
<1>4. TypeOK'
  <2>1. lh' \in Seq(Blocks)
    BY DEF Logged, TypeOK
  <2>2. used' \in [Op -> 0 .. MAXOPBLOCKS]
    <3>1. used[Innermost(p)] \in 0 .. MAXOPBLOCKS /\ used[Innermost(p)] + 1 \in 0 .. MAXOPBLOCKS
      BY <1>1, LogAssumption DEF TypeOK
    <3> QED
      BY <3>1, Zenon DEF TypeOK
  <2> QED
    BY <2>1, <2>2, Zenon DEF TypeOK
<1>5. CommitAlone'
  BY <1>2, <1>3 DEF CommitAlone
<1>6. Fits'
  <2>1. CASE InLog(b)
    <3>1. used' = used /\ lh' = lh
      BY <2>1, Zenon DEF Logged, TypeOK
    <3> QED
      BY <3>1, SameOps DEF Fits
  <2>2. CASE ~InLog(b)
    <3>1. Len(lh') = Len(lh) + 1 /\ Len(lh) \in Nat
      BY <2>2 DEF Logged, TypeOK
    <3>2. Cardinality(Reserved') = Cardinality(Reserved) - 1 /\ Cardinality(Reserved) \in Nat \ {0}
      BY <2>2, ReservationUsed, Zenon
    <3> QED
      BY <3>1, <3>2, LogAssumption DEF Fits
  <2> QED
    BY <2>1, <2>2
<1>7. Heads'
  <2>1. CASE InLog(b)
    BY <2>1 DEF Logged, Heads
  <2>2. CASE ~InLog(b)
    <3>1. /\ Len(lh') = Len(lh) + 1 /\ Len(lh) \in Nat /\ lh'[Len(lh) + 1] = b
          /\ \A i \in 1 .. Len(lh) : lh'[i] = lh[i] /\ lh[i] # b
      BY <2>2 DEF Logged, TypeOK, InLog
    <3>2. NoRepeat(lh')
      BY <3>1 DEF NoRepeat, Heads
    <3> QED
      BY <3>2 DEF Heads
  <2> QED
    BY <2>1, <2>2
<1>8. Writers'
  <2>1. ASSUME NEW q \in Procs, pc'[q] = "write"
        PROVE  depth'[q] > 0 /\ used'[Innermost(q)'] < MAXOPBLOCKS
    <3>1. q # p /\ pc[q] = "write"
      BY <1>2, <2>1
    <3>2. Innermost(q)' = Innermost(q) /\ Innermost(q) # Innermost(p)
      BY <3>1 DEF Innermost
    <3>3. depth[q] > 0 /\ used[Innermost(q)] < MAXOPBLOCKS
      BY <3>1, Zenon DEF Writers
    <3>4. Innermost(q) \in Op
      BY <3>3, OpenStage, Zenon
    <3> QED
      BY <3>2, <3>3, <3>4, Zenon DEF TypeOK
  <2> QED
    BY <2>1, Zenon DEF Writers
<1>9. Committer'
  BY <1>2 DEF Committer, Booting
<1>10. Stages'
  <2>1. ASSUME NEW c \in Blocks, ~InLog(c)' PROVE cache'[c] = disk'[c]
    <3>1. ~InLog(c) /\ c # b
      <4>1. CASE InLog(b)
        BY <2>1, <4>1, Zenon DEF Logged, InLog
      <4>2. CASE ~InLog(b)
        <5>1. /\ Len(lh') = Len(lh) + 1 /\ Len(lh) \in Nat /\ lh'[Len(lh) + 1] = b
              /\ \A i \in 1 .. Len(lh) : lh'[i] = lh[i]
          BY <4>2 DEF Logged, TypeOK
        <5>2. \A i \in 1 .. Len(lh') : lh'[i] # c
          BY <2>1 DEF InLog
        <5>3. c # b
          BY <5>1, <5>2
        <5>4. \A i \in 1 .. Len(lh) : i \in 1 .. Len(lh')
          BY <5>1
        <5> QED
          BY <5>1, <5>2, <5>3, <5>4, Zenon DEF InLog
      <4> QED
        BY <4>1, <4>2
    <3> QED
      BY <1>1, <3>1, Zenon DEF Stages, CleanOnDisk, TypeOK
  <2> QED
    BY <1>1, <2>1, Zenon DEF Stages, CleanOnDisk
<1> QED
  BY <1>4, <1>5, <1>6, <1>7, <1>8, <1>9, <1>10

LEMMA EndOpInv ==
  ASSUME LogInv, NEW p \in Procs, end_op(p)
  PROVE  LogInv'
<1> USE DEF LogInv, end_op
<1> DEFINE o == Innermost(p)
<1>1. stage = "none" /\ o \in Op /\ o \in Open /\ depth[p] \in 1 .. 2
  BY OpenStage, Zenon
<1>2. \A q \in Procs : depth'[q] = IF q = p THEN depth[p] - 1 ELSE depth[q]
  BY Zenon DEF TypeOK
<1>3. /\ used'[o] = 0
      /\ \A x \in Op : x # o => used'[x] = used[x]
  BY <1>1, Zenon DEF TypeOK
<1>4. Open' = Open \ {o}
  <2>1. ASSUME NEW x \in Op PROVE x \in Open' <=> x \in Open /\ x # o
    <3>1. PICK q \in Procs, k \in {1, 2} : x = <<q, k>>
      BY DEF Op
    <3>2. x \in Open' <=> k <= depth'[q]
      BY <3>1 DEF Open, Op
    <3>3. x \in Open <=> k <= depth[q]
      BY <3>1 DEF Open, Op
    <3>4. depth[q] \in 0 .. 2
      BY Zenon DEF TypeOK
    <3> QED
      BY <1>1, <1>2, <3>1, <3>2, <3>3, <3>4 DEF Innermost
  <2> QED
    BY <2>1, Zenon DEF Open, Op
<1>5. IsFiniteSet(Open') /\ Cardinality(Open') = outstanding - 1 /\ outstanding \in Nat \ {0}
  <2>1. IsFiniteSet(Open) /\ Cardinality(Open) \in Nat
    BY Finite
  <2>2. Cardinality(Open) # 0
    BY <1>1, <2>1, FS_EmptySet
  <2> QED
    BY <1>1, <1>4, <2>1, <2>2, FS_RemoveElement, Zenon DEF CommitAlone
<1>6. Reserved' \subseteq Reserved
  <2>1. ASSUME NEW y \in Reserved' PROVE y \in Reserved
    <3>1. PICK x \in Op, k \in 1 .. MAXOPBLOCKS : y = <<x, k>> /\ x \in Open' /\ k > used'[x]
      BY DEF Reserved, Op
    <3> QED
      BY <1>3, <1>4, <3>1, Zenon DEF Reserved
  <2> QED
    BY <2>1
<1>7. Fits' /\ Heads'
  <2>1. IsFiniteSet(Reserved) /\ Cardinality(Reserved) \in Nat /\ Len(lh) \in Nat
    BY Finite DEF TypeOK
  <2>2. Cardinality(Reserved') \in Nat /\ Cardinality(Reserved') <= Cardinality(Reserved)
    BY <1>6, <2>1, FS_Subset, FS_CardinalityType, Zenon
  <2> QED
    BY <2>1, <2>2, LogAssumption DEF Fits, Heads
<1>8. depth' \in [Procs -> 0 .. 2] /\ used' \in [Op -> 0 .. MAXOPBLOCKS] /\ outstanding' \in Nat
  BY <1>1, <1>2, <1>5, LogAssumption DEF TypeOK
<1>9. \A q \in Procs : q # p /\ depth'[q] > 0 => Innermost(q)' = Innermost(q) /\ Innermost(q) # o
  BY <1>2, Zenon DEF Innermost
<1>10. ASSUME NEW q \in Procs, q # p, pc[q] = "write"
       PROVE  depth'[q] > 0 /\ used'[Innermost(q)'] < MAXOPBLOCKS
  <2>1. depth[q] > 0 /\ used[Innermost(q)] < MAXOPBLOCKS /\ depth'[q] = depth[q]
    BY <1>2, <1>10, Zenon DEF Writers
  <2>2. Innermost(q) \in Op
    BY <2>1, OpenStage, Zenon
  <2> QED
    BY <1>3, <1>9, <1>10, <2>1, <2>2, Zenon
<1>11. CASE outstanding = 1
  <2>1. \A q \in Procs : pc'[q] = IF q = p THEN "commit" ELSE pc[q]
    BY <1>11, Zenon DEF TypeOK
  <2>2. \A q \in Procs : pc[q] # "commit"
    BY Zenon DEF CommitAlone
  <2>3. Open' = {}
    BY <1>5, <1>11, FS_EmptySet
  <2>4. TypeOK'
    <3>1. pc' \in [Procs -> {"run", "write", "asleep", "woken", "commit"}]
      BY <1>11, Zenon DEF TypeOK
    <3>2. committing' \in BOOLEAN
      BY <1>11
    <3>3. stage' \in {"log", "done"} /\ tail' \in Nat
      BY <1>11 DEF FirstStage
    <3> QED
      BY <1>8, <3>1, <3>2, <3>3, Zenon DEF TypeOK
  <2>5. CommitAlone'
    BY <1>5, <1>11, <2>1, <2>3 DEF CommitAlone
  <2>6. Writers'
    BY <1>10, <2>1 DEF Writers
  <2>7. Committer'
    BY <1>11, <2>1, <2>2, Zenon DEF Committer, Booting, FirstStage
  <2>8. Stages'
    <3>1. CASE lh = <<>>
      <4>1. \A b \in Blocks : ~InLog(b)
        BY <3>1 DEF InLog
      <4>2. cache = disk
        BY <1>1, <4>1 DEF Stages, CleanOnDisk, TypeOK
      <4> QED
        BY <1>1, <1>11, <3>1, <4>2, Zenon DEF Stages, FirstStage
    <3>2. CASE lh # <<>>
      <4>1. Len(lh) \in Nat /\ lh' = lh /\ tail' = 0
        BY <1>11 DEF TypeOK
      <4> QED
        BY <1>1, <1>11, <3>2, <4>1 DEF Stages, FirstStage, CleanOnDisk, InLog
    <3> QED
      BY <3>1, <3>2
  <2> QED
    BY <1>7, <2>4, <2>5, <2>6, <2>7, <2>8, Zenon
<1>12. CASE outstanding # 1
  <2>1. \A q \in Procs : pc'[q] = IF pc[q] = "asleep" THEN "woken" ELSE pc[q]
    BY <1>12, Zenon DEF EndWakes, Woken, TypeOK
  <2>2. TypeOK'
    <3>1. pc' \in [Procs -> {"run", "write", "asleep", "woken", "commit"}]
      BY <1>12, <2>1, Zenon DEF EndWakes, Woken, TypeOK
    <3> QED
      BY <1>8, <1>12, <3>1, Zenon DEF TypeOK
  <2>3. CommitAlone'
    BY <1>5, <1>12, <2>1, Zenon DEF CommitAlone
  <2>4. Writers'
    BY <1>10, <2>1, Zenon DEF Writers
  <2>5. Committer'
    BY <1>1, <1>12, <2>1, Zenon DEF Committer, Booting
  <2>6. Stages'
    BY <1>1, <1>12, Zenon DEF Stages, CleanOnDisk, InLog
  <2> QED
    BY <1>7, <2>2, <2>3, <2>4, <2>5, <2>6
<1> QED
  BY <1>11, <1>12

-----------------------------------------------------------------------------
LEMMA NextInv ==
  ASSUME LogInv, [Next]_vars
  PROVE  LogInv'
<1>1. CASE UNCHANGED vars
  <2> USE <1>1 DEF vars, LogInv
  <2>1. Open' = Open /\ Reserved' = Reserved
    BY SameOps
  <2>2. TypeOK' /\ CommitAlone' /\ Fits' /\ Heads'
    BY <2>1, Zenon DEF TypeOK, CommitAlone, Fits, Heads
  <2>3. Writers' /\ Committer' /\ Stages'
    BY Zenon DEF Writers, Committer, Stages, Booting, Innermost, CleanOnDisk, InLog, Installing
  <2> QED
    BY <2>2, <2>3, Zenon
<1>2. CASE Commits
  BY <1>2, WriteLogInv, WriteHeadInv, InstallInv, ClearHeadInv, ReadHeadInv, EndCommitInv
     DEF Commits
<1>3. CASE Crash
  BY <1>3, CrashInv
<1>4. ASSUME NEW p \in Procs,
             begin_op(p) \/ end_op(p) \/ log_check(p)
             \/ \E b \in Blocks, v \in Values : log_write(p, b, v)
      PROVE  LogInv'
  BY <1>4, BeginWaits, BeginStarts, EndOpInv, LogCheckInv, LogWriteInv
<1> QED
  BY <1>1, <1>2, <1>3, <1>4 DEF Next

\* The inductive invariant: what holds at every step of an operation, of a
\* commit and of a recovery, with crashes anywhere (log.c).
THEOREM LogInvariant == Spec => []LogInv
BY InitInv, NextInv, PTL DEF Spec

\* A commit is alone, however many processes begin and end operations, nested or
\* not (log.c 125-174).
THEOREM CommitAlwaysAlone == Spec => []CommitAlone
<1>1. LogInv => CommitAlone
  BY DEF LogInv
<1> QED
  BY <1>1, LogInvariant, PTL

\* If the log on disk has LOGSIZE blocks besides its header, the test of
\* begin_op is enough: no operation meets the panic of log_write (log.c 132, 218).
THEOREM LogAlwaysHasRoom ==
  ASSUME NLog > LOGSIZE
  PROVE  Spec => []LogHasRoom
<1>1. LogInv => LogHasRoom
  <2> SUFFICES ASSUME LogInv PROVE LogHasRoom
    OBVIOUS
  <2>1. /\ Len(lh) \in Nat /\ Len(lh) <= LOGSIZE /\ IsFiniteSet(Reserved)
        /\ Cardinality(Reserved) \in Nat /\ LOGSIZE \in Nat /\ NLog \in Nat
    BY LogLength, Finite, LogAssumption DEF LogInv
  <2>2. ASSUME NEW o \in Open, used[o] < MAXOPBLOCKS
        PROVE  Len(lh) < LOGSIZE
    <3>1. o \in Op /\ used[o] \in 0 .. MAXOPBLOCKS
      BY Zenon DEF Open, LogInv, TypeOK
    <3>2. <<o, used[o] + 1>> \in Reserved
      BY <2>2, <3>1, LogAssumption DEF Reserved
    <3>3. Cardinality(Reserved) # 0
      BY <2>1, <3>2, FS_EmptySet
    <3> QED
      BY <2>1, <3>3 DEF LogInv, Fits
  <2> QED
    BY <2>1, <2>2 DEF LogHasRoom
<1> QED
  BY <1>1, LogInvariant, PTL

-----------------------------------------------------------------------------
(* The log implements AtomicDisk.  What a recovery leaves, as a function of *)
(* the header, the log blocks and the home locations.                       *)

DurableOf(h, l, d) ==
  [b \in Blocks |->
     IF \E i \in 1 .. Len(h) : h[i] = b
     THEN l[CHOOSE i \in 1 .. Len(h) : h[i] = b]
     ELSE d[b]]

\* The state and the next one in terms of it.
LEMMA DurableIs ==
  /\ Durable = DurableOf(head, logd, disk)
  /\ Durable' = DurableOf(head', logd', disk')
BY Zenon DEF Durable, DurableOf

\* With an empty header it is what the disk holds.
LEMMA DurableEmpty ==
  ASSUME NEW l, NEW d \in [Blocks -> Values]
  PROVE  DurableOf(<<>>, l, d) = d
BY DEF DurableOf

\* The blocks of the header are taken from the log, the others from the disk.
LEMMA DurableAt ==
  ASSUME NEW h \in Seq(Blocks), NoRepeat(h), NEW l, NEW d, NEW b \in Blocks
  PROVE  /\ \A i \in 1 .. Len(h) : h[i] = b => DurableOf(h, l, d)[b] = l[i]
         /\ (\A i \in 1 .. Len(h) : h[i] # b) => DurableOf(h, l, d)[b] = d[b]
<1>1. ASSUME NEW i \in 1 .. Len(h), h[i] = b
      PROVE  DurableOf(h, l, d)[b] = l[i]
  <2>1. (CHOOSE j \in 1 .. Len(h) : h[j] = b) = i
    BY <1>1 DEF NoRepeat
  <2> QED
    BY <1>1, <2>1, Zenon DEF DurableOf
<1>2. ASSUME \A i \in 1 .. Len(h) : h[i] # b
      PROVE  DurableOf(h, l, d)[b] = d[b]
  BY <1>2 DEF DurableOf
<1> QED
  BY <1>1, <1>2, Zenon

\* A disk that agrees with f on the blocks that are not logged, and a log that
\* does on those that are, make f durable.
LEMMA DurableAgrees ==
  ASSUME NEW h \in Seq(Blocks), NoRepeat(h), NEW l, NEW d, NEW f \in [Blocks -> Values],
         \A i \in 1 .. Len(h) : l[i] = f[h[i]],
         \A b \in Blocks : (\A i \in 1 .. Len(h) : h[i] # b) => d[b] = f[b]
  PROVE  DurableOf(h, l, d) = f
<1>1. ASSUME NEW b \in Blocks PROVE DurableOf(h, l, d)[b] = f[b]
  <2>1. CASE \E i \in 1 .. Len(h) : h[i] = b
    BY <2>1, DurableAt
  <2>2. CASE \A i \in 1 .. Len(h) : h[i] # b
    BY <2>2, DurableAt
  <2> QED
    BY <2>1, <2>2, Zenon
<1> QED
  BY <1>1 DEF DurableOf

\* What the disk holds of the blocks in the header does not count.
LEMMA DurableMasked ==
  ASSUME NEW h, NEW l, NEW d, NEW e,
         \A b \in Blocks : (\A i \in 1 .. Len(h) : h[i] # b) => e[b] = d[b]
  PROVE  DurableOf(h, l, e) = DurableOf(h, l, d)
BY DEF DurableOf

-----------------------------------------------------------------------------
(* The steps, as steps of AtomicDisk.                                       *)

AtomicVars == <<View, Durable, Active>>

\* A system call changes nothing that is durable.
LEMMA SameDurable ==
  ASSUME UNCHANGED <<head, logd, disk>>
  PROVE  Durable' = Durable
BY DurableIs

\* begin_op begins an operation, or nests one in the operation begun, or waits.
LEMMA BeginStep ==
  ASSUME LogInv, NEW p \in Procs, begin_op(p)
  PROVE  Abstract!Begin(p) \/ UNCHANGED AtomicVars
<1> USE DEF begin_op
<1>1. Durable' = Durable /\ View' = View
  BY SameDurable, Zenon DEF View, Booting
<1>2. CASE depth' = depth
  BY <1>1, <1>2, Zenon DEF Active, AtomicVars
<1>3. CASE depth' # depth
  <2>1. /\ depth[p] \in 0 .. 1
        /\ \A q \in Procs : depth'[q] = IF q = p THEN depth[p] + 1 ELSE depth[q]
    BY <1>3 DEF LogInv, TypeOK
  <2>2. Active' = Active \cup {p}
    BY <2>1 DEF Active
  <2> QED
    BY <1>1, <2>2 DEF Abstract!Begin, AtomicVars
<1> QED
  BY <1>2, <1>3, Zenon

\* end_op ends the operation begun, or one nested in it.
LEMMA EndStep ==
  ASSUME LogInv, NEW p \in Procs, end_op(p)
  PROVE  Abstract!End(p) \/ UNCHANGED AtomicVars
<1> USE DEF end_op
<1>1. stage = "none" /\ depth[p] \in 1 .. 2
  BY OpenStage, Zenon
<1>2. stage' \in {"none", "done", "log"}
  BY <1>1, Zenon DEF FirstStage
<1>3. Durable' = Durable /\ View' = View
  BY <1>1, <1>2, SameDurable, Zenon DEF View, Booting
<1>4. \A q \in Procs : depth'[q] = IF q = p THEN depth[p] - 1 ELSE depth[q]
  BY DEF LogInv, TypeOK
<1>5. p \in Active
  BY <1>1 DEF Active
<1>6. CASE depth[p] = 1
  <2>1. Active' = Active \ {p}
    BY <1>4, <1>6 DEF Active
  <2> QED
    BY <1>3, <1>5, <2>1 DEF Abstract!End
<1>7. CASE depth[p] = 2
  <2>1. Active' = Active
    BY <1>4, <1>7 DEF Active
  <2> QED
    BY <1>3, <2>1, Zenon DEF AtomicVars
<1> QED
  BY <1>1, <1>6, <1>7

\* log_write writes a block on behalf of an operation.
LEMMA WriteStep ==
  ASSUME LogInv, NEW p \in Procs, NEW b \in Blocks, NEW v \in Values, log_write(p, b, v)
  PROVE  Abstract!Write(p, b, v)
<1> USE DEF log_write
<1>1. depth[p] > 0 /\ stage = "none"
  BY OpenStage, Zenon DEF LogInv, Writers
<1>2. Durable' = Durable /\ View = cache /\ View' = cache'
  BY <1>1, SameDurable, Zenon DEF View, Booting
<1>3. p \in Active /\ Active' = Active
  BY <1>1, Zenon DEF Active
<1> QED
  BY <1>2, <1>3 DEF Abstract!Write

\* write_head makes everything written durable, and no operation is in progress.
LEMMA WriteHeadStep ==
  ASSUME LogInv, write_head
  PROVE  Abstract!Commit
<1> USE DEF LogInv, write_head, LogWritten
<1>1. Active' = Active /\ Active = {}
  BY SameOps, OpenEmpty, Zenon DEF CommitAlone, Committer
<1>2. View = cache /\ View' = cache
  BY DEF View, Booting
<1>3. /\ lh \in Seq(Blocks) /\ NoRepeat(lh) /\ cache \in [Blocks -> Values]
      /\ \A i \in 1 .. Len(lh) : logd[i] = cache[lh[i]]
      /\ \A b \in Blocks : (\A i \in 1 .. Len(lh) : lh[i] # b) => disk[b] = cache[b]
  BY Zenon DEF TypeOK, Heads, Stages, CleanOnDisk, InLog
<1>4. Durable' = cache
  <2>1. Durable' = DurableOf(lh, logd, disk)
    BY DurableIs, Zenon
  <2> HIDE DEF LogInv, write_head, LogWritten
  <2>2. DurableOf(lh, logd, disk) = cache
    BY <1>3, DurableAgrees
  <2> QED
    BY <2>1, <2>2, Zenon
<1> QED
  BY <1>1, <1>2, <1>4 DEF Abstract!Commit

\* The log blocks are not durable until the header names them.
LEMMA WriteLogStep ==
  ASSUME LogInv, write_log
  PROVE  UNCHANGED AtomicVars
<1> USE DEF LogInv, write_log
<1>1. head = <<>> /\ head' = <<>> /\ disk \in [Blocks -> Values] /\ disk' = disk
  BY Zenon DEF Stages, TypeOK
<1>2. Durable = disk /\ Durable' = disk
  BY <1>1, DurableEmpty, DurableIs, Zenon
<1>3. View' = View /\ Active' = Active
  BY SameOps, Zenon DEF View, Booting
<1> QED
  BY <1>2, <1>3, Zenon DEF AtomicVars

\* Installing a block shows nobody anything new.
LEMMA InstallStep ==
  ASSUME LogInv, install_trans
  PROVE  UNCHANGED AtomicVars
<1> USE DEF LogInv, install_trans
<1>1. /\ tail + 1 \in 1 .. Len(lh) /\ head = lh /\ lh \in Seq(Blocks) /\ NoRepeat(lh)
      /\ disk \in [Blocks -> Values] /\ cache \in [Blocks -> Values]
  <2>1. /\ head = lh /\ lh \in Seq(Blocks) /\ NoRepeat(lh) /\ tail \in Nat /\ tail < Len(lh)
        /\ disk \in [Blocks -> Values] /\ cache \in [Blocks -> Values]
    BY LogLength, Zenon DEF Stages, Installing, Heads, TypeOK
  <2> HIDE DEF LogInv, install_trans
  <2>2. Len(lh) \in Nat
    BY <2>1
  <2> QED
    BY <2>1, <2>2
<1>2. Durable' = Durable
  <2>1. \A b \in Blocks : (\A i \in 1 .. Len(lh) : lh[i] # b) => disk'[b] = disk[b]
    BY <1>1, Zenon
  <2>2. Durable = DurableOf(lh, logd, disk) /\ Durable' = DurableOf(lh, logd, disk')
    BY <1>1, DurableIs, Zenon
  <2> HIDE DEF install_trans
  <2>3. DurableOf(lh, logd, disk') = DurableOf(lh, logd, disk)
    BY <2>1, DurableMasked
  <2> QED
    BY <2>2, <2>3
<1>3. ASSUME stage = "install" PROVE cache' = cache
  BY <1>1, <1>3, Zenon DEF Stages
<1>4. View' = View
  BY <1>2, <1>3, Zenon DEF View, Booting
<1>5. Active' = Active
  BY SameOps, Zenon
<1> QED
  BY <1>2, <1>4, <1>5 DEF AtomicVars

\* The header is cleared when the disk holds all that it named.
LEMMA ClearHeadStep ==
  ASSUME LogInv, clear_head
  PROVE  UNCHANGED AtomicVars
<1> USE DEF LogInv, clear_head, Installed
<1>1. /\ head = lh /\ lh \in Seq(Blocks) /\ NoRepeat(lh) /\ disk \in [Blocks -> Values]
      /\ \A i \in 1 .. Len(lh) : logd[i] = disk[lh[i]]
  BY Zenon DEF Stages, Installing, Heads, TypeOK
<1>2. Durable = disk
  <2> HIDE DEF LogInv, clear_head, Installed
  <2>1. Durable = DurableOf(lh, logd, disk)
    BY <1>1, DurableIs, Zenon
  <2>2. DurableOf(lh, logd, disk) = disk
    BY <1>1, DurableAgrees
  <2> QED
    BY <2>1, <2>2, Zenon
<1>3. Durable' = disk
  BY <1>1, DurableEmpty, DurableIs, Zenon
<1>4. cache = disk
  BY AllInstalled DEF Stages
<1>5. View = disk /\ View' = disk
  BY <1>2, <1>4 DEF View, Booting
<1>6. Active' = Active
  BY SameOps
<1> QED
  BY <1>2, <1>3, <1>5, <1>6 DEF AtomicVars

\* A crash leaves what is durable and no operation.
LEMMA CrashStep ==
  ASSUME LogInv, Crash
  PROVE  Abstract!Crash
<1> USE DEF Crash
<1>1. Durable' = Durable /\ View' = Durable'
  BY SameDurable DEF View, Booting
<1>2. Active' = {}
  BY DEF Active
<1> QED
  BY <1>1, <1>2 DEF Abstract!Crash

\* The other steps are bookkeeping.
LEMMA SilentStep ==
  ASSUME LogInv, UNCHANGED vars \/ read_head \/ \E p \in Procs : log_check(p) \/ end_commit(p)
  PROVE  UNCHANGED AtomicVars
<1>1. UNCHANGED <<head, logd, disk, depth, cache>> /\ (Booting' <=> Booting)
  BY Zenon DEF vars, read_head, log_check, end_commit, Booting
<1>2. Durable' = Durable /\ Active' = Active
  BY <1>1, SameDurable DEF Active
<1> QED
  BY <1>1, <1>2 DEF AtomicVars, View

\* Every step of the log is one of AtomicDisk, or changes nothing it shows.
LEMMA StepRefines ==
  ASSUME LogInv, [Next]_vars
  PROVE  [Abstract!Next]_AtomicVars
<1>1. CASE UNCHANGED vars \/ read_head \/ \E p \in Procs : log_check(p) \/ end_commit(p)
  BY <1>1, SilentStep
<1>2. ASSUME NEW p \in Procs, begin_op(p) PROVE [Abstract!Next]_AtomicVars
  BY <1>2, BeginStep DEF Abstract!Next
<1>3. ASSUME NEW p \in Procs, end_op(p) PROVE [Abstract!Next]_AtomicVars
  BY <1>3, EndStep DEF Abstract!Next
<1>4. ASSUME NEW p \in Procs, NEW b \in Blocks, NEW v \in Values, log_write(p, b, v)
      PROVE  [Abstract!Next]_AtomicVars
  BY <1>4, WriteStep, Zenon DEF Abstract!Next
<1>5. CASE write_log \/ install_trans \/ clear_head
  BY <1>5, WriteLogStep, InstallStep, ClearHeadStep
<1>6. CASE write_head
  BY <1>6, WriteHeadStep DEF Abstract!Next
<1>7. CASE Crash
  BY <1>7, CrashStep DEF Abstract!Next
<1> QED
  BY <1>1, <1>2, <1>3, <1>4, <1>5, <1>6, <1>7 DEF Next, Commits

\* The disk starts with nothing to recover.
LEMMA InitRefines ==
  ASSUME Init
  PROVE  Abstract!Init
<1> USE DEF Init
<1>1. Durable = disk
  BY DurableEmpty, DurableIs, Zenon
<1>2. View = disk
  BY <1>1 DEF View, Booting
<1>3. Active = {}
  BY DEF Active
<1> QED
  BY <1>1, <1>2, <1>3 DEF Abstract!Init

\* The log makes file system operations atomic, nested ones too: whatever crashes
\* and recoveries follow, the disk holds all the writes of complete operations and
\* none of the others (log.c 9-23).
THEOREM LogImplementsAtomicDisk == Spec => AtomicSpec
<1>1. Init => Abstract!Init
  BY InitRefines
<1>2. LogInv /\ [Next]_vars => [Abstract!Next]_<<View, Durable, Active>>
  BY StepRefines DEF AtomicVars
<1> QED
  BY <1>1, <1>2, LogInvariant, PTL DEF Spec, AtomicSpec, Abstract!Spec
=============================================================================
