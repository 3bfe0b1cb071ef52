-------------------------------- MODULE Log --------------------------------
(***************************************************************************)
(* The redo log of log.c: group commit of concurrent file system           *)
(* operations, one disk write per step, crashes between any two of them,   *)
(* and recovery, which can itself crash.                                   *)
(*                                                                         *)
(* begin_op and the two halves of end_op run under log.lock and are one    *)
(* step each; commit() runs without it.  "cache" is what a reader of a     *)
(* block sees; log_write pins changed buffers, so it differs from the disk *)
(* only in logged blocks.  The log on disk has NLog blocks (sb.nlog): the   *)
(* header and NLog - 1 data blocks.                                        *)
(*                                                                         *)
(* An operation may begin a second one before it has ended: exec makes     *)
(* room for the new image, and a system call touches a user page that is   *)
(* not in memory, by writing another page to the swap file, which is a     *)
(* file like any other (file.c 140).                                       *)
(***************************************************************************)
EXTENDS Integers, Sequences, FiniteSets

CONSTANTS
  Procs, Blocks, Values,
  LOGSIZE, MAXOPBLOCKS,
  NLog                  \* log.size

ASSUME LogAssumption ==
  /\ LOGSIZE \in Nat \ {0} /\ MAXOPBLOCKS \in Nat \ {0}
  /\ NLog \in Nat
  /\ IsFiniteSet(Procs)

VARIABLES
  disk,         \* home location of every block
  logd,         \* log blocks on disk
  head,         \* log header on disk: the blocks it names
  cache,        \* contents of the blocks as seen through the buffer cache
  lh,           \* log.lh
  outstanding, committing,
  pc,           \* "run", "write" (in log_write), "asleep" and "woken" (in
                \* begin_op), "commit"
  depth,        \* operations the process has begun and not ended
  used,         \* blocks each operation has added to the log
  stage,        \* where commit() or recover_from_log() is
  tail          \* its loop counter

vars == <<disk, logd, head, cache, lh, outstanding, committing, pc, depth, used, stage, tail>>

\* The operations of a process, the outer and the inner one.
Op == Procs \X {1, 2}
Innermost(p) == <<p, depth[p]>>

InLog(b) == \E i \in 1 .. Len(lh) : lh[i] = b
Booting == stage \in {"boot", "recover"}

\* wakeup(&log)
Woken(f) == [p \in Procs |-> IF f[p] = "asleep" THEN "woken" ELSE f[p]]

-----------------------------------------------------------------------------
Init ==
  /\ disk \in [Blocks -> Values] /\ cache = disk
  /\ logd \in [1 .. LOGSIZE -> Values]
  /\ head = <<>> /\ lh = <<>>
  /\ outstanding = 0 /\ committing = FALSE
  /\ pc = [p \in Procs |-> "run"] /\ depth = [p \in Procs |-> 0] /\ used = [o \in Op |-> 0]
  /\ stage = "boot" /\ tail = 0

\* Mutants: the reservation forgets the blocks already logged, or the caller
\* does not wait for a commit.
MustWait_noReserve == committing \/ (outstanding + 1) * MAXOPBLOCKS > LOGSIZE
MustWait_noCommit == Len(lh) + (outstanding + 1) * MAXOPBLOCKS > LOGSIZE

MustWait ==
  \/ committing
  \/ Len(lh) + (outstanding + 1) * MAXOPBLOCKS > LOGSIZE

\* One turn of the loop.
begin_op(p) ==
  /\ ~Booting
  /\ pc[p] \in {"run", "woken"} /\ depth[p] < 2
  /\ IF MustWait
       THEN /\ pc' = [pc EXCEPT ![p] = "asleep"]
            /\ UNCHANGED <<outstanding, depth>>
       ELSE /\ pc' = [pc EXCEPT ![p] = "run"]
            /\ outstanding' = outstanding + 1
            /\ depth' = [depth EXCEPT ![p] = @ + 1]
  /\ UNCHANGED <<disk, logd, head, cache, lh, committing, used, stage, tail>>

Logged(b) == IF InLog(b) THEN lh ELSE Append(lh, b)

\* The test at the start of log_write, made without log.lock.  The operation
\* adds at most MAXOPBLOCKS blocks (param.h 10).  A full log is a panic.
log_check(p) ==
  /\ pc[p] = "run" /\ depth[p] > 0 /\ used[Innermost(p)] < MAXOPBLOCKS
  /\ Len(lh) < LOGSIZE /\ Len(lh) < NLog - 1
  /\ pc' = [pc EXCEPT ![p] = "write"]
  /\ UNCHANGED <<disk, logd, head, cache, lh, outstanding, committing, depth, used, stage, tail>>

\* The rest of it; the caller has changed the buffer.
log_write(p, b, v) ==
  /\ pc[p] = "write"
  /\ pc' = [pc EXCEPT ![p] = "run"]
  /\ cache' = [cache EXCEPT ![b] = v]
  /\ lh' = Logged(b)
  /\ used' = [used EXCEPT ![Innermost(p)] = IF InLog(b) THEN @ ELSE @ + 1]
  /\ UNCHANGED <<disk, logd, head, outstanding, committing, depth, stage, tail>>

\* Mutant: decrementing outstanding wakes nobody.
EndWakes_not(f) == f

EndWakes(f) == Woken(f)

FirstStage == IF lh = <<>> THEN "done" ELSE "log"

\* The last operation commits; panics if a commit is under way.
end_op(p) ==
  /\ pc[p] = "run" /\ depth[p] > 0
  /\ ~committing
  /\ outstanding' = outstanding - 1
  /\ depth' = [depth EXCEPT ![p] = @ - 1]
  /\ used' = [used EXCEPT ![Innermost(p)] = 0]
  /\ IF outstanding = 1
       THEN /\ committing' = TRUE
            /\ pc' = [pc EXCEPT ![p] = "commit"]
            /\ stage' = FirstStage
            /\ tail' = 0
       ELSE /\ pc' = EndWakes(pc)
            /\ UNCHANGED <<committing, stage, tail>>
  /\ UNCHANGED <<disk, logd, head, cache, lh>>

\* write_log: one block.
write_log ==
  /\ stage = "log" /\ tail < Len(lh)
  /\ logd' = [logd EXCEPT ![tail + 1] = cache[lh[tail + 1]]]
  /\ tail' = tail + 1
  /\ UNCHANGED <<disk, head, cache, lh, outstanding, committing, pc, depth, used, stage>>

\* Mutant: the header is written before the log blocks.
LogWritten_early == TRUE

LogWritten == tail = Len(lh)

\* write_head: "the true point at which the current transaction commits".
write_head ==
  /\ stage = "log" /\ LogWritten
  /\ head' = lh
  /\ stage' = "install" /\ tail' = 0
  /\ UNCHANGED <<disk, logd, cache, lh, outstanding, committing, pc, depth, used>>

NextTail == tail + 1

\* install_trans: one block, in commit() and in recover_from_log().
install_trans ==
  /\ stage \in {"install", "recover"} /\ tail < Len(lh)
  /\ disk' = [disk EXCEPT ![lh[tail + 1]] = logd[tail + 1]]
  /\ cache' = [cache EXCEPT ![lh[tail + 1]] = logd[tail + 1]]
  /\ tail' = NextTail
  /\ UNCHANGED <<logd, head, lh, outstanding, committing, pc, depth, used, stage>>

Installed == tail = Len(lh)

\* lh.n = 0; write_head().
clear_head ==
  /\ stage \in {"install", "recover"} /\ Installed
  /\ lh' = <<>> /\ head' = <<>>
  /\ stage' = IF stage = "install" THEN "done" ELSE "none"
  /\ tail' = 0
  /\ UNCHANGED <<disk, logd, cache, outstanding, committing, pc, depth, used>>

\* The rest of end_op.
end_commit(p) ==
  /\ pc[p] = "commit" /\ stage = "done"
  /\ committing' = FALSE
  /\ pc' = Woken([pc EXCEPT ![p] = "run"])
  /\ stage' = "none"
  /\ UNCHANGED <<disk, logd, head, cache, lh, outstanding, depth, used, tail>>

\* Memory is lost, the disk is not.
Crash ==
  /\ cache' = disk /\ lh' = <<>>
  /\ outstanding' = 0 /\ committing' = FALSE
  /\ pc' = [p \in Procs |-> "run"]
  /\ depth' = [p \in Procs |-> 0] /\ used' = [o \in Op |-> 0]
  /\ stage' = "boot" /\ tail' = 0
  /\ UNCHANGED <<disk, logd, head>>

\* initlog, up to read_head.
read_head ==
  /\ stage = "boot"
  /\ lh' = head
  /\ stage' = "recover"
  /\ UNCHANGED <<disk, logd, head, cache, outstanding, committing, pc, depth, used, tail>>

Commits ==
  write_log \/ write_head \/ install_trans \/ clear_head \/ read_head
  \/ \E p \in Procs : end_commit(p)

Next ==
  \/ \E p \in Procs :
       begin_op(p) \/ end_op(p) \/ log_check(p) \/ \E b \in Blocks, v \in Values : log_write(p, b, v)
  \/ Commits
  \/ Crash

\* The committing process runs, and an operation does not write for ever.
Fairness ==
  /\ WF_vars(Commits)
  /\ \A p \in Procs :
       /\ SF_vars(end_op(p))
       /\ WF_vars(\E b \in Blocks, v \in Values : log_write(p, b, v))
       /\ WF_vars(begin_op(p) /\ pc[p] = "woken")

Spec == Init /\ [][Next]_vars
FairSpec == Spec /\ Fairness

-----------------------------------------------------------------------------
TypeOK ==
  /\ disk \in [Blocks -> Values] /\ cache \in [Blocks -> Values]
  /\ logd \in [1 .. LOGSIZE -> Values]
  /\ head \in Seq(Blocks) /\ lh \in Seq(Blocks)
  /\ outstanding \in Nat /\ committing \in BOOLEAN
  /\ pc \in [Procs -> {"run", "write", "asleep", "woken", "commit"}]
  /\ depth \in [Procs -> 0 .. 2] /\ used \in [Op -> 0 .. MAXOPBLOCKS]
  /\ stage \in {"boot", "recover", "none", "log", "install", "done"}
  /\ tail \in Nat

Active == {p \in Procs : depth[p] > 0}
Open == {o \in Op : o[2] <= depth[o[1]]}

\* The reservation of begin_op is enough, whatever the others have written: an
\* operation with blocks left to write never meets panic("too big a transaction")
\* (log.c 218), and one past that test has a block of the log for its own.
LogHasRoom ==
  /\ Len(lh) <= LOGSIZE /\ Len(lh) <= NLog - 1
  /\ \A o \in Open : used[o] < MAXOPBLOCKS => Len(lh) < LOGSIZE /\ Len(lh) < NLog - 1

\* "The logging system only commits when there are no FS system calls active"
\* (log.c 12): outstanding counts them, nested ones too, and there are none
\* during a commit, so panic("log.committing") (log.c 152) is unreachable.
CommitAlone ==
  /\ outstanding = Cardinality(Open)
  /\ committing => Open = {}
  /\ (committing <=> \E p \in Procs : pc[p] = "commit")

\* What a recovery, started now, would leave on the disk.
Durable ==
  [b \in Blocks |->
     IF \E i \in 1 .. Len(head) : head[i] = b
     THEN logd[CHOOSE i \in 1 .. Len(head) : head[i] = b]
     ELSE disk[b]]

\* What a reader sees; nobody reads before recovery is over.
View == IF Booting THEN Durable ELSE cache

Abstract == INSTANCE AtomicDisk WITH
  Procs <- Procs, Blocks <- Blocks, Values <- Values,
  view <- View,
  durable <- Durable,
  active <- Active

\* The log makes operations atomic: after any sequence of crashes, also during
\* recovery, the disk holds all the writes of a set of complete operations.
AtomicSpec == Abstract!Spec

\* Every process that has begun an operation waits to begin another.
Wedged ==
  /\ Active # {}
  /\ \A p \in Active : pc[p] \in {"asleep", "woken"}

\* The power stays on from some time on.
CrashesStop == <>[][~Crash]_vars

\* No wakeup is lost: a process that sleeps in begin_op is woken, unless every
\* operation that could make room is itself waiting to begin another; and
\* recovery and commits come to an end once crashes stop.
LogProgress ==
  /\ \A p \in Procs : pc[p] = "asleep" ~> pc[p] # "asleep" \/ Wedged
  /\ CrashesStop => (Booting \/ committing ~> ~Booting /\ ~committing)
=============================================================================
