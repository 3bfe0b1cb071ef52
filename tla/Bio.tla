-------------------------------- MODULE Bio --------------------------------
(***************************************************************************)
(* The buffer cache (bio.c), its sleep locks (sleeplock.c) and the disk    *)
(* driver with its queue and interrupt (ide.c).                            *)
(*                                                                         *)
(* Sections under bcache.lock or idelock are one step.  A process reads a  *)
(* block, may change it, and then writes it through (bwrite) or leaves it  *)
(* dirty for the log (log_write), and releases it.  Contents are compared  *)
(* with what was last written to the block: "fresh" is TRUE for a copy     *)
(* that has it.  Waking up is not modelled here (see Proc): a process      *)
(* waits until its condition holds.                                        *)
(***************************************************************************)
EXTENDS Integers, Sequences, FiniteSets

CONSTANTS
  Procs, Blocks,
  NBUF,
  MaxPinned,    \* most blocks the log keeps dirty
  None

ASSUME BioAssumption ==
  /\ NBUF \in Nat /\ MaxPinned \in Nat /\ IsFiniteSet(Procs)
  /\ None \notin Procs \cup Blocks \cup Nat
  /\ NBUF >= Cardinality(Procs) + MaxPinned

Bufs == 1 .. NBUF

VARIABLES
  blockno, valid, dirty, refcnt, fresh,   \* fields of struct buf, by buffer
  locked,     \* who holds its sleep lock
  mru,        \* the list from bcache.head.next on
  idequeue,
  wire,       \* "fresh" of the data idestart sent to the controller
  disk,       \* "fresh" of the disk's blocks
  pc, cur     \* where a process is, and its buffer

bufvars == <<blockno, valid, dirty, refcnt, fresh, locked, mru>>
vars == <<blockno, valid, dirty, refcnt, fresh, locked, mru, idequeue, wire, disk, pc, cur>>

\* binit.
Init ==
  /\ blockno = [b \in Bufs |-> None] /\ valid = [b \in Bufs |-> FALSE]
  /\ dirty = [b \in Bufs |-> FALSE] /\ refcnt = [b \in Bufs |-> 0]
  /\ fresh = [b \in Bufs |-> FALSE] /\ locked = [b \in Bufs |-> None]
  /\ mru = [i \in 1 .. NBUF |-> NBUF + 1 - i]
  /\ idequeue = <<>> /\ wire = FALSE
  /\ disk = [n \in Blocks |-> TRUE]
  /\ pc = [p \in Procs |-> "idle"] /\ cur = [p \in Procs |-> None]

-----------------------------------------------------------------------------
(* Buffers.                                                                *)

\* Mutant: a buffer the log needs is recycled.
Unused_dirty(b) == refcnt[b] = 0

Unused(b) == refcnt[b] = 0 /\ ~dirty[b]

Cached(n) == {b \in Bufs : blockno[b] = n}

\* The least recently used of the unused buffers, from the end of the list.
Recyclable == {b \in Bufs : Unused(b)}
LeastRecent == mru[CHOOSE i \in 1 .. NBUF :
                     mru[i] \in Recyclable /\ \A j \in i + 1 .. NBUF : mru[j] \notin Recyclable]

\* bget, up to acquiresleep; without an unused buffer it panics.
bget(p, n) ==
  /\ pc[p] = "idle"
  /\ \/ \E b \in Cached(n) :
          /\ refcnt' = [refcnt EXCEPT ![b] = @ + 1]
          /\ cur' = [cur EXCEPT ![p] = b]
          /\ UNCHANGED <<blockno, valid, dirty>>
     \/ /\ Cached(n) = {} /\ Recyclable # {}
        /\ blockno' = [blockno EXCEPT ![LeastRecent] = n]
        /\ valid' = [valid EXCEPT ![LeastRecent] = FALSE]
        /\ dirty' = [dirty EXCEPT ![LeastRecent] = FALSE]
        /\ refcnt' = [refcnt EXCEPT ![LeastRecent] = 1]
        /\ cur' = [cur EXCEPT ![p] = LeastRecent]
  /\ pc' = [pc EXCEPT ![p] = "lock"]
  /\ UNCHANGED <<fresh, locked, mru, idequeue, wire, disk>>

LockFree(b) == locked[b] = None

acquiresleep(p) ==
  /\ pc[p] = "lock" /\ LockFree(cur[p])
  /\ locked' = [locked EXCEPT ![cur[p]] = p]
  /\ pc' = [pc EXCEPT ![p] = IF valid[cur[p]] THEN "use" ELSE "iderw"]
  /\ UNCHANGED <<blockno, valid, dirty, refcnt, fresh, mru, idequeue, wire, disk, cur>>

\* The holder changes the data: other copies of the block are out of date.
Changed(b) ==
  /\ fresh' = [c \in Bufs |-> IF blockno[c] = blockno[b] THEN c = b ELSE fresh[c]]
  /\ disk' = [disk EXCEPT ![blockno[b]] = FALSE]
  /\ dirty' = [dirty EXCEPT ![b] = TRUE]

\* bwrite, up to iderw.
bwrite(p) ==
  /\ pc[p] = "use"
  /\ Changed(cur[p])
  /\ pc' = [pc EXCEPT ![p] = "iderw"]
  /\ UNCHANGED <<blockno, valid, refcnt, locked, mru, idequeue, wire, cur>>

\* commit() writes a dirty buffer as it is.
flush(p) ==
  /\ pc[p] = "use" /\ dirty[cur[p]]
  /\ pc' = [pc EXCEPT ![p] = "iderw"]
  /\ UNCHANGED <<bufvars, idequeue, wire, disk, cur>>

\* log_write marks the buffer dirty and leaves it so until the commit.
log_write(p) ==
  /\ pc[p] = "use"
  /\ Cardinality({b \in Bufs : dirty[b] /\ b # cur[p]}) < MaxPinned
  /\ Changed(cur[p])
  /\ UNCHANGED <<blockno, valid, refcnt, locked, mru, idequeue, wire, pc, cur>>

\* brelse: releasesleep, then the reference and the list under bcache.lock.
releasesleep(p) ==
  /\ pc[p] = "use"
  /\ locked' = [locked EXCEPT ![cur[p]] = None]
  /\ pc' = [pc EXCEPT ![p] = "brelse"]
  /\ UNCHANGED <<blockno, valid, dirty, refcnt, fresh, mru, idequeue, wire, disk, cur>>

\* Mutants: the reference of a waiting process is dropped too, or none is.
RefsLeft_none(b) == 0
RefsLeft_kept(b) == refcnt[b]

RefsLeft(b) == refcnt[b] - 1

\* The list with b taken out and put in front.
ToFront(b) ==
  LET i == CHOOSE i \in 1 .. NBUF : mru[i] = b
  IN  [j \in 1 .. NBUF |-> IF j = 1 THEN b ELSE IF j <= i THEN mru[j - 1] ELSE mru[j]]

brelse(p) ==
  /\ pc[p] = "brelse"
  /\ refcnt' = [refcnt EXCEPT ![cur[p]] = RefsLeft(cur[p])]
  /\ mru' = IF refcnt'[cur[p]] = 0 THEN ToFront(cur[p]) ELSE mru
  /\ pc' = [pc EXCEPT ![p] = "idle"] /\ cur' = [cur EXCEPT ![p] = None]
  /\ UNCHANGED <<blockno, valid, dirty, fresh, locked, idequeue, wire, disk>>

-----------------------------------------------------------------------------
(* The disk.                                                               *)

\* The request at the head; a write's data goes to the controller.
idestart(q) == wire' = IF q # <<>> /\ dirty[Head(q)] THEN fresh[Head(q)] ELSE wire

\* Mutant: a request goes to the front of the queue.
Enqueued_front(b) == <<b>> \o idequeue

Enqueued(b) == Append(idequeue, b)

\* iderw, up to its wait.
iderw(p) ==
  /\ pc[p] = "iderw"
  /\ idequeue' = Enqueued(cur[p])
  /\ IF idequeue = <<>> THEN idestart(idequeue') ELSE UNCHANGED wire
  /\ pc' = [pc EXCEPT ![p] = "io"]
  /\ UNCHANGED <<bufvars, disk, cur>>

NextRequest(q) == Tail(q)

\* The interrupt of the request at the head.
ideintr ==
  /\ idequeue # <<>>
  /\ LET b == Head(idequeue)
     IN  /\ IF dirty[b]
              THEN /\ disk' = [disk EXCEPT ![blockno[b]] = wire]
                   /\ UNCHANGED fresh
              ELSE /\ fresh' = [fresh EXCEPT ![b] = disk[blockno[b]]]
                   /\ UNCHANGED disk
         /\ valid' = [valid EXCEPT ![b] = TRUE]
         /\ dirty' = [dirty EXCEPT ![b] = FALSE]
  /\ idequeue' = NextRequest(idequeue)
  /\ idestart(idequeue')
  /\ UNCHANGED <<blockno, refcnt, locked, mru, pc, cur>>

\* The end of iderw's wait.
iodone(p) ==
  /\ pc[p] = "io" /\ valid[cur[p]] /\ ~dirty[cur[p]]
  /\ pc' = [pc EXCEPT ![p] = "use"]
  /\ UNCHANGED <<bufvars, idequeue, wire, disk, cur>>

Next ==
  \/ \E p \in Procs :
       \/ \E n \in Blocks : bget(p, n)
       \/ acquiresleep(p) \/ bwrite(p) \/ flush(p) \/ log_write(p)
       \/ releasesleep(p) \/ brelse(p) \/ iderw(p) \/ iodone(p)
  \/ ideintr

\* The disk answers and a process that can go on does.
Fairness == WF_vars(ideintr) /\ \A p \in Procs : WF_vars(iderw(p)) /\ WF_vars(iodone(p))

Spec == Init /\ [][Next]_vars
FairSpec == Spec /\ Fairness

-----------------------------------------------------------------------------
Using == {p \in Procs : pc[p] \in {"use", "iderw", "io"}}

\* A block has one copy in memory ("caching disk blocks in memory reduces the
\* number of disk reads and also provides a synchronization point", bio.c 5) and
\* one user at a time, and a process that waits for a buffer finds in it the
\* block it asked for: the buffer is not recycled between bget's bcache.lock and
\* acquiresleep.
OneCopy ==
  /\ \A n \in Blocks : Cardinality(Cached(n)) <= 1
  /\ \A p, q \in Using : cur[p] = cur[q] => p = q
  /\ \A p \in Using : locked[cur[p]] = p
  /\ \A b \in Bufs : refcnt[b] = Cardinality({p \in Procs : cur[p] = b})

\* Whoever has a locked, valid buffer sees what was last written to the block,
\* however often it was recycled and read again: a dirty buffer, which exists
\* nowhere else, is never recycled (bio.c 78), and bwrite is synchronous, so that
\* a valid buffer that is not dirty is on the disk.
ReadsLatest ==
  /\ \A p \in Procs : pc[p] = "use" => fresh[cur[p]]
  /\ \A b \in Bufs : valid[b] /\ ~dirty[b] /\ blockno[b] # None => disk[blockno[b]] /\ fresh[b]

\* panic("bget: no buffers") (bio.c 92) is unreachable when there is a buffer
\* for each process besides the ones the log pins.
BufferLeft == \A p \in Procs : pc[p] = "idle" => Recyclable # {}

\* A disk request is answered: ideintr starts the next one.
IoCompletes == \A p \in Procs : pc[p] = "iderw" ~> pc[p] = "use"
=============================================================================
