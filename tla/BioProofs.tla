------------------------------ MODULE BioProofs ------------------------------
(***************************************************************************)
(* For every number of processes, blocks and buffers: the buffer cache has *)
(* one copy of a block, shows what was last written to it, and does not    *)
(* run out of buffers.                                                     *)
(***************************************************************************)
EXTENDS Bio, FiniteSetTheorems, TLAPS

Places == {"idle", "lock", "use", "iderw", "io", "brelse"}

Types ==
  /\ blockno \in [Bufs -> Blocks \cup {None}]
  /\ valid \in [Bufs -> BOOLEAN] /\ dirty \in [Bufs -> BOOLEAN]
  /\ fresh \in [Bufs -> BOOLEAN] /\ refcnt \in [Bufs -> Nat]
  /\ locked \in [Bufs -> Procs \cup {None}]
  /\ mru \in [1 .. NBUF -> Bufs] /\ idequeue \in Seq(Bufs)
  /\ wire \in BOOLEAN /\ disk \in [Blocks -> BOOLEAN]
  /\ pc \in [Procs -> Places] /\ cur \in [Procs -> Bufs \cup {None}]

\* Every buffer is on the list.
Listed == \A b \in Bufs : \E i \in 1 .. NBUF : mru[i] = b

\* No two buffers hold the same block.
Unique == \A b, c \in Bufs : blockno[b] = blockno[c] /\ blockno[b] # None => b = c

\* A process that is not idle has a buffer, with a block.
Held ==
  \A p \in Procs :
    /\ pc[p] = "idle" <=> cur[p] = None
    /\ cur[p] # None => blockno[cur[p]] # None

Holders(b) == {p \in Procs : cur[p] = b}
Counted == \A b \in Bufs : refcnt[b] = Cardinality(Holders(b))

\* The sleep lock of a buffer is held by the process that uses it.
Locks == \A b \in Bufs, p \in Procs : locked[b] = p <=> p \in Using /\ cur[p] = b

\* What a request is about.
Pending(b) == ~valid[b] \/ dirty[b]

\* A buffer is queued once, by a process that waits for it, and the data of
\* the request at the head have gone to the controller.
Requests ==
  /\ \A i, j \in 1 .. Len(idequeue) : idequeue[i] = idequeue[j] => i = j
  /\ \A i \in 1 .. Len(idequeue) :
       Pending(idequeue[i]) /\ \E p \in Procs : pc[p] = "io" /\ cur[p] = idequeue[i]
  /\ \A p \in Procs : pc[p] = "iderw" => Pending(cur[p])
  /\ idequeue # <<>> /\ dirty[Head(idequeue)] => wire = TRUE

\* The last write to a block is in its dirty buffer or, if there is none, on disk.
Data ==
  /\ \A b \in Bufs : dirty[b] => valid[b] /\ fresh[b]
  /\ \A b \in Bufs : valid[b] => blockno[b] # None
  /\ \A b \in Bufs : valid[b] /\ ~dirty[b] => fresh[b]
  /\ \A n \in Blocks : ~disk[n] => \E b \in Bufs : blockno[b] = n /\ dirty[b]
  /\ \A p \in Procs : pc[p] = "use" => valid[cur[p]]

\* The buffers that are dirty and not on their way to the disk.
Pinned ==
  {b \in Bufs : dirty[b] /\ \A p \in Procs : pc[p] \in {"iderw", "io"} => cur[p] # b}

BioInv ==
  /\ Types /\ Listed /\ Unique /\ Held /\ Counted /\ Locks /\ Requests /\ Data
  /\ Cardinality(Pinned) <= MaxPinned

-----------------------------------------------------------------------------
\* None is no process, block or buffer.
LEMMA Nones ==
  /\ None \notin Procs /\ None \notin Blocks /\ None \notin Bufs
  /\ IsFiniteSet(Procs) /\ NBUF \in Nat /\ MaxPinned \in Nat
BY BioAssumption DEF Bufs

\* There are finitely many buffers and holders.
LEMMA Finite ==
  /\ IsFiniteSet(Bufs) /\ Cardinality(Bufs) = NBUF
  /\ IsFiniteSet(Pinned) /\ Cardinality(Pinned) \in Nat
  /\ \A b : IsFiniteSet(Holders(b)) /\ Cardinality(Holders(b)) \in Nat
<1>1. IsFiniteSet(Bufs) /\ Cardinality(Bufs) = NBUF
  BY Nones, FS_Interval DEF Bufs
<1>2. Pinned \subseteq Bufs /\ \A b : Holders(b) \subseteq Procs
  BY DEF Pinned, Holders
<1> QED
  BY <1>1, <1>2, Nones, FS_Subset, FS_CardinalityType

\* What may be dirty and lie about does not grow.
LEMMA FewerPinned ==
  ASSUME Pinned' \subseteq Pinned, Cardinality(Pinned) <= MaxPinned
  PROVE  Cardinality(Pinned') <= MaxPinned
<1>1. IsFiniteSet(Pinned) /\ Cardinality(Pinned) \in Nat
  BY Finite
<1>2. IsFiniteSet(Pinned') /\ Cardinality(Pinned') <= Cardinality(Pinned)
  BY <1>1, FS_Subset
<1>3. Cardinality(Pinned') \in Nat
  BY <1>2, FS_CardinalityType
<1> QED
  BY <1>1, <1>2, <1>3, Nones

\* A buffer nobody holds has no references.
LEMMA NoHolder ==
  ASSUME BioInv, NEW b \in Bufs
  PROVE  refcnt[b] = 0 <=> \A p \in Procs : cur[p] # b
<1>1. refcnt[b] = 0 <=> Holders(b) = {}
  BY Finite, FS_EmptySet DEF BioInv, Counted
<1> QED
  BY <1>1 DEF Holders

\* A set of indices that is not empty has a last one.
LEMMA Last ==
  ASSUME NEW I \in SUBSET (1 .. NBUF), I # {}
  PROVE  \E i \in I : \A j \in I : j <= i
<1> DEFINE back == {NBUF - i : i \in I}
           less == OpToRel(<, Nat)
<1>1. back \subseteq Nat /\ back # {}
  <2>1. ASSUME NEW i \in I PROVE NBUF - i \in Nat
    BY Nones
  <2> QED
    BY <2>1, Zenon
<1>2. \E x \in back : \A y \in back : <<y, x>> \notin less
  <2> HIDE DEF less, back
  <2>1. IsWellFoundedOn(less, Nat)
    BY NatLessThanWellFounded, Zenon DEF less
  <2> QED
    BY <1>1, <2>1, WFMin, Zenon
<1>3. PICK i \in I : \A y \in back : <<y, NBUF - i>> \notin less
  BY <1>2, Zenon
<1>4. ASSUME NEW j \in I PROVE j <= i
  <2>1. NBUF - j \in Nat /\ NBUF - i \in Nat /\ i \in Int /\ j \in Int
    BY Nones
  <2>2. ~(NBUF - j < NBUF - i)
    BY <1>3, <2>1, Zenon DEF OpToRel
  <2> QED
    BY <2>1, <2>2, Nones
<1> QED
  BY <1>4

\* bget's search from the end of the list finds an unused buffer if there is one.
LEMMA Recycled ==
  ASSUME BioInv, Recyclable # {}
  PROVE  LeastRecent \in Recyclable
<1> DEFINE I == {i \in 1 .. NBUF : mru[i] \in Recyclable}
<1>1. I # {}
  BY DEF BioInv, Listed, Recyclable
<1>2. PICK i \in I : \A j \in I : j <= i
  BY <1>1, Last, Zenon
<1>3. mru[i] \in Recyclable /\ \A j \in i + 1 .. NBUF : mru[j] \notin Recyclable
  BY <1>2, Nones
<1> QED
  BY <1>2, <1>3 DEF LeastRecent

\* The caches at boot.
LEMMA InitInv == Init => BioInv
<1> SUFFICES ASSUME Init PROVE BioInv
  OBVIOUS
<1> USE Nones DEF Init
<1>1. Types
  <2>1. mru \in [1 .. NBUF -> Bufs]
    BY DEF Bufs
  <2>2. idequeue \in Seq(Bufs)
    OBVIOUS
  <2>3. /\ valid \in [Bufs -> BOOLEAN] /\ dirty \in [Bufs -> BOOLEAN]
        /\ fresh \in [Bufs -> BOOLEAN] /\ disk \in [Blocks -> BOOLEAN]
        /\ wire \in BOOLEAN
    BY Zenon
  <2>4. /\ blockno \in [Bufs -> Blocks \cup {None}] /\ refcnt \in [Bufs -> Nat]
        /\ locked \in [Bufs -> Procs \cup {None}] /\ cur \in [Procs -> Bufs \cup {None}]
        /\ pc \in [Procs -> Places]
    BY DEF Places
  <2> QED
    BY <2>1, <2>2, <2>3, <2>4, Zenon DEF Types
<1>2. Listed
  <2>1. ASSUME NEW b \in Bufs PROVE NBUF + 1 - b \in 1 .. NBUF /\ mru[NBUF + 1 - b] = b
    BY DEF Bufs
  <2> QED
    BY <2>1, Zenon DEF Listed
<1>3. Unique /\ Held /\ Locks /\ Data
  BY DEF Unique, Held, Locks, Using, Data
<1>4. Requests
  BY DEF Requests
<1>5. Counted
  <2>1. ASSUME NEW b \in Bufs PROVE Holders(b) = {}
    BY DEF Holders
  <2> QED
    BY <2>1, FS_EmptySet, Zenon DEF Counted
<1>6. Cardinality(Pinned) <= MaxPinned
  <2>1. Pinned = {}
    BY DEF Pinned
  <2> QED
    BY <2>1, FS_EmptySet
<1> QED
  BY <1>1, <1>2, <1>3, <1>4, <1>5, <1>6 DEF BioInv

\* A process that uses a buffer is alone with it.
LEMMA Alone ==
  ASSUME BioInv, NEW p \in Using, NEW q \in Procs, q # p, cur[q] = cur[p]
  PROVE  q \notin Using /\ cur[p] \in Bufs
<1>1. p \in Procs /\ pc[p] # "idle"
  BY DEF Using
<1>2. cur[p] \in Bufs
  BY <1>1 DEF BioInv, Types, Held
<1>3. locked[cur[p]] = p
  BY <1>1, <1>2 DEF BioInv, Locks
<1>4. q \notin Using
  BY <1>2, <1>3 DEF BioInv, Locks
<1> QED
  BY <1>2, <1>4

\* A buffer in use is in the queue only for a request of its user.
LEMMA NotQueued ==
  ASSUME BioInv, NEW p \in Using, pc[p] # "io" \/ ~Pending(cur[p])
  PROVE  \A i \in 1 .. Len(idequeue) : idequeue[i] # cur[p]
<1> SUFFICES ASSUME NEW i \in 1 .. Len(idequeue), idequeue[i] = cur[p] PROVE FALSE
  OBVIOUS
<1>1. Pending(cur[p]) /\ \E q \in Procs : pc[q] = "io" /\ cur[q] = cur[p]
  BY DEF BioInv, Requests
<1>2. PICK q \in Procs : pc[q] = "io" /\ cur[q] = cur[p]
  BY <1>1
<1>3. q # p /\ q \in Using
  BY <1>1, <1>2 DEF Using
<1> QED
  BY <1>2, <1>3, Alone

\* What a step leaves alone keeps the parts of the invariant that are about it.
LEMMA Kept ==
  /\ Listed /\ mru' = mru => Listed'
  /\ Unique /\ blockno' = blockno => Unique'
  /\ Counted /\ refcnt' = refcnt /\ cur' = cur => Counted'
  /\ Locks /\ locked' = locked /\ cur' = cur /\ Using' = Using => Locks'
<1>1. Listed /\ mru' = mru => Listed'
  BY Zenon DEF Listed
<1>2. Unique /\ blockno' = blockno => Unique'
  BY Zenon DEF Unique
<1>3. Counted /\ refcnt' = refcnt /\ cur' = cur => Counted'
  BY Zenon DEF Counted, Holders
<1>4. Locks /\ locked' = locked /\ cur' = cur /\ Using' = Using => Locks'
  BY Zenon DEF Locks
<1> QED
  BY <1>1, <1>2, <1>3, <1>4, Zenon

\* The users of the buffers stay as they are.
LEMMA LocksKept ==
  ASSUME Locks, locked' = locked, Using' = Using, \A q \in Using : cur'[q] = cur[q]
  PROVE  Locks'
<1>1. ASSUME NEW b \in Bufs, NEW q \in Procs
      PROVE  locked[b] = q <=> q \in Using /\ cur'[q] = b
  <2>1. locked[b] = q <=> q \in Using /\ cur[q] = b
    BY Zenon DEF Locks
  <2> QED
    BY <2>1, Zenon
<1> QED
  BY <1>1, Zenon DEF Locks

\* A process that goes from one place to another and keeps its buffer.
LEMMA HeldKept ==
  ASSUME Held, blockno' = blockno, cur' = cur,
         \A q \in Procs : pc'[q] = "idle" <=> pc[q] = "idle"
  PROVE  Held'
BY Zenon DEF Held

\* A step that leaves the copies of the blocks alone, and uses only valid ones.
LEMMA DataKept ==
  ASSUME Data, blockno' = blockno, valid' = valid, dirty' = dirty, fresh' = fresh, disk' = disk,
         \A q \in Procs : pc'[q] = "use" => valid[cur'[q]]
  PROVE  Data'
BY Zenon DEF Data

\* A step that leaves the dirty buffers alone, and the requests.
LEMMA PinnedKept ==
  ASSUME Cardinality(Pinned) <= MaxPinned,
         \A b \in Bufs : dirty'[b] => dirty[b],
         \A q \in Procs : pc[q] \in {"iderw", "io"} =>
           cur'[q] = cur[q] /\ (pc'[q] \in {"iderw", "io"} \/ ~dirty'[cur[q]])
  PROVE  Cardinality(Pinned') <= MaxPinned
<1>1. Pinned' \subseteq Pinned
  BY Zenon DEF Pinned
<1> QED
  BY <1>1, FewerPinned, Zenon

\* A step that leaves the queued buffers to those who wait for them leaves the
\* requests alone.
LEMMA RequestsKept ==
  ASSUME Types, Requests, idequeue' = idequeue, wire' = wire,
         \A i \in 1 .. Len(idequeue) :
           /\ valid'[idequeue[i]] <=> valid[idequeue[i]]
           /\ dirty'[idequeue[i]] <=> dirty[idequeue[i]],
         \A i \in 1 .. Len(idequeue), q \in Procs :
           pc[q] = "io" /\ cur[q] = idequeue[i] => pc'[q] = "io" /\ cur'[q] = cur[q],
         \A q \in Procs : pc'[q] = "iderw" => Pending(cur[q])'
  PROVE  Requests'
<1>1. ASSUME NEW i \in 1 .. Len(idequeue)
      PROVE  Pending(idequeue[i])' /\ \E q \in Procs : pc'[q] = "io" /\ cur'[q] = idequeue[i]
  <2>1. PICK q \in Procs : pc[q] = "io" /\ cur[q] = idequeue[i]
    BY Zenon DEF Requests
  <2>2. pc'[q] = "io" /\ cur'[q] = idequeue[i]
    BY <2>1, Zenon
  <2>3. Pending(idequeue[i])
    BY Zenon DEF Requests
  <2>4. Pending(idequeue[i])'
    BY <2>3, Zenon DEF Pending
  <2> QED
    BY <2>2, <2>4, Zenon
<1>2. \A i, j \in 1 .. Len(idequeue) : idequeue[i] = idequeue[j] => i = j
  BY Zenon DEF Requests
<1>3. idequeue # <<>> => 1 \in 1 .. Len(idequeue) /\ Head(idequeue) = idequeue[1]
  BY DEF Types
<1>4. idequeue # <<>> => (dirty'[Head(idequeue)] <=> dirty[Head(idequeue)])
  BY <1>3, Zenon
<1>5. idequeue # <<>> /\ dirty[Head(idequeue)] => wire = TRUE
  BY Zenon DEF Requests
<1>6. idequeue # <<>> /\ dirty'[Head(idequeue)] => wire = TRUE
  BY <1>4, <1>5, Zenon
<1> QED
  BY <1>1, <1>2, <1>6, Zenon DEF Requests

\* A process waits or writes alone: what it does to its buffer, which is not
\* queued, leaves the requests of the others alone.
LEMMA OwnRequestsKept ==
  ASSUME BioInv, NEW p \in Using, idequeue' = idequeue, wire' = wire, cur' = cur,
         \A i \in 1 .. Len(idequeue) : idequeue[i] # cur[p],
         \A q \in Procs : q # p => pc'[q] = pc[q],
         \A b \in Bufs : b # cur[p] => (valid'[b] <=> valid[b]) /\ (dirty'[b] <=> dirty[b]),
         pc'[p] = "iderw" => Pending(cur[p])'
  PROVE  Requests'
<1>1. Types /\ Requests /\ Held
  BY Zenon DEF BioInv
<1>2. \A i \in 1 .. Len(idequeue) : idequeue[i] \in Bufs
  BY <1>1 DEF Types
<1>3. \A i \in 1 .. Len(idequeue) :
        /\ valid'[idequeue[i]] <=> valid[idequeue[i]]
        /\ dirty'[idequeue[i]] <=> dirty[idequeue[i]]
  BY <1>2, Zenon
<1>4. \A i \in 1 .. Len(idequeue), q \in Procs :
        pc[q] = "io" /\ cur[q] = idequeue[i] => pc'[q] = "io" /\ cur'[q] = cur[q]
  BY Zenon
<1>5. ASSUME NEW q \in Procs, pc'[q] = "iderw" PROVE Pending(cur[q])'
  <2>1. CASE q = p
    BY <1>5, <2>1, Zenon
  <2>2. CASE q # p
    <3>1. pc[q] = "iderw"
      BY <1>5, <2>2, Zenon
    <3>2. cur[q] \in Bufs
      BY <1>1, <3>1 DEF Types, Held
    <3>3. cur[q] # cur[p]
      BY <2>2, <3>1, Alone, Zenon DEF Using
    <3>4. Pending(cur[q])
      BY <1>1, <3>1, Zenon DEF Requests
    <3> QED
      BY <3>2, <3>3, <3>4, Zenon DEF Pending
  <2> QED
    BY <2>1, <2>2, Zenon
<1> QED
  BY <1>1, <1>3, <1>4, <1>5, RequestsKept, Zenon

\* A process that gets the sleep lock.
LEMMA AcquiresleepInv ==
  ASSUME BioInv, NEW p \in Procs, acquiresleep(p)
  PROVE  BioInv'
<1>1. Types /\ Listed /\ Unique /\ Held /\ Counted /\ Locks /\ Requests /\ Data
      /\ Cardinality(Pinned) <= MaxPinned
  BY Zenon DEF BioInv
<1>2. /\ blockno' = blockno /\ valid' = valid /\ dirty' = dirty /\ refcnt' = refcnt /\ fresh' = fresh
      /\ mru' = mru /\ idequeue' = idequeue /\ wire' = wire /\ disk' = disk /\ cur' = cur
  BY Zenon DEF acquiresleep
<1>3. /\ pc[p] = "lock" /\ pc'[p] = (IF valid[cur[p]] THEN "use" ELSE "iderw")
      /\ \A q \in Procs : q # p => pc'[q] = pc[q]
  BY <1>1 DEF Types, acquiresleep
<1>4. cur[p] \in Bufs /\ locked[cur[p]] = None /\ locked'[cur[p]] = p
      /\ \A b \in Bufs : b # cur[p] => locked'[b] = locked[b]
  BY <1>1, <1>3 DEF Types, Held, acquiresleep, LockFree
<1>5. Types'
  <2>1. pc' \in [Procs -> Places] /\ locked' \in [Bufs -> Procs \cup {None}]
    BY <1>1, <1>4 DEF Types, Places, acquiresleep
  <2> QED
    BY <1>1, <1>2, <2>1, Zenon DEF Types
<1>6. Listed' /\ Unique' /\ Counted'
  BY <1>1, <1>2, Kept, Zenon
<1>7. Held'
  <2>1. \A q \in Procs : pc'[q] = "idle" <=> pc[q] = "idle"
    BY <1>3
  <2> QED
    BY <1>1, <1>2, <2>1, HeldKept, Zenon
<1>8. Locks'
  <2>1. p \notin Using /\ p \in Using' /\ \A q \in Procs : q # p => (q \in Using' <=> q \in Using)
    BY <1>3 DEF Using
  <2>2. ASSUME NEW b \in Bufs, NEW q \in Procs
        PROVE  locked'[b] = q <=> q \in Using' /\ cur[q] = b
    <3>1. locked[b] = q <=> q \in Using /\ cur[q] = b
      BY <1>1, Zenon DEF Locks
    <3> QED
      BY <1>4, <2>1, <3>1, Nones
  <2> QED
    BY <1>2, <2>2, Zenon DEF Locks
<1>9. Requests'
  <2>1. \A q \in Procs : pc'[q] = "iderw" => Pending(cur[q])'
    <3>1. \A q \in Procs : pc'[q] = "iderw" => Pending(cur[q])
      BY <1>1, <1>3 DEF Requests, Pending
    <3> QED
      BY <1>2, <3>1, Zenon DEF Pending
  <2>2. \A q \in Procs : pc[q] = "io" => pc'[q] = "io" /\ cur'[q] = cur[q]
    BY <1>2, <1>3
  <2> QED
    BY <1>1, <1>2, <2>1, <2>2, RequestsKept, Zenon
<1>10. Data'
  <2>1. \A q \in Procs : pc'[q] = "use" => valid[cur[q]]
    BY <1>1, <1>3 DEF Data
  <2> QED
    BY <1>1, <1>2, <2>1, DataKept, Zenon
<1>11. Cardinality(Pinned') <= MaxPinned
  <2>1. \A q \in Procs : pc[q] \in {"iderw", "io"} => pc'[q] \in {"iderw", "io"}
    BY <1>3
  <2> QED
    BY <1>1, <1>2, <2>1, PinnedKept, Zenon
<1> QED
  BY <1>5, <1>6, <1>7, <1>8, <1>9, <1>10, <1>11, Zenon DEF BioInv

\* A dirty buffer goes to the disk as it is.
LEMMA FlushInv ==
  ASSUME BioInv, NEW p \in Procs, flush(p)
  PROVE  BioInv'
<1>1. Types /\ Listed /\ Unique /\ Held /\ Counted /\ Locks /\ Requests /\ Data
      /\ Cardinality(Pinned) <= MaxPinned
  BY Zenon DEF BioInv
<1>2. /\ blockno' = blockno /\ valid' = valid /\ dirty' = dirty /\ refcnt' = refcnt /\ fresh' = fresh
      /\ mru' = mru /\ idequeue' = idequeue /\ wire' = wire /\ disk' = disk /\ cur' = cur
      /\ locked' = locked
  BY Zenon DEF flush, bufvars
<1>3. /\ pc[p] = "use" /\ pc'[p] = "iderw" /\ \A q \in Procs : q # p => pc'[q] = pc[q]
      /\ pc' \in [Procs -> Places] /\ dirty[cur[p]]
  BY <1>1 DEF Types, Places, flush
<1>4. p \in Using /\ Using' = Using
  BY <1>3 DEF Using
<1>5. Types'
  BY <1>1, <1>2, <1>3, Zenon DEF Types
<1>6. Listed' /\ Unique' /\ Counted' /\ Locks'
  BY <1>1, <1>2, <1>4, Kept, Zenon
<1>7. Held'
  <2>1. \A q \in Procs : pc'[q] = "idle" <=> pc[q] = "idle"
    BY <1>3
  <2> QED
    BY <1>1, <1>2, <2>1, HeldKept, Zenon
<1>8. Requests'
  <2>1. \A i \in 1 .. Len(idequeue) : idequeue[i] # cur[p]
    BY <1>3, <1>4, NotQueued, Zenon DEF Pending
  <2>2. pc'[p] = "iderw" => Pending(cur[p])'
    BY <1>2, <1>3, Zenon DEF Pending
  <2> QED
    BY <1>2, <1>3, <1>4, <2>1, <2>2, OwnRequestsKept, Zenon
<1>9. Data'
  <2>1. \A q \in Procs : pc'[q] = "use" => valid[cur[q]]
    BY <1>1, <1>3 DEF Data
  <2> QED
    BY <1>1, <1>2, <2>1, DataKept, Zenon
<1>10. Cardinality(Pinned') <= MaxPinned
  <2>1. \A q \in Procs : pc[q] \in {"iderw", "io"} => pc'[q] \in {"iderw", "io"}
    BY <1>3
  <2> QED
    BY <1>1, <1>2, <2>1, PinnedKept, Zenon
<1> QED
  BY <1>5, <1>6, <1>7, <1>8, <1>9, <1>10, Zenon DEF BioInv

\* The lock is released, the reference kept.
LEMMA ReleasesleepInv ==
  ASSUME BioInv, NEW p \in Procs, releasesleep(p)
  PROVE  BioInv'
<1>1. Types /\ Listed /\ Unique /\ Held /\ Counted /\ Locks /\ Requests /\ Data
      /\ Cardinality(Pinned) <= MaxPinned
  BY Zenon DEF BioInv
<1>2. /\ blockno' = blockno /\ valid' = valid /\ dirty' = dirty /\ refcnt' = refcnt /\ fresh' = fresh
      /\ mru' = mru /\ idequeue' = idequeue /\ wire' = wire /\ disk' = disk /\ cur' = cur
  BY Zenon DEF releasesleep
<1>3. pc[p] = "use" /\ pc'[p] = "brelse" /\ \A q \in Procs : q # p => pc'[q] = pc[q]
  BY <1>1 DEF Types, releasesleep
<1>4. cur[p] \in Bufs /\ locked'[cur[p]] = None
      /\ \A b \in Bufs : b # cur[p] => locked'[b] = locked[b]
  BY <1>1, <1>3 DEF Types, Held, releasesleep
<1>5. Types'
  <2>1. pc' \in [Procs -> Places] /\ locked' \in [Bufs -> Procs \cup {None}]
    BY <1>1, <1>4 DEF Types, Places, releasesleep
  <2> QED
    BY <1>1, <1>2, <2>1, Zenon DEF Types
<1>6. Listed' /\ Unique' /\ Counted'
  BY <1>1, <1>2, Kept, Zenon
<1>7. Held'
  <2>1. \A q \in Procs : pc'[q] = "idle" <=> pc[q] = "idle"
    BY <1>3
  <2> QED
    BY <1>1, <1>2, <2>1, HeldKept, Zenon
<1>8. Locks'
  <2>1. p \in Using /\ p \notin Using' /\ \A q \in Procs : q # p => (q \in Using' <=> q \in Using)
    BY <1>3 DEF Using
  <2>2. locked[cur[p]] = p
    BY <1>1, <1>4, <2>1, Zenon DEF Locks
  <2>3. ASSUME NEW b \in Bufs, NEW q \in Procs
        PROVE  locked'[b] = q <=> q \in Using' /\ cur[q] = b
    <3>1. locked[b] = q <=> q \in Using /\ cur[q] = b
      BY <1>1, Zenon DEF Locks
    <3> QED
      BY <1>4, <2>1, <2>2, <3>1, Nones
  <2> QED
    BY <1>2, <2>3, Zenon DEF Locks
<1>9. Requests'
  <2>1. \A q \in Procs : pc'[q] = "iderw" => Pending(cur[q])'
    <3>1. \A q \in Procs : pc'[q] = "iderw" => Pending(cur[q])
      BY <1>1, <1>3 DEF Requests
    <3> QED
      BY <1>2, <3>1, Zenon DEF Pending
  <2>2. \A q \in Procs : pc[q] = "io" => pc'[q] = "io" /\ cur'[q] = cur[q]
    BY <1>2, <1>3
  <2> QED
    BY <1>1, <1>2, <2>1, <2>2, RequestsKept, Zenon
<1>10. Data'
  <2>1. \A q \in Procs : pc'[q] = "use" => valid[cur[q]]
    BY <1>1, <1>3 DEF Data
  <2> QED
    BY <1>1, <1>2, <2>1, DataKept, Zenon
<1>11. Cardinality(Pinned') <= MaxPinned
  <2>1. \A q \in Procs : pc[q] \in {"iderw", "io"} => pc'[q] \in {"iderw", "io"}
    BY <1>3
  <2> QED
    BY <1>1, <1>2, <2>1, PinnedKept, Zenon
<1> QED
  BY <1>5, <1>6, <1>7, <1>8, <1>9, <1>10, <1>11, Zenon DEF BioInv

\* The end of the wait: the request has left the queue.
LEMMA IodoneInv ==
  ASSUME BioInv, NEW p \in Procs, iodone(p)
  PROVE  BioInv'
<1>1. Types /\ Listed /\ Unique /\ Held /\ Counted /\ Locks /\ Requests /\ Data
      /\ Cardinality(Pinned) <= MaxPinned
  BY Zenon DEF BioInv
<1>2. /\ blockno' = blockno /\ valid' = valid /\ dirty' = dirty /\ refcnt' = refcnt /\ fresh' = fresh
      /\ mru' = mru /\ idequeue' = idequeue /\ wire' = wire /\ disk' = disk /\ cur' = cur
      /\ locked' = locked
  BY Zenon DEF iodone, bufvars
<1>3. /\ pc[p] = "io" /\ pc'[p] = "use" /\ \A q \in Procs : q # p => pc'[q] = pc[q]
      /\ pc' \in [Procs -> Places] /\ valid[cur[p]] /\ ~dirty[cur[p]]
  BY <1>1 DEF Types, Places, iodone
<1>4. p \in Using /\ Using' = Using
  BY <1>3 DEF Using
<1>5. Types'
  BY <1>1, <1>2, <1>3, Zenon DEF Types
<1>6. Listed' /\ Unique' /\ Counted' /\ Locks'
  BY <1>1, <1>2, <1>4, Kept, Zenon
<1>7. Held'
  <2>1. \A q \in Procs : pc'[q] = "idle" <=> pc[q] = "idle"
    BY <1>3
  <2> QED
    BY <1>1, <1>2, <2>1, HeldKept, Zenon
<1>8. Requests'
  <2>1. \A i \in 1 .. Len(idequeue) : idequeue[i] # cur[p]
    BY <1>3, <1>4, NotQueued, Zenon DEF Pending
  <2>2. pc'[p] = "iderw" => Pending(cur[p])'
    BY <1>3
  <2> QED
    BY <1>2, <1>3, <1>4, <2>1, <2>2, OwnRequestsKept, Zenon
<1>9. Data'
  <2>1. \A q \in Procs : pc'[q] = "use" => valid[cur[q]]
    BY <1>1, <1>3 DEF Data
  <2> QED
    BY <1>1, <1>2, <2>1, DataKept, Zenon
<1>10. Cardinality(Pinned') <= MaxPinned
  <2>1. \A q \in Procs : pc[q] \in {"iderw", "io"} => pc'[q] \in {"iderw", "io"} \/ ~dirty[cur[q]]
    BY <1>3
  <2> QED
    BY <1>1, <1>2, <2>1, PinnedKept, Zenon
<1> QED
  BY <1>5, <1>6, <1>7, <1>8, <1>9, <1>10, Zenon DEF BioInv

\* What is written to a block is only in the buffer it was written to.
LEMMA ChangedData ==
  ASSUME Types, Unique, Data, NEW b \in Bufs, blockno[b] # None, valid[b], Changed(b),
         blockno' = blockno, valid' = valid, cur' = cur,
         \A q \in Procs : pc'[q] = "use" => pc[q] = "use"
  PROVE  /\ Data' /\ dirty'[b] /\ \A c \in Bufs : c # b => (dirty'[c] <=> dirty[c])
         /\ fresh' \in [Bufs -> BOOLEAN] /\ dirty' \in [Bufs -> BOOLEAN]
         /\ disk' \in [Blocks -> BOOLEAN]
<1>1. blockno[b] \in Blocks
  BY DEF Types
<1>2. fresh' \in [Bufs -> BOOLEAN] /\ dirty' \in [Bufs -> BOOLEAN] /\ disk' \in [Blocks -> BOOLEAN]
  BY Zenon DEF Types, Changed
<1>3. dirty'[b] = TRUE /\ \A c \in Bufs : c # b => dirty'[c] = dirty[c]
  BY DEF Types, Changed
<1>4. fresh'[b] /\ \A c \in Bufs : c # b => (fresh'[c] <=> fresh[c])
  <2>1. \A c \in Bufs : blockno[c] = blockno[b] => c = b
    BY Zenon DEF Unique
  <2>2. \A c \in Bufs : fresh'[c] = IF blockno[c] = blockno[b] THEN c = b ELSE fresh[c]
    BY Zenon DEF Changed
  <2> QED
    BY <2>1, <2>2, Zenon
<1>5. dirty'[b] /\ \A c \in Bufs : c # b => (dirty'[c] <=> dirty[c])
  BY <1>3
<1>6. \A c \in Bufs : dirty'[c] => valid[c] /\ fresh'[c]
  BY <1>4, <1>5, Zenon DEF Data
<1>7. \A c \in Bufs : valid[c] /\ ~dirty'[c] => fresh'[c]
  BY <1>4, <1>5, Zenon DEF Data
<1>8. ASSUME NEW n \in Blocks, ~disk'[n] PROVE \E c \in Bufs : blockno[c] = n /\ dirty'[c]
  <2>1. CASE n = blockno[b]
    BY <1>5, <2>1, Zenon
  <2>2. CASE n # blockno[b]
    <3>1. disk'[n] = disk[n]
      BY <2>2, Zenon DEF Types, Changed
    <3>2. ~disk[n]
      BY <1>8, <3>1, Zenon
    <3>3. PICK c \in Bufs : blockno[c] = n /\ dirty[c]
      BY <3>2, Zenon DEF Data
    <3> QED
      BY <1>5, <3>3, Zenon
  <2> QED
    BY <2>1, <2>2, Zenon
<1>9. \A q \in Procs : pc'[q] = "use" => valid[cur[q]]
  BY Zenon DEF Data
<1>10. \A c \in Bufs : valid[c] => blockno[c] # None
  BY Zenon DEF Data
<1>11. Data'
  BY <1>6, <1>7, <1>8, <1>9, <1>10, Zenon DEF Data
<1> QED
  BY <1>2, <1>5, <1>11, Zenon

\* The copy in the buffer is now the last one written.
LEMMA BwriteInv ==
  ASSUME BioInv, NEW p \in Procs, bwrite(p)
  PROVE  BioInv'
<1>1. Types /\ Listed /\ Unique /\ Held /\ Counted /\ Locks /\ Requests /\ Data
      /\ Cardinality(Pinned) <= MaxPinned
  BY Zenon DEF BioInv
<1>2. /\ blockno' = blockno /\ valid' = valid /\ refcnt' = refcnt /\ locked' = locked
      /\ mru' = mru /\ idequeue' = idequeue /\ wire' = wire /\ cur' = cur /\ Changed(cur[p])
  BY Zenon DEF bwrite
<1>3. /\ pc[p] = "use" /\ pc'[p] = "iderw" /\ \A q \in Procs : q # p => pc'[q] = pc[q]
      /\ pc' \in [Procs -> Places]
  BY <1>1 DEF Types, Places, bwrite
<1>4. p \in Using /\ Using' = Using
  BY <1>3 DEF Using
<1>5. cur[p] \in Bufs /\ blockno[cur[p]] # None /\ valid[cur[p]]
  <2>1. cur[p] \in Bufs
    BY <1>1, <1>3 DEF Types, Held
  <2>2. valid[cur[p]]
    BY <1>1, <1>3, Zenon DEF Data
  <2> QED
    BY <1>1, <2>1, <2>2, Zenon DEF Data
<1>6. /\ Data' /\ dirty'[cur[p]] /\ \A c \in Bufs : c # cur[p] => (dirty'[c] <=> dirty[c])
      /\ fresh' \in [Bufs -> BOOLEAN] /\ dirty' \in [Bufs -> BOOLEAN]
      /\ disk' \in [Blocks -> BOOLEAN]
  <2>1. \A q \in Procs : pc'[q] = "use" => pc[q] = "use"
    BY <1>3
  <2> QED
    BY <1>1, <1>2, <1>5, <2>1, ChangedData, Zenon
<1>7. Types'
  BY <1>1, <1>2, <1>3, <1>6, Zenon DEF Types
<1>8. Listed' /\ Unique' /\ Counted' /\ Locks'
  BY <1>1, <1>2, <1>4, Kept, Zenon
<1>9. Held'
  <2>1. \A q \in Procs : pc'[q] = "idle" <=> pc[q] = "idle"
    BY <1>3
  <2> QED
    BY <1>1, <1>2, <2>1, HeldKept, Zenon
<1>10. Requests'
  <2>1. pc[p] # "io"
    BY <1>3
  <2>2. \A i \in 1 .. Len(idequeue) : idequeue[i] # cur[p]
    BY <1>4, <2>1, NotQueued, Zenon
  <2>3. Pending(cur[p])'
    BY <1>2, <1>6, Zenon DEF Pending
  <2> QED
    BY <1>2, <1>3, <1>4, <1>6, <2>2, <2>3, OwnRequestsKept, Zenon
<1>11. Cardinality(Pinned') <= MaxPinned
  <2>1. Pinned' \subseteq Pinned
    <3>1. ASSUME NEW b \in Pinned' PROVE b \in Pinned
      <4>1. b \in Bufs /\ dirty'[b] /\ b # cur[p]
        BY <1>2, <1>3, Zenon DEF Pinned
      <4>2. dirty[b]
        BY <1>6, <4>1, Zenon
      <4>3. ASSUME NEW q \in Procs, pc[q] \in {"iderw", "io"} PROVE cur[q] # b
        <5>1. pc'[q] \in {"iderw", "io"}
          BY <1>3, <4>3
        <5> QED
          BY <1>2, <5>1, Zenon DEF Pinned
      <4> QED
        BY <4>1, <4>2, <4>3, Zenon DEF Pinned
    <3> QED
      BY <3>1, Zenon
  <2> QED
    BY <1>1, <2>1, FewerPinned, Zenon
<1> QED
  BY <1>6, <1>7, <1>8, <1>9, <1>10, <1>11, Zenon DEF BioInv

\* log_write: as bwrite, but the buffer stays, within the bound on pinned ones.
LEMMA LogWriteInv ==
  ASSUME BioInv, NEW p \in Procs, log_write(p)
  PROVE  BioInv'
<1>1. Types /\ Listed /\ Unique /\ Held /\ Counted /\ Locks /\ Requests /\ Data
      /\ Cardinality(Pinned) <= MaxPinned
  BY Zenon DEF BioInv
<1>2. /\ blockno' = blockno /\ valid' = valid /\ refcnt' = refcnt /\ locked' = locked
      /\ mru' = mru /\ idequeue' = idequeue /\ wire' = wire /\ cur' = cur /\ Changed(cur[p])
  BY Zenon DEF log_write
<1>3. /\ pc[p] = "use" /\ pc'[p] = "use" /\ \A q \in Procs : q # p => pc'[q] = pc[q]
      /\ pc' \in [Procs -> Places]
  BY <1>1 DEF Types, Places, log_write
<1>4. p \in Using /\ Using' = Using
  BY <1>3 DEF Using
<1>5. cur[p] \in Bufs /\ blockno[cur[p]] # None /\ valid[cur[p]]
  <2>1. cur[p] \in Bufs
    BY <1>1, <1>3 DEF Types, Held
  <2>2. valid[cur[p]]
    BY <1>1, <1>3, Zenon DEF Data
  <2> QED
    BY <1>1, <2>1, <2>2, Zenon DEF Data
<1>6. /\ Data' /\ dirty'[cur[p]] /\ \A c \in Bufs : c # cur[p] => (dirty'[c] <=> dirty[c])
      /\ fresh' \in [Bufs -> BOOLEAN] /\ dirty' \in [Bufs -> BOOLEAN]
      /\ disk' \in [Blocks -> BOOLEAN]
  <2>1. \A q \in Procs : pc'[q] = "use" => pc[q] = "use"
    BY <1>3
  <2> QED
    BY <1>1, <1>2, <1>5, <2>1, ChangedData, Zenon
<1>7. Types'
  BY <1>1, <1>2, <1>3, <1>6, Zenon DEF Types
<1>8. Listed' /\ Unique' /\ Counted' /\ Locks'
  BY <1>1, <1>2, <1>4, Kept, Zenon
<1>9. Held'
  <2>1. \A q \in Procs : pc'[q] = "idle" <=> pc[q] = "idle"
    BY <1>3
  <2> QED
    BY <1>1, <1>2, <2>1, HeldKept, Zenon
<1>10. Requests'
  <2>1. pc[p] # "io"
    BY <1>3
  <2>2. \A i \in 1 .. Len(idequeue) : idequeue[i] # cur[p]
    BY <1>4, <2>1, NotQueued, Zenon
  <2>3. Pending(cur[p])'
    BY <1>2, <1>6, Zenon DEF Pending
  <2> QED
    BY <1>2, <1>3, <1>4, <1>6, <2>2, <2>3, OwnRequestsKept, Zenon
<1>11. Cardinality(Pinned') <= MaxPinned
  <2> DEFINE others == {b \in Bufs : dirty[b] /\ b # cur[p]}
  <2>1. Cardinality(others) < MaxPinned
    BY Zenon DEF log_write
  <2>2. cur[p] \notin others /\ others \subseteq Bufs
    BY Zenon
  <2>3. Pinned' \subseteq others \cup {cur[p]}
    BY <1>6, Zenon DEF Pinned
  <2> HIDE DEF others
  <2>4. IsFiniteSet(others) /\ Cardinality(others) \in Nat
    BY <2>2, Finite, FS_Subset, FS_CardinalityType, Zenon
  <2>5. /\ IsFiniteSet(others \cup {cur[p]})
        /\ Cardinality(others \cup {cur[p]}) = Cardinality(others) + 1
    BY <2>2, <2>4, FS_AddElement, Zenon
  <2>6. Cardinality(Pinned') <= Cardinality(others \cup {cur[p]}) /\ IsFiniteSet(Pinned')
    BY <2>3, <2>5, FS_Subset, Zenon
  <2>7. Cardinality(Pinned') \in Nat
    BY <2>6, FS_CardinalityType, Zenon
  <2> QED
    BY <2>1, <2>4, <2>5, <2>6, <2>7, Nones
<1> QED
  BY <1>6, <1>7, <1>8, <1>9, <1>10, <1>11, Zenon DEF BioInv

\* ToFront rearranges the list.
LEMMA Moved ==
  ASSUME BioInv, NEW b \in Bufs
  PROVE  /\ ToFront(b) \in [1 .. NBUF -> Bufs]
         /\ \A c \in Bufs : \E i \in 1 .. NBUF : ToFront(b)[i] = c
<1> DEFINE at == CHOOSE i \in 1 .. NBUF : mru[i] = b
<1>1. at \in 1 .. NBUF /\ mru[at] = b
  BY DEF BioInv, Listed
<1> HIDE DEF at
<1>2. ToFront(b) = [j \in 1 .. NBUF |->
                      IF j = 1 THEN b ELSE IF j <= at THEN mru[j - 1] ELSE mru[j]]
  BY DEF ToFront, at
<1>3. mru \in [1 .. NBUF -> Bufs] /\ NBUF \in Nat
  BY Nones DEF BioInv, Types
<1>4. ToFront(b) \in [1 .. NBUF -> Bufs]
  BY <1>1, <1>2, <1>3
<1>5. ASSUME NEW c \in Bufs PROVE \E i \in 1 .. NBUF : ToFront(b)[i] = c
  <2>1. PICK k \in 1 .. NBUF : mru[k] = c
    BY DEF BioInv, Listed
  <2>2. CASE k = at
    BY <1>1, <1>2, <1>3, <2>1, <2>2
  <2>3. CASE k < at
    <3>1. k + 1 \in 1 .. NBUF /\ k + 1 # 1 /\ k + 1 <= at /\ (k + 1) - 1 = k
      BY <1>1, <1>3, <2>3
    <3> QED
      BY <1>2, <2>1, <3>1
  <2>4. CASE k > at
    <3>1. k # 1 /\ ~(k <= at)
      BY <1>1, <1>3, <2>4
    <3> QED
      BY <1>2, <2>1, <3>1
  <2> QED
    BY <1>1, <1>3, <2>2, <2>3, <2>4
<1> QED
  BY <1>4, <1>5

\* The reference is dropped, and the buffer of the last one goes to the front.
LEMMA BrelseInv ==
  ASSUME BioInv, NEW p \in Procs, brelse(p)
  PROVE  BioInv'
<1>1. Types /\ Listed /\ Unique /\ Held /\ Counted /\ Locks /\ Requests /\ Data
      /\ Cardinality(Pinned) <= MaxPinned
  BY Zenon DEF BioInv
<1>2. /\ blockno' = blockno /\ valid' = valid /\ dirty' = dirty /\ fresh' = fresh
      /\ locked' = locked /\ idequeue' = idequeue /\ wire' = wire /\ disk' = disk
  BY Zenon DEF brelse
<1>3. /\ pc[p] = "brelse" /\ pc'[p] = "idle" /\ cur'[p] = None
      /\ \A q \in Procs : q # p => pc'[q] = pc[q] /\ cur'[q] = cur[q]
      /\ pc' \in [Procs -> Places] /\ cur' \in [Procs -> Bufs \cup {None}]
  BY <1>1 DEF Types, Places, brelse
<1>4. cur[p] \in Bufs
  BY <1>1, <1>3 DEF Types, Held
<1>5. refcnt[cur[p]] # 0
  BY <1>4, NoHolder, Zenon
<1>6. refcnt' \in [Bufs -> Nat] /\ refcnt'[cur[p]] = refcnt[cur[p]] - 1
      /\ \A b \in Bufs : b # cur[p] => refcnt'[b] = refcnt[b]
  BY <1>1, <1>4, <1>5 DEF Types, brelse, RefsLeft
<1>7. mru' \in [1 .. NBUF -> Bufs] /\ Listed'
  <2>1. mru' = mru \/ mru' = ToFront(cur[p])
    BY Zenon DEF brelse
  <2>2. /\ ToFront(cur[p]) \in [1 .. NBUF -> Bufs]
        /\ \A b \in Bufs : \E k \in 1 .. NBUF : ToFront(cur[p])[k] = b
    BY <1>4, Moved, Zenon
  <2> QED
    BY <1>1, <2>1, <2>2, Zenon DEF Types, Listed
<1>8. Types'
  BY <1>1, <1>2, <1>3, <1>6, <1>7, Zenon DEF Types
<1>9. Unique'
  BY <1>1, <1>2, Kept, Zenon
<1>10. Held'
  <2>1. ASSUME NEW q \in Procs
        PROVE  (pc'[q] = "idle" <=> cur'[q] = None) /\ (cur'[q] # None => blockno[cur'[q]] # None)
    <3>1. (pc[q] = "idle" <=> cur[q] = None) /\ (cur[q] # None => blockno[cur[q]] # None)
      BY <1>1, Zenon DEF Held
    <3> QED
      BY <1>3, <3>1, Zenon
  <2> QED
    BY <1>2, <2>1, Zenon DEF Held
<1>11. Counted'
  <2>1. ASSUME NEW b \in Bufs PROVE refcnt'[b] = Cardinality(Holders(b)')
    <3>1. Holders(b)' = Holders(b) \ {p}
      BY <1>3, Nones DEF Bufs, Holders
    <3>2. p \in Holders(b) <=> b = cur[p]
      BY Zenon DEF Holders
    <3>3. Cardinality(Holders(b) \ {p}) =
            IF b = cur[p] THEN Cardinality(Holders(b)) - 1 ELSE Cardinality(Holders(b))
      BY <3>2, Finite, FS_RemoveElement, Zenon
    <3>4. refcnt[b] = Cardinality(Holders(b))
      BY <1>1, Zenon DEF Counted
    <3> QED
      BY <1>6, <3>1, <3>3, <3>4, Zenon
  <2> QED
    BY <2>1, Zenon DEF Counted
<1>12. Locks'
  <2>1. p \notin Using /\ Using' = Using
    BY <1>3 DEF Using
  <2>2. \A q \in Using : cur'[q] = cur[q]
    BY <1>3, <2>1, Zenon DEF Using
  <2> QED
    BY <1>1, <1>2, <2>1, <2>2, LocksKept, Zenon
<1>13. Requests'
  <2>1. \A q \in Procs : pc'[q] = "iderw" => Pending(cur[q])'
    <3>1. \A q \in Procs : pc'[q] = "iderw" => q # p /\ pc[q] = "iderw" /\ cur'[q] = cur[q]
      BY <1>3
    <3>2. \A q \in Procs : pc[q] = "iderw" => Pending(cur[q])
      BY <1>1, Zenon DEF Requests
    <3> QED
      BY <1>2, <3>1, <3>2, Zenon DEF Pending
  <2>2. \A q \in Procs : pc[q] = "io" => pc'[q] = "io" /\ cur'[q] = cur[q]
    BY <1>3
  <2> QED
    BY <1>1, <1>2, <2>1, <2>2, RequestsKept, Zenon
<1>14. Data'
  <2>1. \A q \in Procs : pc'[q] = "use" => pc[q] = "use" /\ cur'[q] = cur[q]
    BY <1>3
  <2>2. \A q \in Procs : pc'[q] = "use" => valid[cur'[q]]
    BY <1>1, <2>1, Zenon DEF Data
  <2> QED
    BY <1>1, <1>2, <2>2, DataKept, Zenon
<1>15. Cardinality(Pinned') <= MaxPinned
  <2>1. \A q \in Procs : pc[q] \in {"iderw", "io"} =>
          cur'[q] = cur[q] /\ pc'[q] \in {"iderw", "io"}
    BY <1>3
  <2> QED
    BY <1>1, <1>2, <2>1, PinnedKept, Zenon
<1> QED
  BY <1>7, <1>8, <1>9, <1>10, <1>11, <1>12, <1>13, <1>14, <1>15, Zenon DEF BioInv

\* A request is queued behind the others, or started at once.
LEMMA IderwInv ==
  ASSUME BioInv, NEW p \in Procs, iderw(p)
  PROVE  BioInv'
<1>1. Types /\ Listed /\ Unique /\ Held /\ Counted /\ Locks /\ Requests /\ Data
      /\ Cardinality(Pinned) <= MaxPinned
  BY Zenon DEF BioInv
<1>2. /\ blockno' = blockno /\ valid' = valid /\ dirty' = dirty /\ refcnt' = refcnt /\ fresh' = fresh
      /\ locked' = locked /\ mru' = mru /\ disk' = disk /\ cur' = cur
      /\ idequeue' = Append(idequeue, cur[p])
  BY Zenon DEF iderw, bufvars, Enqueued
<1>3. /\ pc[p] = "iderw" /\ pc'[p] = "io" /\ \A q \in Procs : q # p => pc'[q] = pc[q]
      /\ pc' \in [Procs -> Places]
  BY <1>1 DEF Types, Places, iderw
<1>4. p \in Using /\ Using' = Using
  BY <1>3 DEF Using
<1>5. cur[p] \in Bufs /\ idequeue \in Seq(Bufs)
  BY <1>1, <1>3 DEF Types, Held
<1>6. /\ Len(idequeue) \in Nat /\ Len(idequeue') = Len(idequeue) + 1
      /\ idequeue'[Len(idequeue) + 1] = cur[p]
      /\ \A i \in 1 .. Len(idequeue) : idequeue'[i] = idequeue[i]
      /\ idequeue' \in Seq(Bufs) /\ idequeue' # <<>>
      /\ Head(idequeue') = IF idequeue = <<>> THEN cur[p] ELSE Head(idequeue)
  BY <1>2, <1>5
<1>7. wire' = IF idequeue = <<>> /\ dirty[cur[p]] THEN fresh[cur[p]] ELSE wire
  BY <1>6, Zenon DEF iderw, idestart
<1>8. Types'
  <2>1. wire' \in BOOLEAN
    BY <1>1, <1>5, <1>7, Zenon DEF Types
  <2> QED
    BY <1>1, <1>2, <1>3, <1>6, <2>1, Zenon DEF Types
<1>9. Listed' /\ Unique' /\ Counted' /\ Locks'
  BY <1>1, <1>2, <1>4, Kept, Zenon
<1>10. Held'
  <2>1. \A q \in Procs : pc'[q] = "idle" <=> pc[q] = "idle"
    BY <1>3
  <2> QED
    BY <1>1, <1>2, <2>1, HeldKept, Zenon
<1>11. Data'
  <2>1. \A q \in Procs : pc'[q] = "use" => valid[cur[q]]
    BY <1>1, <1>3 DEF Data
  <2> QED
    BY <1>1, <1>2, <2>1, DataKept, Zenon
<1>12. Requests'
  <2> DEFINE n == Len(idequeue)
  <2>1. \A i \in 1 .. n : idequeue[i] # cur[p]
    <3>1. pc[p] # "io"
      BY <1>3
    <3> QED
      BY <1>4, <3>1, NotQueued, Zenon
  <2>2. \A i, j \in 1 .. n : idequeue[i] = idequeue[j] => i = j
    BY <1>1, Zenon DEF Requests
  <2>3. ASSUME NEW i \in 1 .. n + 1, i \notin 1 .. n PROVE i = n + 1
    BY <1>6, <2>3
  <2>4. \A i, j \in 1 .. n + 1 : idequeue'[i] = idequeue'[j] => i = j
    BY <1>6, <2>1, <2>2, <2>3, Zenon
  <2>5. ASSUME NEW i \in 1 .. n + 1
        PROVE  /\ Pending(idequeue'[i])
               /\ \E q \in Procs : pc'[q] = "io" /\ cur[q] = idequeue'[i]
    <3>1. CASE i = n + 1
      <4>1. Pending(cur[p])
        BY <1>1, <1>3, Zenon DEF Requests
      <4>2. idequeue'[i] = cur[p]
        BY <1>6, <3>1, Zenon
      <4> QED
        BY <1>3, <4>1, <4>2, Zenon
    <3>2. CASE i \in 1 .. n
      <4>1. PICK q \in Procs : pc[q] = "io" /\ cur[q] = idequeue[i]
        BY <1>1, <3>2, Zenon DEF Requests
      <4>2. pc'[q] = "io"
        BY <1>3, <4>1, Zenon
      <4>3. Pending(idequeue[i]) /\ idequeue'[i] = idequeue[i]
        BY <1>1, <1>6, <3>2, Zenon DEF Requests
      <4> QED
        BY <4>1, <4>2, <4>3, Zenon
    <3> QED
      BY <2>3, <3>1, <3>2, Zenon
  <2>6. ASSUME NEW q \in Procs, pc'[q] = "iderw" PROVE Pending(cur[q])
    <3>1. pc[q] = "iderw"
      BY <1>3, <2>6
    <3> QED
      BY <1>1, <3>1, Zenon DEF Requests
  <2>7. dirty[Head(idequeue')] => wire' = TRUE
    <3>1. CASE idequeue = <<>>
      <4>1. dirty[cur[p]] => fresh[cur[p]]
        BY <1>1, <1>5, Zenon DEF Data
      <4>2. fresh[cur[p]] \in BOOLEAN
        BY <1>1, <1>5, Zenon DEF Types
      <4> QED
        BY <1>6, <1>7, <3>1, <4>1, <4>2, Zenon
    <3>2. CASE idequeue # <<>>
      BY <1>1, <1>6, <1>7, <3>2, Zenon DEF Requests
    <3> QED
      BY <3>1, <3>2, Zenon
  <2> QED
    BY <1>2, <1>6, <2>4, <2>5, <2>6, <2>7, Zenon DEF Requests, Pending
<1>13. Cardinality(Pinned') <= MaxPinned
  <2>1. \A q \in Procs : pc[q] \in {"iderw", "io"} => pc'[q] \in {"iderw", "io"}
    BY <1>3
  <2> QED
    BY <1>1, <1>2, <2>1, PinnedKept, Zenon
<1> QED
  BY <1>8, <1>9, <1>10, <1>11, <1>12, <1>13, Zenon DEF BioInv

\* The interrupt ends the request at the head and starts the next one.
LEMMA IdeintrInv ==
  ASSUME BioInv, ideintr
  PROVE  BioInv'
<1>1. Types /\ Listed /\ Unique /\ Held /\ Counted /\ Locks /\ Requests /\ Data
      /\ Cardinality(Pinned) <= MaxPinned
  BY Zenon DEF BioInv
<1> DEFINE b == Head(idequeue)
           n == Len(idequeue)
<1>2. /\ blockno' = blockno /\ refcnt' = refcnt /\ locked' = locked /\ mru' = mru
      /\ pc' = pc /\ cur' = cur /\ idequeue' = Tail(idequeue) /\ idequeue # <<>>
  BY Zenon DEF ideintr, NextRequest
<1>3. idequeue \in Seq(Bufs)
  BY <1>1, Zenon DEF Types
<1>4. /\ b \in Bufs /\ b = idequeue[1] /\ n \in Nat /\ 1 \in 1 .. n
      /\ idequeue' \in Seq(Bufs) /\ Len(idequeue') = n - 1
      /\ \A i \in 1 .. n - 1 : i + 1 \in 1 .. n /\ i + 1 # 1 /\ idequeue'[i] = idequeue[i + 1]
      /\ \A i, j \in 1 .. n - 1 : i + 1 = j + 1 => i = j
      /\ idequeue' # <<>> => 1 \in 1 .. n - 1 /\ Head(idequeue') = idequeue'[1]
  BY <1>2, <1>3
<1>5. \A i \in 1 .. n : idequeue[i] \in Bufs
  BY <1>3
<1>6. PICK h \in Procs : pc[h] = "io" /\ cur[h] = b
  <2>1. \E h \in Procs : pc[h] = "io" /\ cur[h] = idequeue[1]
    BY <1>1, <1>4, Zenon DEF Requests
  <2> QED
    BY <1>4, <2>1, Zenon
<1>7. h \in Using
  BY <1>6 DEF Using
<1>8. blockno[b] \in Blocks
  BY <1>1, <1>4, <1>6, Nones DEF Types, Held, Bufs
<1>9. /\ valid'[b] = TRUE /\ dirty'[b] = FALSE
      /\ \A c \in Bufs : c # b => valid'[c] = valid[c] /\ dirty'[c] = dirty[c]
      /\ valid' \in [Bufs -> BOOLEAN] /\ dirty' \in [Bufs -> BOOLEAN]
  <2>1. valid' = [valid EXCEPT ![b] = TRUE] /\ dirty' = [dirty EXCEPT ![b] = FALSE]
    BY Zenon DEF ideintr
  <2> HIDE DEF b
  <2> QED
    BY <1>1, <1>4, <2>1, Zenon DEF Types
<1>10. \A c \in Bufs : c # b => (valid'[c] <=> valid[c]) /\ (dirty'[c] <=> dirty[c])
  BY <1>9, Zenon
<1>11. /\ dirty[b] => disk' = [disk EXCEPT ![blockno[b]] = TRUE] /\ fresh' = fresh
       /\ ~dirty[b] => fresh' = [fresh EXCEPT ![b] = TRUE] /\ disk' = disk
  <2>1. CASE dirty[b]
    <3>1. wire = TRUE
      BY <1>1, <1>2, <2>1, Zenon DEF Requests
    <3> QED
      BY <2>1, <3>1, Zenon DEF ideintr
  <2>2. CASE ~dirty[b]
    <3>1. \A c \in Bufs : blockno[c] = blockno[b] => c = b
      BY <1>1, <1>4, <1>8, Nones, Zenon DEF Unique
    <3>2. disk[blockno[b]]
      <4>1. ASSUME ~disk[blockno[b]] PROVE \E c \in Bufs : blockno[c] = blockno[b] /\ dirty[c]
        BY <1>1, <1>8, <4>1, Zenon DEF Data
      <4> QED
        BY <2>2, <3>1, <4>1, Zenon
    <3>3. disk[blockno[b]] = TRUE
      BY <1>1, <1>8, <3>2, Zenon DEF Types
    <3> QED
      BY <2>2, <3>3, Zenon DEF ideintr
  <2> QED
    BY <2>1, <2>2, Zenon
<1>12. wire' = IF idequeue' # <<>> /\ dirty[Head(idequeue')] THEN fresh[Head(idequeue')] ELSE wire
  BY Zenon DEF ideintr, idestart
<1> HIDE DEF b, n
<1>13. /\ \A c \in Bufs : c # b => fresh'[c] = fresh[c]
       /\ fresh' \in [Bufs -> BOOLEAN] /\ disk' \in [Blocks -> BOOLEAN]
       /\ \A m \in Blocks : m # blockno[b] \/ ~dirty[b] => disk'[m] = disk[m]
       /\ dirty[b] => disk'[blockno[b]] = TRUE
  BY <1>1, <1>4, <1>8, <1>11, Zenon DEF Types
<1>14. fresh'[b]
  <2>1. dirty[b] => fresh[b]
    BY <1>1, <1>4, Zenon DEF Data
  <2> QED
    BY <1>1, <1>4, <1>11, <2>1, Zenon DEF Types
<1>15. Types'
  <2>1. wire' \in BOOLEAN
    <3>1. idequeue' # <<>> => Head(idequeue') \in Bufs
      BY <1>4, <1>5, Zenon
    <3> QED
      BY <1>1, <1>12, <3>1, Zenon DEF Types
  <2> QED
    BY <1>1, <1>2, <1>4, <1>9, <1>13, <2>1, Zenon DEF Types
<1>16. Listed' /\ Unique' /\ Counted' /\ Locks'
  <2>1. Using' = Using
    BY <1>2, Zenon DEF Using
  <2> QED
    BY <1>1, <1>2, <2>1, Kept, Zenon
<1>17. Held'
  BY <1>1, <1>2, HeldKept, Zenon
<1>18. Requests'
  <2>1. \A i, j \in 1 .. n : idequeue[i] = idequeue[j] => i = j
    BY <1>1, Zenon DEF Requests, n
  <2>2. ASSUME NEW i \in 1 .. n - 1 PROVE idequeue'[i] \in Bufs /\ idequeue'[i] # b
    BY <1>4, <1>5, <2>1, Zenon
  <2>3. ASSUME NEW i \in 1 .. n - 1, NEW j \in 1 .. n - 1, idequeue'[i] = idequeue'[j]
        PROVE  i = j
    <3>1. idequeue[i + 1] = idequeue[j + 1] /\ i + 1 \in 1 .. n /\ j + 1 \in 1 .. n
      BY <1>4, <2>3, Zenon
    <3>2. i + 1 = j + 1
      BY <2>1, <3>1, Zenon
    <3> QED
      BY <1>4, <3>2, Zenon
  <2>4. ASSUME NEW i \in 1 .. n - 1
        PROVE  /\ ~valid'[idequeue'[i]] \/ dirty'[idequeue'[i]]
               /\ \E q \in Procs : pc[q] = "io" /\ cur[q] = idequeue'[i]
    <3>1. /\ Pending(idequeue[i + 1])
          /\ \E q \in Procs : pc[q] = "io" /\ cur[q] = idequeue[i + 1]
      BY <1>1, <1>4, Zenon DEF Requests, n
    <3>2. /\ Pending(idequeue'[i])
          /\ \E q \in Procs : pc[q] = "io" /\ cur[q] = idequeue'[i]
      BY <1>4, <3>1, Zenon
    <3> QED
      BY <1>10, <2>2, <3>2, Zenon DEF Pending
  <2>5. ASSUME NEW q \in Procs, pc[q] = "iderw" PROVE ~valid'[cur[q]] \/ dirty'[cur[q]]
    <3>1. q # h /\ q \in Using
      BY <1>6, <2>5 DEF Using
    <3>2. cur[q] # b
      BY <1>6, <1>7, <3>1, Alone, Zenon
    <3>3. Pending(cur[q])
      BY <1>1, <2>5, Zenon DEF Requests
    <3>4. cur[q] \in Bufs
      BY <1>1, <2>5 DEF Types, Held
    <3> QED
      BY <1>10, <3>2, <3>3, <3>4, Zenon DEF Pending
  <2>6. ASSUME idequeue' # <<>>, dirty'[Head(idequeue')] PROVE wire' = TRUE
    <3> DEFINE c == Head(idequeue')
    <3>1. c \in Bufs /\ c # b
      BY <1>4, <2>2, <2>6, Zenon
    <3>2. dirty[c]
      BY <1>10, <2>6, <3>1, Zenon
    <3>3. fresh[c] = TRUE
      BY <1>1, <3>1, <3>2, Zenon DEF Data, Types
    <3> QED
      BY <1>12, <2>6, <3>2, <3>3, Zenon
  <2> QED
    BY <1>2, <1>4, <2>3, <2>4, <2>5, <2>6, Zenon DEF Requests, Pending
<1>19. Data'
  <2>1. \A c \in Bufs : dirty'[c] => valid'[c] /\ fresh'[c]
    <3>1. ASSUME NEW c \in Bufs, dirty'[c] PROVE valid'[c] /\ fresh'[c]
      <4>1. c # b
        BY <1>9, <3>1, Zenon
      <4>2. dirty[c]
        BY <1>10, <3>1, <4>1, Zenon
      <4>3. valid[c] /\ fresh[c]
        BY <1>1, <4>2, Zenon DEF Data
      <4> QED
        BY <1>10, <1>13, <4>1, <4>3, Zenon
    <3> QED
      BY <3>1, Zenon
  <2>2. \A c \in Bufs : valid'[c] => blockno[c] # None
    BY <1>1, <1>8, <1>10, Nones, Zenon DEF Data
  <2>3. ASSUME NEW c \in Bufs, valid'[c], ~dirty'[c] PROVE fresh'[c]
    <3>1. CASE c = b
      BY <1>14, <3>1, Zenon
    <3>2. CASE c # b
      <4>1. fresh[c]
        BY <1>1, <1>10, <2>3, <3>2, Zenon DEF Data
      <4> QED
        BY <1>13, <3>2, <4>1, Zenon
    <3> QED
      BY <3>1, <3>2, Zenon
  <2>4. ASSUME NEW m \in Blocks, ~disk'[m]
        PROVE  \E c \in Bufs : blockno[c] = m /\ dirty'[c]
    <3>1. ~disk[m] /\ (dirty[b] => m # blockno[b])
      BY <1>13, <2>4, Zenon
    <3>2. PICK c \in Bufs : blockno[c] = m /\ dirty[c]
      BY <1>1, <3>1, Zenon DEF Data
    <3>3. c # b
      BY <3>1, <3>2, Zenon
    <3> QED
      BY <1>10, <3>2, <3>3, Zenon
  <2>5. ASSUME NEW q \in Procs, pc[q] = "use" PROVE valid'[cur[q]]
    <3>1. valid[cur[q]]
      BY <1>1, <2>5, Zenon DEF Data
    <3>2. cur[q] \in Bufs
      BY <1>1, <2>5 DEF Types, Held
    <3> QED
      BY <1>9, <3>1, <3>2, Zenon
  <2> QED
    BY <1>2, <2>1, <2>2, <2>3, <2>4, <2>5, Zenon DEF Data
<1>20. Cardinality(Pinned') <= MaxPinned
  <2>1. \A c \in Bufs : dirty'[c] => dirty[c]
    BY <1>9, <1>10, Zenon
  <2> QED
    BY <1>1, <1>2, <2>1, PinnedKept, Zenon
<1> QED
  BY <1>15, <1>16, <1>17, <1>18, <1>19, <1>20, Zenon DEF BioInv

\* What bget does when it finds the block in buffer b, and when it recycles b.
Hit(p, b) ==
  /\ pc[p] = "idle" /\ blockno[b] # None
  /\ refcnt' = [refcnt EXCEPT ![b] = @ + 1] /\ cur' = [cur EXCEPT ![p] = b]
  /\ pc' = [pc EXCEPT ![p] = "lock"]
  /\ UNCHANGED <<blockno, valid, dirty, fresh, locked, mru, idequeue, wire, disk>>

Miss(p, n, b) ==
  /\ pc[p] = "idle" /\ Cached(n) = {}
  /\ blockno' = [blockno EXCEPT ![b] = n] /\ valid' = [valid EXCEPT ![b] = FALSE]
  /\ dirty' = [dirty EXCEPT ![b] = FALSE] /\ refcnt' = [refcnt EXCEPT ![b] = 1]
  /\ cur' = [cur EXCEPT ![p] = b] /\ pc' = [pc EXCEPT ![p] = "lock"]
  /\ UNCHANGED <<fresh, locked, mru, idequeue, wire, disk>>

\* bget finds the block and takes a reference.
LEMMA HitInv ==
  ASSUME BioInv, NEW p \in Procs, NEW b \in Bufs, Hit(p, b)
  PROVE  BioInv'
<1>1. Types /\ Listed /\ Unique /\ Held /\ Counted /\ Locks /\ Requests /\ Data
      /\ Cardinality(Pinned) <= MaxPinned
  BY Zenon DEF BioInv
<1>2. /\ blockno' = blockno /\ valid' = valid /\ dirty' = dirty /\ fresh' = fresh /\ mru' = mru
      /\ locked' = locked /\ idequeue' = idequeue /\ wire' = wire /\ disk' = disk
      /\ blockno[b] # None /\ pc[p] = "idle"
  BY Zenon DEF Hit
<1>3. /\ cur[p] = None /\ cur'[p] = b /\ pc'[p] = "lock"
      /\ \A q \in Procs : q # p => pc'[q] = pc[q] /\ cur'[q] = cur[q]
      /\ pc' \in [Procs -> Places] /\ cur' \in [Procs -> Bufs \cup {None}]
  BY <1>1, <1>2 DEF Types, Held, Places, Hit
<1>4. /\ refcnt' \in [Bufs -> Nat] /\ refcnt'[b] = refcnt[b] + 1
      /\ \A c \in Bufs : c # b => refcnt'[c] = refcnt[c]
  BY <1>1 DEF Types, Hit
<1>5. Types'
  BY <1>1, <1>2, <1>3, <1>4, Zenon DEF Types
<1>6. Listed' /\ Unique'
  BY <1>1, <1>2, Kept, Zenon
<1>7. Held'
  <2>1. b # None
    BY Nones
  <2>2. ASSUME NEW q \in Procs
        PROVE  (pc'[q] = "idle" <=> cur'[q] = None) /\ (cur'[q] # None => blockno[cur'[q]] # None)
    <3>1. (pc[q] = "idle" <=> cur[q] = None) /\ (cur[q] # None => blockno[cur[q]] # None)
      BY <1>1, Zenon DEF Held
    <3> QED
      BY <1>2, <1>3, <2>1, <3>1
  <2> QED
    BY <1>2, <2>2, Zenon DEF Held
<1>8. Counted'
  <2>1. ASSUME NEW c \in Bufs PROVE refcnt'[c] = Cardinality(Holders(c)')
    <3>1. Holders(c)' = IF c = b THEN Holders(c) \cup {p} ELSE Holders(c)
      BY <1>3, Nones DEF Holders
    <3>2. p \notin Holders(c)
      BY <1>3, Nones DEF Holders
    <3>3. Cardinality(Holders(c) \cup {p}) = Cardinality(Holders(c)) + 1
      BY <3>2, Finite, FS_AddElement, Zenon
    <3>4. refcnt[c] = Cardinality(Holders(c))
      BY <1>1, Zenon DEF Counted
    <3> QED
      BY <1>4, <3>1, <3>3, <3>4, Zenon
  <2> QED
    BY <2>1, Zenon DEF Counted
<1>9. Locks'
  <2>1. p \notin Using /\ Using' = Using
    BY <1>2, <1>3 DEF Using
  <2>2. \A q \in Using : cur'[q] = cur[q]
    BY <1>3, <2>1, Zenon DEF Using
  <2> QED
    BY <1>1, <1>2, <2>1, <2>2, LocksKept, Zenon
<1>10. Requests'
  <2>1. \A q \in Procs : pc'[q] = "iderw" => Pending(cur[q])'
    <3>1. \A q \in Procs : pc'[q] = "iderw" => pc[q] = "iderw" /\ cur'[q] = cur[q]
      BY <1>3
    <3>2. \A q \in Procs : pc[q] = "iderw" => Pending(cur[q])
      BY <1>1, Zenon DEF Requests
    <3> QED
      BY <1>2, <3>1, <3>2, Zenon DEF Pending
  <2>2. \A q \in Procs : pc[q] = "io" => pc'[q] = "io" /\ cur'[q] = cur[q]
    BY <1>2, <1>3
  <2> QED
    BY <1>1, <1>2, <2>1, <2>2, RequestsKept, Zenon
<1>11. Data'
  <2>1. \A q \in Procs : pc'[q] = "use" => pc[q] = "use" /\ cur'[q] = cur[q]
    BY <1>3
  <2>2. \A q \in Procs : pc'[q] = "use" => valid[cur'[q]]
    BY <1>1, <2>1, Zenon DEF Data
  <2> QED
    BY <1>1, <1>2, <2>2, DataKept, Zenon
<1>12. Cardinality(Pinned') <= MaxPinned
  <2>1. \A q \in Procs : pc[q] \in {"iderw", "io"} =>
          cur'[q] = cur[q] /\ pc'[q] \in {"iderw", "io"}
    BY <1>2, <1>3
  <2> QED
    BY <1>1, <1>2, <2>1, PinnedKept, Zenon
<1> QED
  BY <1>5, <1>6, <1>7, <1>8, <1>9, <1>10, <1>11, <1>12, Zenon DEF BioInv

\* bget recycles a buffer that nobody holds, waits for or needs.
LEMMA MissInv ==
  ASSUME BioInv, NEW p \in Procs, NEW n \in Blocks, NEW b \in Recyclable, Miss(p, n, b)
  PROVE  BioInv'
<1>1. Types /\ Listed /\ Unique /\ Held /\ Counted /\ Locks /\ Requests /\ Data
      /\ Cardinality(Pinned) <= MaxPinned
  BY Zenon DEF BioInv
<1>2. /\ fresh' = fresh /\ mru' = mru /\ locked' = locked /\ idequeue' = idequeue
      /\ wire' = wire /\ disk' = disk /\ pc[p] = "idle" /\ Cached(n) = {}
  BY Zenon DEF Miss
<1>3. b \in Bufs /\ ~dirty[b] /\ \A q \in Procs : cur[q] # b
  <2>1. b \in Bufs /\ ~dirty[b] /\ refcnt[b] = 0
    BY Zenon DEF Recyclable, Unused
  <2> QED
    BY <2>1, NoHolder, Zenon
<1>4. /\ cur[p] = None /\ cur'[p] = b /\ pc'[p] = "lock"
      /\ \A q \in Procs : q # p => pc'[q] = pc[q] /\ cur'[q] = cur[q]
      /\ pc' \in [Procs -> Places] /\ cur' \in [Procs -> Bufs \cup {None}]
  BY <1>1, <1>2, <1>3 DEF Types, Held, Places, Miss
<1>5. /\ blockno'[b] = n /\ blockno' \in [Bufs -> Blocks \cup {None}]
      /\ \A c \in Bufs : c # b => blockno'[c] = blockno[c]
  BY <1>1, <1>3, Zenon DEF Types, Miss
<1>6. /\ valid'[b] = FALSE /\ dirty'[b] = FALSE
      /\ valid' \in [Bufs -> BOOLEAN] /\ dirty' \in [Bufs -> BOOLEAN]
      /\ \A c \in Bufs : c # b => valid'[c] = valid[c] /\ dirty'[c] = dirty[c]
  BY <1>1, <1>3, Zenon DEF Types, Miss
<1>7. \A c \in Bufs : c # b => (valid'[c] <=> valid[c]) /\ (dirty'[c] <=> dirty[c])
  BY <1>6, Zenon
<1>8. /\ refcnt'[b] = 1 /\ refcnt' \in [Bufs -> Nat]
      /\ \A c \in Bufs : c # b => refcnt'[c] = refcnt[c]
  BY <1>1, <1>3 DEF Types, Miss
<1>9. Types'
  BY <1>1, <1>2, <1>4, <1>5, <1>6, <1>8, Zenon DEF Types
<1>10. Listed'
  BY <1>1, <1>2, Kept, Zenon
<1>11. Unique'
  <2>1. \A c \in Bufs : blockno[c] # n
    BY <1>2, Zenon DEF Cached
  <2>2. ASSUME NEW c \in Bufs, NEW d \in Bufs, blockno'[c] = blockno'[d], blockno'[c] # None
        PROVE  c = d
    <3>1. CASE c = b
      BY <1>5, <2>1, <2>2, <3>1, Zenon
    <3>2. CASE d = b
      BY <1>5, <2>1, <2>2, <3>2, Zenon
    <3>3. CASE c # b /\ d # b
      BY <1>1, <1>5, <2>2, <3>3, Zenon DEF Unique
    <3> QED
      BY <3>1, <3>2, <3>3, Zenon
  <2> QED
    BY <2>2, Zenon DEF Unique
<1>12. Held'
  <2>1. b # None /\ n # None
    BY <1>3, Nones
  <2>2. ASSUME NEW q \in Procs
        PROVE  (pc'[q] = "idle" <=> cur'[q] = None) /\ (cur'[q] # None => blockno'[cur'[q]] # None)
    <3>1. CASE q = p
      BY <1>4, <1>5, <2>1, <3>1
    <3>2. CASE q # p
      <4>1. (pc[q] = "idle" <=> cur[q] = None) /\ (cur[q] # None => blockno[cur[q]] # None)
        BY <1>1, Zenon DEF Held
      <4>2. cur[q] # None => cur[q] \in Bufs
        BY <1>1 DEF Types
      <4>3. cur[q] # b /\ cur'[q] = cur[q] /\ pc'[q] = pc[q]
        BY <1>3, <1>4, <3>2, Zenon
      <4> QED
        BY <1>5, <4>1, <4>2, <4>3, Zenon
    <3> QED
      BY <3>1, <3>2, Zenon
  <2> QED
    BY <2>2, Zenon DEF Held
<1>13. Counted'
  <2>1. ASSUME NEW c \in Bufs PROVE refcnt'[c] = Cardinality(Holders(c)')
    <3>1. CASE c = b
      <4>1. Holders(c)' = {p}
        BY <1>3, <1>4, <3>1, Zenon DEF Holders
      <4> QED
        BY <1>8, <3>1, <4>1, FS_Singleton, Zenon
    <3>2. CASE c # b
      <4>1. Holders(c)' = Holders(c)
        BY <1>4, <3>2, Nones, Zenon DEF Holders
      <4> QED
        BY <1>1, <1>8, <3>2, <4>1, Zenon DEF Counted
    <3> QED
      BY <3>1, <3>2, Zenon
  <2> QED
    BY <2>1, Zenon DEF Counted
<1>14. Locks'
  <2>1. p \notin Using /\ Using' = Using
    BY <1>2, <1>4 DEF Using
  <2>2. \A q \in Using : cur'[q] = cur[q]
    BY <1>4, <2>1, Zenon DEF Using
  <2> QED
    BY <1>1, <1>2, <2>1, <2>2, LocksKept, Zenon
<1>15. Requests'
  <2>1. \A q \in Procs : pc[q] = "io" => pc'[q] = "io" /\ cur'[q] = cur[q]
    BY <1>2, <1>4
  <2>2. ASSUME NEW i \in 1 .. Len(idequeue)
        PROVE  /\ valid'[idequeue[i]] <=> valid[idequeue[i]]
               /\ dirty'[idequeue[i]] <=> dirty[idequeue[i]]
    <3>1. idequeue[i] \in Bufs
      BY <1>1 DEF Types
    <3>2. idequeue[i] # b
      BY <1>1, <1>3, Zenon DEF Requests
    <3> QED
      BY <1>7, <3>1, <3>2, Zenon
  <2>3. ASSUME NEW q \in Procs, pc'[q] = "iderw" PROVE Pending(cur[q])'
    <3>1. pc[q] = "iderw" /\ cur'[q] = cur[q]
      BY <1>4, <2>3
    <3>2. cur[q] \in Bufs
      BY <1>1, <3>1 DEF Types, Held
    <3>3. Pending(cur[q])
      BY <1>1, <3>1, Zenon DEF Requests
    <3> QED
      BY <1>3, <1>7, <3>1, <3>2, <3>3, Zenon DEF Pending
  <2> QED
    BY <1>1, <1>2, <2>1, <2>2, <2>3, RequestsKept, Zenon
<1>16. Data'
  <2>1. \A c \in Bufs : dirty'[c] => valid'[c] /\ fresh[c]
    BY <1>1, <1>6, <1>7, Zenon DEF Data
  <2>2. ASSUME NEW c \in Bufs, valid'[c] PROVE blockno'[c] # None /\ (~dirty'[c] => fresh[c])
    <3>1. c # b
      BY <1>6, <2>2, Zenon
    <3>2. valid[c] /\ (dirty'[c] <=> dirty[c]) /\ blockno'[c] = blockno[c]
      BY <1>5, <1>7, <2>2, <3>1, Zenon
    <3> QED
      BY <1>1, <3>2, Zenon DEF Data
  <2>3. ASSUME NEW m \in Blocks, ~disk[m] PROVE \E c \in Bufs : blockno'[c] = m /\ dirty'[c]
    <3>1. PICK c \in Bufs : blockno[c] = m /\ dirty[c]
      BY <1>1, <2>3, Zenon DEF Data
    <3>2. c # b
      BY <1>3, <3>1, Zenon
    <3> QED
      BY <1>5, <1>7, <3>1, <3>2, Zenon
  <2>4. ASSUME NEW q \in Procs, pc'[q] = "use" PROVE valid'[cur'[q]]
    <3>1. pc[q] = "use" /\ cur'[q] = cur[q]
      BY <1>4, <2>4
    <3>2. cur[q] \in Bufs
      BY <1>1, <3>1 DEF Types, Held
    <3>3. valid[cur[q]]
      BY <1>1, <3>1, Zenon DEF Data
    <3> QED
      BY <1>3, <1>7, <3>1, <3>2, <3>3, Zenon
  <2> QED
    BY <1>2, <2>1, <2>2, <2>3, <2>4, Zenon DEF Data
<1>17. Cardinality(Pinned') <= MaxPinned
  <2>1. \A c \in Bufs : dirty'[c] => dirty[c]
    BY <1>6, <1>7, Zenon
  <2>2. \A q \in Procs : pc[q] \in {"iderw", "io"} =>
          cur'[q] = cur[q] /\ pc'[q] \in {"iderw", "io"}
    BY <1>2, <1>4
  <2> QED
    BY <1>1, <2>1, <2>2, PinnedKept, Zenon
<1> QED
  BY <1>9, <1>10, <1>11, <1>12, <1>13, <1>14, <1>15, <1>16, <1>17, Zenon DEF BioInv

\* bget, either way.
LEMMA BgetInv ==
  ASSUME BioInv, NEW p \in Procs, NEW n \in Blocks, bget(p, n)
  PROVE  BioInv'
<1>1. (\E b \in Cached(n) : Hit(p, b)) \/ (Recyclable # {} /\ Miss(p, n, LeastRecent))
  <2>1. \A b \in Cached(n) : blockno[b] # None
    BY Nones DEF Cached
  <2> QED
    BY <2>1, Zenon DEF bget, Hit, Miss
<1>2. ASSUME NEW b \in Cached(n), Hit(p, b) PROVE BioInv'
  <2>1. b \in Bufs
    BY Zenon DEF Cached
  <2> QED
    BY <1>2, <2>1, HitInv, Zenon
<1>3. ASSUME Recyclable # {}, Miss(p, n, LeastRecent) PROVE BioInv'
  <2>1. LeastRecent \in Recyclable
    BY <1>3, Recycled, Zenon
  <2> QED
    BY <1>3, <2>1, MissInv, Zenon
<1> QED
  BY <1>1, <1>2, <1>3, Zenon

-----------------------------------------------------------------------------
\* Every step keeps the invariant.
LEMMA NextInv == BioInv /\ [Next]_vars => BioInv'
<1> SUFFICES ASSUME BioInv, [Next]_vars PROVE BioInv'
  OBVIOUS
<1>1. CASE UNCHANGED vars
  <2>1. Types /\ Listed /\ Unique /\ Held /\ Counted /\ Locks /\ Requests /\ Data
        /\ Cardinality(Pinned) <= MaxPinned
    BY Zenon DEF BioInv
  <2>2. /\ blockno' = blockno /\ valid' = valid /\ dirty' = dirty /\ refcnt' = refcnt
        /\ fresh' = fresh /\ locked' = locked /\ mru' = mru /\ idequeue' = idequeue
        /\ wire' = wire /\ disk' = disk /\ pc' = pc /\ cur' = cur
    BY <1>1, Zenon DEF vars
  <2>3. Types'
    BY <2>1, <2>2, Zenon DEF Types
  <2>4. Listed' /\ Unique' /\ Counted' /\ Locks'
    BY <2>1, <2>2, Kept, Zenon DEF Using
  <2>5. Held'
    BY <2>1, <2>2, HeldKept, Zenon
  <2>6. Data'
    BY <2>1, <2>2, Zenon DEF Data
  <2>7. Requests'
    BY <2>1, <2>2, Zenon DEF Requests, Pending
  <2>8. Cardinality(Pinned') <= MaxPinned
    BY <2>1, <2>2, PinnedKept, Zenon
  <2> QED
    BY <2>3, <2>4, <2>5, <2>6, <2>7, <2>8, Zenon DEF BioInv
<1>2. ASSUME NEW p \in Procs, NEW n \in Blocks, bget(p, n) PROVE BioInv'
  BY <1>2, BgetInv, Zenon
<1>3. ASSUME NEW p \in Procs, acquiresleep(p) \/ bwrite(p) \/ flush(p) \/ log_write(p)
      PROVE  BioInv'
  BY <1>3, AcquiresleepInv, BwriteInv, FlushInv, LogWriteInv, Zenon
<1>4. ASSUME NEW p \in Procs, releasesleep(p) \/ brelse(p) \/ iderw(p) \/ iodone(p)
      PROVE  BioInv'
  BY <1>4, ReleasesleepInv, BrelseInv, IderwInv, IodoneInv, Zenon
<1>5. CASE ideintr
  BY <1>5, IdeintrInv, Zenon
<1> QED
  BY <1>1, <1>2, <1>3, <1>4, <1>5, Zenon DEF Next

\* The buffer cache keeps its invariant, whatever the processes and the disk do.
THEOREM BioInvariant == Spec => []BioInv
<1> QED
  BY InitInv, NextInv, PTL DEF Spec

\* A block has one copy in memory and one user at a time, and a buffer that a
\* process waits for is not recycled (bio.c 61-93).
THEOREM AlwaysOneCopy == Spec => []OneCopy
<1>1. BioInv => OneCopy
  <2> SUFFICES ASSUME BioInv PROVE OneCopy
    OBVIOUS
  <2>1. ASSUME NEW n \in Blocks PROVE Cardinality(Cached(n)) <= 1
    <3>1. CASE Cached(n) = {}
      BY <3>1, FS_EmptySet
    <3>2. CASE Cached(n) # {}
      <4>1. PICK b \in Bufs : blockno[b] = n
        BY <3>2 DEF Cached
      <4>2. Cached(n) = {b}
        BY <4>1, Nones DEF Cached, BioInv, Unique
      <4>3. Cardinality({b}) = 1
        BY FS_Singleton
      <4> QED
        BY <4>2, <4>3
    <3> QED
      BY <3>1, <3>2
  <2>2. ASSUME NEW p \in Using PROVE locked[cur[p]] = p
    <3>1. p \in Procs /\ cur[p] \in Bufs
      BY Nones DEF Using, BioInv, Types, Held
    <3> QED
      BY <3>1 DEF BioInv, Locks
  <2>3. \A p, q \in Using : cur[p] = cur[q] => p = q
    BY <2>2, Zenon
  <2>4. \A b \in Bufs : refcnt[b] = Cardinality({p \in Procs : cur[p] = b})
    BY Zenon DEF BioInv, Counted, Holders
  <2> QED
    BY <2>1, <2>2, <2>3, <2>4, Zenon DEF OneCopy
<1> QED
  BY <1>1, BioInvariant, PTL

\* Whoever has a locked, valid buffer sees what was last written to its block, and
\* a buffer that is valid and not dirty is on the disk (bio.c 78, 97-116).
THEOREM ReadsAlwaysLatest == Spec => []ReadsLatest
<1>1. BioInv => ReadsLatest
  <2> SUFFICES ASSUME BioInv PROVE ReadsLatest
    OBVIOUS
  <2>1. Types /\ Held /\ Unique /\ Data
    BY Zenon DEF BioInv
  <2>2. ASSUME NEW p \in Procs, pc[p] = "use" PROVE fresh[cur[p]]
    <3>1. cur[p] \in Bufs
      BY <2>1, <2>2 DEF Types, Held
    <3>2. valid[cur[p]]
      BY <2>1, <2>2, Zenon DEF Data
    <3> QED
      BY <2>1, <3>1, <3>2, Zenon DEF Data
  <2>3. ASSUME NEW b \in Bufs, valid[b], ~dirty[b], blockno[b] # None
        PROVE  disk[blockno[b]] /\ fresh[b]
    <3>1. blockno[b] \in Blocks
      BY <2>1, <2>3 DEF Types
    <3>2. ASSUME ~disk[blockno[b]] PROVE \E c \in Bufs : blockno[c] = blockno[b] /\ dirty[c]
      BY <2>1, <3>1, <3>2, Zenon DEF Data
    <3>3. disk[blockno[b]]
      BY <2>1, <2>3, <3>2, Zenon DEF Unique
    <3>4. fresh[b]
      BY <2>1, <2>3, Zenon DEF Data
    <3> QED
      BY <3>3, <3>4, Zenon
  <2> QED
    BY <2>2, <2>3, Zenon DEF ReadsLatest
<1> QED
  BY <1>1, BioInvariant, PTL

\* bget never panics: there is a buffer for every process besides the ones the log
\* pins (bio.c 92).
THEOREM BufferAlwaysLeft == Spec => []BufferLeft
<1>1. BioInv => BufferLeft
  <2> SUFFICES ASSUME BioInv, NEW p \in Procs, pc[p] = "idle", Recyclable = {}
               PROVE  FALSE
    BY DEF BufferLeft
  <2> DEFINE others == Procs \ {p}
             held == {cur[q] : q \in others}
  <2>1. Bufs \subseteq held \cup Pinned
    <3>1. ASSUME NEW b \in Bufs PROVE b \in held \cup Pinned
      <4>1. cur[p] = None /\ b # None
        BY Nones, SMTT(30) DEF BioInv, Held
      <4>2. CASE refcnt[b] = 0
        <5>1. dirty[b] /\ \A q \in Procs : cur[q] # b
          BY <4>2, NoHolder DEF Recyclable, Unused
        <5> QED
          BY <5>1, SMTT(30) DEF Pinned
      <4>3. CASE refcnt[b] # 0
        <5>1. PICK q \in Procs : cur[q] = b
          BY <4>3, NoHolder
        <5> QED
          BY <4>1, <5>1
      <4> QED
        BY <4>2, <4>3
    <3> QED
      BY <3>1
  <2>2. /\ IsFiniteSet(others) /\ Cardinality(others) = Cardinality(Procs) - 1
        /\ Cardinality(Procs) \in Nat
    BY Nones, FS_RemoveElement, FS_CardinalityType, SMTT(30)
  <2>3. IsFiniteSet(held) /\ Cardinality(held) <= Cardinality(others)
    <3> DEFINE f == [q \in others |-> cur[q]]
    <3>1. f \in Surjection(others, held)
      BY SMTT(30) DEF Surjection
    <3> HIDE DEF f, others, held
    <3> QED
      BY <2>2, <3>1, FS_Surjection, SMTT(30)
  <2>4. IsFiniteSet(Pinned) /\ Cardinality(Pinned) \in Nat /\ Cardinality(Pinned) <= MaxPinned
    BY Finite DEF BioInv
  <2>5. Cardinality(held) \in Nat
    BY <2>3, FS_CardinalityType, SMTT(30)
  <2> HIDE DEF held, others
  <2>6. /\ IsFiniteSet(held \cup Pinned)
        /\ Cardinality(held \cup Pinned) <= Cardinality(held) + Cardinality(Pinned)
    <3>1. IsFiniteSet(held \cap Pinned)
      BY <2>4, FS_Subset
    <3>2. Cardinality(held \cap Pinned) \in Nat
      BY <3>1, FS_CardinalityType
    <3>3. /\ IsFiniteSet(held \cup Pinned)
          /\ Cardinality(held \cup Pinned) =
               Cardinality(held) + Cardinality(Pinned) - Cardinality(held \cap Pinned)
      BY <2>3, <2>4, FS_Union
    <3> QED
      BY <2>4, <2>5, <3>2, <3>3
  <2>7. Cardinality(Bufs) = NBUF /\ Cardinality(Bufs) <= Cardinality(held \cup Pinned)
    BY <2>1, <2>6, Finite, FS_Subset, SMTT(30)
  <2>8. NBUF >= Cardinality(Procs) + MaxPinned
    BY BioAssumption
  <2>9. Cardinality(held \cup Pinned) \in Nat
    BY <2>6, FS_CardinalityType
  <2> QED
    BY <2>2, <2>3, <2>4, <2>5, <2>6, <2>7, <2>8, <2>9, Nones, SMTT(30)
<1> QED
  BY <1>1, BioInvariant, PTL
==============================================================================
