-------------------------------- MODULE Kmem --------------------------------
(***************************************************************************)
(* The physical page allocator of kalloc.c with its per-frame reference    *)
(* counts.  A frame is the page number V2P(v)/PGSIZE that indexes          *)
(* kmem.runArr.  An owner is whatever holds a frame through one reference: *)
(* a page table that maps it, a kernel stack, a page directory.            *)
(*                                                                         *)
(* Every operation holds kmem.lock for its whole body, so it is one step;  *)
(* the callers' "if (decrementReferencesAndGetPrevVal(v) == 1) kfree(v)"   *)
(* is two steps, between which other owners run.                           *)
(***************************************************************************)
EXTENDS Integers, Sequences, FiniteSets

CONSTANTS
  EndPage,    \* first page above the kernel image ("end")
  SplitPage,  \* first page kinit2 releases (4MB)
  MAXPAGES,   \* PHYSTOP / PGSIZE
  Owners,     \* holders of references
  Boot,       \* the boot processor's own allocations, before use_lock is set
  NoFrame

ASSUME KmemAssumption ==
  /\ EndPage \in Nat /\ SplitPage \in Nat /\ MAXPAGES \in Nat
  /\ EndPage <= SplitPage /\ SplitPage <= MAXPAGES
  /\ IsFiniteSet(Owners)
  /\ Boot \in Owners
  /\ NoFrame \notin Nat

Frames == EndPage .. MAXPAGES - 1

VARIABLES
  use_lock,       \* kmem.use_lock
  freelist,       \* kmem.freelist, head first
  ref,            \* runArr[f].ref
  occupiedPages,
  owners,         \* owners[f]: who holds a reference to f
  freeing         \* freeing[o]: the frame o was told to kfree, or NoFrame

vars == <<use_lock, freelist, ref, occupiedPages, owners, freeing>>

\* Mutant: the end of the range is taken to be inclusive.
freerange_inclusive(lo, hi) == [i \in 1 .. hi - lo + 1 |-> hi - i + 1]

\* _kfree of every page of lo .. hi-1 in address order: each becomes the head.
freerange(lo, hi) == [i \in 1 .. hi - lo |-> hi - i]

-----------------------------------------------------------------------------
\* kinit1: the pages mapped by entrypgdir.
Init ==
  /\ use_lock = 0
  /\ freelist = freerange(EndPage, SplitPage)
  /\ ref = [f \in Frames |-> 0]
  /\ occupiedPages = 0
  /\ owners = [f \in Frames |-> {}]
  /\ freeing = [o \in Owners |-> NoFrame]

\* kinit2: the rest of memory, then locking is turned on.
kinit2 ==
  /\ use_lock = 0
  /\ freelist' = freerange(SplitPage, MAXPAGES) \o freelist
  /\ use_lock' = 1
  /\ UNCHANGED <<ref, occupiedPages, owners, freeing>>

\* Until kinit2 only the boot processor allocates (kvmalloc, startothers).
MayCall(o) == (use_lock = 1 \/ o = Boot) /\ freeing[o] = NoFrame

\* kalloc: the head of the list, with one reference.  On an empty list it
\* returns 0 and changes nothing.
kalloc(o) ==
  /\ MayCall(o)
  /\ freelist # <<>>
  /\ LET r == Head(freelist) IN
       /\ freelist' = Tail(freelist)
       /\ ref' = [ref EXCEPT ![r] = 1]
       /\ owners' = [owners EXCEPT ![r] = @ \cup {o}]
  /\ occupiedPages' = occupiedPages + 1
  /\ UNCHANGED <<use_lock, freeing>>

\* Mutant: the new reference is not counted.
incrementReferences_uncounted(o, p, f) ==
  /\ MayCall(o) /\ use_lock = 1
  /\ o \in owners[f] /\ p \notin owners[f]
  /\ owners' = [owners EXCEPT ![f] = @ \cup {p}]
  /\ UNCHANGED <<use_lock, freelist, ref, occupiedPages, freeing>>

\* incrementReferences: cowuvm makes p also map a frame that o maps.
incrementReferences(o, p, f) ==
  /\ MayCall(o) /\ use_lock = 1
  /\ o \in owners[f] /\ p \notin owners[f]
  /\ ref' = [ref EXCEPT ![f] = @ + 1]
  /\ owners' = [owners EXCEPT ![f] = @ \cup {p}]
  /\ UNCHANGED <<use_lock, freelist, occupiedPages, freeing>>

\* Mutants of the test that keeps the last reference: it never does, or it
\* already stops at two.
Shared_always(f) == TRUE
Shared_offByOne(f) == ref[f] > 2

Shared(f) == ref[f] > 1

\* decrementReferencesAndGetPrevVal: the last reference is left in place and
\* the caller, which gets 1 back, goes on to kfree.
decrementReferencesAndGetPrevVal(o, f) ==
  /\ MayCall(o)
  /\ o \in owners[f]
  /\ IF Shared(f)
       THEN /\ ref' = [ref EXCEPT ![f] = @ - 1]
            /\ owners' = [owners EXCEPT ![f] = @ \ {o}]
            /\ UNCHANGED freeing
       ELSE /\ freeing' = [freeing EXCEPT ![o] = f]
            /\ UNCHANGED <<ref, owners>>
  /\ UNCHANGED <<use_lock, freelist, occupiedPages>>

OccupiedAfterFree == occupiedPages - 1

\* kfree, which panics unless the count is exactly 1.
kfree(o) ==
  /\ freeing[o] # NoFrame
  /\ ref[freeing[o]] = 1
  /\ freelist' = <<freeing[o]>> \o freelist
  /\ ref' = [ref EXCEPT ![freeing[o]] = 0]
  /\ occupiedPages' = OccupiedAfterFree
  /\ owners' = [owners EXCEPT ![freeing[o]] = @ \ {o}]
  /\ freeing' = [freeing EXCEPT ![o] = NoFrame]
  /\ UNCHANGED use_lock

getNumberOfFreePages == MAXPAGES - occupiedPages

Next ==
  \/ kinit2
  \/ \E o \in Owners :
       \/ kalloc(o)
       \/ kfree(o)
       \/ \E f \in Frames :
            \/ decrementReferencesAndGetPrevVal(o, f)
            \/ \E p \in Owners : incrementReferences(o, p, f)

Spec == Init /\ [][Next]_vars

-----------------------------------------------------------------------------
\* Pages the allocator manages so far.
Released == IF use_lock = 1 THEN Frames ELSE EndPage .. SplitPage - 1

TypeOK ==
  /\ use_lock \in {0, 1}
  /\ freelist \in Seq(Frames)
  /\ ref \in [Frames -> Nat]
  /\ occupiedPages \in Int
  /\ owners \in [Frames -> SUBSET Owners]
  /\ freeing \in [Owners -> Frames \cup {NoFrame}]

\* runArr[f].ref counts the references that are held (kalloc.c 114-170): the
\* callers' decrement-then-kfree never leaves a count above or below them.
RefsExact == \A f \in Frames : ref[f] = Cardinality(owners[f])

\* kmem.freelist holds each released frame that nobody owns exactly once:
\* none is lost and none is handed out twice.
FreelistExact ==
  /\ \A i, j \in 1 .. Len(freelist) : freelist[i] = freelist[j] => i = j
  /\ {freelist[i] : i \in 1 .. Len(freelist)} = {f \in Released : ref[f] = 0}

\* A caller told to kfree is the frame's only owner until it has done so, so
\* panic("kfree: ref") (kalloc.c 80) is unreachable and nobody can still map
\* the page it fills with junk.
SoleOwnerFrees ==
  \A o \in Owners : freeing[o] # NoFrame => owners[freeing[o]] = {o}

\* getNumberOfFreePages (kalloc.c 135-138) is off by a constant: with all of
\* memory released it exceeds the frames on the list by the EndPage pages of
\* the kernel image.
FreePagesReport ==
  use_lock = 1 =>
    getNumberOfFreePages = Cardinality({f \in Frames : owners[f] = {}}) + EndPage

Ownership == INSTANCE FrameOwnership WITH
  Frames <- Frames,
  EarlyFrames <- EndPage .. SplitPage - 1,
  Owners <- Owners,
  pool <- Released,
  owners <- owners

\* kalloc, incrementReferences, decrementReferencesAndGetPrevVal and kfree
\* implement exclusive hand-out and shared ownership of frames.
OwnershipSpec == Ownership!Spec
=============================================================================
