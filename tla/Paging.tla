------------------------------- MODULE Paging -------------------------------
(***************************************************************************)
(* Demand paging of one user process (pid > 2): the page table, the        *)
(* bookkeeping of proc.h (ramPmd, swapPmd, prioArr and the two counters),  *)
(* the frames, and the swap file.  A handler is an operator from process   *)
(* state to process state, composed as the C functions call each other;    *)
(* an action runs one handler.  What it touches is private to the process, *)
(* except the frame allocator, so no other process interferes with it.     *)
(*                                                                         *)
(* After Fork the module follows the child, with the parent asleep in      *)
(* wait() and still mapping what it mapped.                                *)
(***************************************************************************)
EXTENDS PriorityQueue, FiniteSets, TLC

CONSTANTS
  MAX_PSYC_PAGES, MAX_TOTAL_PAGES, MAX_PRIO_ARR,
  Settings,   \* the builds and bounds considered, see below
  NPages,     \* pages of the address space below the first unmapped one
  Stores,     \* the pages the program also writes to
  MaxGrow,    \* most pages one sbrk asks for or releases
  Releases    \* the pages sbrk(-n) is applied to: present ("P"), paged out
              \* ("PG"), with metadata from before a fork ("inherited")

ASSUME PagingAssumption ==
  /\ {MAX_PSYC_PAGES, MAX_TOTAL_PAGES, MAX_PRIO_ARR, NPages} \subseteq Nat \ {0}
  /\ MAX_TOTAL_PAGES = 2 * MAX_PSYC_PAGES /\ MAX_PRIO_ARR = MAX_TOTAL_PAGES + 1
  /\ MaxGrow \in Nat
  \* SELECTION, and the pages and frames that exist; prio bounds the
  \* queue positions of SCFIFO and AQ, forks the generations.
  /\ \A b \in Settings :
       /\ b.policy \in {"SCFIFO", "NFUA", "LAPA", "AQ"}
       /\ b.pages \in 1 .. NPages /\ b.frames \in Nat \ {0} /\ b.forks \in Nat
       /\ b.prio \in Nat /\ b.prio + MAX_TOTAL_PAGES + 2 < UINT_MAX
  /\ Stores \subseteq 0 .. NPages - 1
  /\ Releases \subseteq {"P", "PG", "inherited"}

Va == 0 .. NPages - 1
Slots == 0 .. MAX_PSYC_PAGES - 1
NoVa == -1
NoFrame == 0      \* physical page 0, in an empty entry; never allocated
Flags == {"P", "W", "A", "PG", "COW"}

\* Page contents: zeroes, kfree's junk, or what generation g wrote to page v.
Zero == <<>>
Junk == <<"junk">>
Written(g, v) == <<g, v>>

VARIABLES
  setting,    \* the build and the bounds of this behaviour
  p,          \* the process, the allocator and the swap file
  expected,   \* what the program must find in each of its pages
  parent,     \* the sleeping parent: its mapped frames and their contents
  generation  \* number of forks so far

vars == <<setting, p, expected, parent, generation>>

policy == setting.policy      \* SELECTION
Frames == 1 .. setting.frames

Running(s) == s.status = "running"
Panic(s, why) == [s EXCEPT !.status = why]

-----------------------------------------------------------------------------
(* Frames: kalloc.c as the Kmem module has it.                             *)

kalloc(s) == [s EXCEPT !.free = Tail(@), !.ref[Head(s.free)] = 1]

kfree(s, f) == [s EXCEPT !.free = <<f>> \o @, !.ref[f] = 0, !.data[f] = Junk]

\* "if (decrementReferencesAndGetPrevVal(v) == 1) kfree(v)": a count of 0 is
\* left alone.
Drop(s, f) ==
  CASE s.ref[f] > 1 -> [s EXCEPT !.ref[f] = @ - 1]
    [] s.ref[f] = 1 -> kfree(s, f)
    [] OTHER -> s

-----------------------------------------------------------------------------
(* The arrays of paging metadata.                                          *)

\* initPmd leaves pgdir alone; "mine" is pmd->pgdir == p->pgdir.
initPmd(pmd) == [pmd EXCEPT !.va = NoVa, !.occupied = FALSE, !.age = 0]

First(S) == IF S = {} THEN -1 ELSE CHOOSE k \in S : \A m \in S : k <= m

Vacant(pmds) == First({k \in Slots : ~pmds[k].occupied})
OccupiedBy(pmds, va) == First({k \in Slots : pmds[k].occupied /\ pmds[k].va = va})

\* Does not look at "occupied".
getPagePgdirIndex(pmds, va) == First({k \in Slots : pmds[k].mine /\ pmds[k].va = va})

-----------------------------------------------------------------------------
(* The replacement policies.                                               *)

\* SCFIFO and AQ write the ages but never read them; they stay 0 here.
UsesAge == policy \in {"NFUA", "LAPA"}

HighBit == (UINT_MAX + 1) \div 2

RECURSIVE countSetBits(_)
countSetBits(n) == IF n = 0 THEN 0 ELSE (n % 2) + countSetBits(n \div 2)

\* (bit << 31) | (age >> 1)
shiftCounter(bit, age) == bit * HighBit + age \div 2

\* The priority that stands for an age.
PrioOfAge(age) == IF policy = "LAPA" THEN countSetBits(age) ELSE age

InsertLast(q, i) == insertHeap(q, Entry(i, Inc(q.arr[findMaxElementIndex(q)].priority)))

insertPageToPrioQueue(s, i) ==
  LET age == IF policy = "LAPA" THEN UINT_MAX ELSE 0
      out == [s EXCEPT !.q = deleteRoot(findInHeap(@, i), i)]
  IN  IF UsesAge
      THEN [out EXCEPT !.ram[i].age = age, !.q = insertHeap(@, Entry(i, PrioOfAge(age)))]
      ELSE [out EXCEPT !.q = InsertLast(@, i)]

Accessed(s, i) == "A" \in s.pte[s.ram[i].va].flags
ClearAccessed(s, i) == [s EXCEPT !.pte[s.ram[i].va].flags = @ \ {"A"}]

\* NFUA and LAPA: the counter is shifted, the accessed bit becomes its top.
Age(s, i) ==
  LET age == shiftCounter(IF Accessed(s, i) THEN 1 ELSE 0, s.ram[i].age)
  IN  ClearAccessed([s EXCEPT !.ram[i].age = age,
                              !.q = insertHeap(deleteRoot(@, i), Entry(i, PrioOfAge(age)))], i)

\* SCFIFO: an accessed page goes to the end of the queue.
Requeue(s, i) ==
  IF Accessed(s, i)
  THEN ClearAccessed([s EXCEPT !.q = InsertLast(deleteRoot(@, i), i)], i)
  ELSE s

\* AQ: a and b are taken out and come back with each other's priority.
Exchange(q, a, b) ==
  insertHeap(insertHeap(deleteRoot(deleteRoot(q, a.index), b.index),
                        Entry(a.index, b.priority)),
             Entry(b.index, a.priority))

\* They change places when b's page was accessed too.  "b.index != null" leaves
\* out page 0.
AdvancePast(s, q, a, b) ==
  IF q.size < 2 \/ b.index = 0 \/ ~Accessed(s, b.index) THEN q ELSE Exchange(q, a, b)

\* b is the second entry of the queue: the do-while ends after one extractMin,
\* since a.index = pageNum.
AdvanceIn(s, q, a) == AdvancePast(s, q, a, peekHeap(extractMin(q)))

Advance(s, i) ==
  LET a     == EntryOf(s.q, i)
      moved == IF findMaxElementIndex(s.q) = i \/ a.index = -1 THEN s.q
               ELSE AdvanceIn(s, findInHeap(s.q, i), a)
  IN  IF Accessed(s, i) THEN ClearAccessed([s EXCEPT !.q = moved], i) ELSE s

updatePageInPriorityQueue(s, i) ==
  CASE UsesAge -> Age(s, i)
    [] policy = "SCFIFO" -> Requeue(s, i)
    [] policy = "AQ" -> Advance(s, i)

\* NFUA and LAPA go through the slots, SCFIFO and AQ through a copy of the
\* queue in priority order.
RECURSIVE UpdateSlots(_, _)
UpdateSlots(s, i) ==
  IF i = MAX_PSYC_PAGES THEN s
  ELSE UpdateSlots(IF s.ram[i].occupied THEN updatePageInPriorityQueue(s, i) ELSE s, i + 1)

RECURSIVE UpdateQueued(_, _)
UpdateQueued(s, temp) ==
  IF temp.size = 0 THEN s
  ELSE UpdateQueued(updatePageInPriorityQueue(s, peekHeap(temp).index), extractMin(temp))

\* Mutant: nothing is updated before a page is chosen.
updatePagesInPriorityQueue_skip(s) == s

updatePagesInPriorityQueue(s) ==
  IF UsesAge THEN UpdateSlots(s, 0) ELSE UpdateQueued(s, s.q)

\* Heap position i and page number are mixed up, as in the code: for every
\* position that holds a page, the age of slot i and the priority at position
\* "page" go up.  Positions past MAX_PSYC_PAGES never hold a page.
RECURSIVE AgeFrom(_, _)
AgeFrom(s, i) ==
  LET page == s.q.arr[i].index
  IN  IF i = MAX_PSYC_PAGES THEN s
      ELSE AgeFrom(IF page # -1 /\ s.ram[i].occupied
                   THEN [s EXCEPT !.ram[i].age = IF UsesAge THEN Inc(@) ELSE @,
                                  !.q.arr[page].priority = Inc(@)]
                   ELSE s, i + 1)

increaseProcAge(s) == AgeFrom(s, 0)

\* AQ only: every priority above the victim's goes down.
decAqValues(s) ==
  LET prio == peekHeap(s.q).priority
  IN  [s EXCEPT !.q.arr = [k \in DOMAIN @ |->
         IF k \in Slots /\ @[k].index # -1 /\ @[k].priority > prio
         THEN [@[k] EXCEPT !.priority = @ - 1] ELSE @[k]]]

\* getPageIndex(IN_PHY, OCCUPIED, CLEAN_VA) and, in AQ, its side effect.
Victim(s) == IF s.q.size = 0 THEN -1 ELSE peekHeap(s.q).index
WithVictimChosen(s) == IF policy = "AQ" /\ s.q.size > 0 THEN decAqValues(s) ELSE s

-----------------------------------------------------------------------------
(* Moving pages.                                                           *)

\* mappages: panics on a present page, replaces all flags.
mappages(s, va, f, perm) ==
  IF "P" \in s.pte[va].flags THEN Panic(s, "remap")
  ELSE [s EXCEPT !.pte[va] = [flags |-> perm \cup {"P"}, frame |-> f]]

\* Mutant: the counter of the swap file is forgotten.
PageOutCounts_ram(s) == [s EXCEPT !.pagesInMemory = @ - 1]

PageOutCounts(s) == [s EXCEPT !.pagesInMemory = @ - 1, !.pagesInSwapfile = @ + 1]

PagedOut(flags) == (flags \ {"P"}) \cup {"PG"}

\* Mutant: the page is written to the file after its frame was freed.
Saved_late(s, slot, f) ==
  [s.file EXCEPT ![slot] = IF s.ref[f] = 1 THEN Junk ELSE s.data[f]]

Saved(s, slot, f) == [s.file EXCEPT ![slot] = s.data[f]]

\* The frame number stays in the page table entry.
pageToSwapFile(s, mem, slot) ==
  IF ~Running(s) THEN s
  ELSE IF mem = -1 THEN Panic(s, "no valid memIndex")
  ELSE IF slot = -1 THEN Panic(s, "no space left in swapFile")
  ELSE LET out == s.ram[mem]
           f   == s.pte[out.va].frame
           s1  == [s EXCEPT !.swap[slot] = [@ EXCEPT !.va = out.va, !.mine = out.mine,
                                                     !.occupied = TRUE],
                            !.ram[mem] = initPmd(@),
                            !.q = deleteRoot(@, mem),
                            !.file = Saved(s, slot, f)]
           s2  == Drop(PageOutCounts(s1), f)
       IN  [s2 EXCEPT !.pte[out.va].flags = PagedOut(@)]

\* Mutant: the test comes one page late.
SwapFull_late(s) == s.pagesInSwapfile > MAX_TOTAL_PAGES - MAX_PSYC_PAGES

SwapFull(s) == s.pagesInSwapfile = MAX_TOTAL_PAGES - MAX_PSYC_PAGES

\* The page at the root of the queue goes to the first free slot.
PageOutVictim(s) == pageToSwapFile(WithVictimChosen(s), Victim(s), Vacant(s.swap))

\* The page gets entry i of ramPmd.
Enter(s, va, i) ==
  [s EXCEPT !.ram[i] = [@ EXCEPT !.va = va, !.mine = TRUE, !.occupied = TRUE]]

\* A zeroed frame, its mapping and its metadata.
Enlist(s, va, i) ==
  IF Running(s)
  THEN insertPageToPrioQueue([Enter(s, va, i) EXCEPT !.pagesInMemory = @ + 1], i)
  ELSE s
MapZeroed(s, va, f) == mappages([kalloc(s) EXCEPT !.data[f] = Zero], va, f, {"W"})
PlacePage(s, va) ==
  CASE ~Running(s) -> s
    [] Running(s) /\ s.free = <<>> -> [s EXCEPT !.nomem = TRUE]
    [] OTHER -> Enlist(MapZeroed(s, va, Head(s.free)), va, Vacant(s.ram))

\* allocuvm for one page.
AllocPage(s, va) ==
  CASE ~Running(s) -> s
    [] Running(s) /\ s.pagesInMemory < MAX_PSYC_PAGES -> PlacePage(s, va)
    [] OTHER -> IF SwapFull(s) THEN Panic(s, "allocuvm: full")
                ELSE PlacePage(PageOutVictim(updatePagesInPriorityQueue(s)), va)

\* deallocuvm for one page: a paged-out page is treated like a present one.
\* byParent: wait() frees the pages of a zombie, and looks them up in the
\* caller's own arrays, where it does not find them.
DeallocPage(s, va, byParent) ==
  LET s0 == Drop(s, s.pte[va].frame)
      i  == getPagePgdirIndex(s.ram, va)
      k  == getPagePgdirIndex(s.swap, va)
      s1 == IF i # -1 /\ s.ram[i].occupied
            THEN [s0 EXCEPT !.pagesInMemory = @ - 1, !.q = deleteRoot(@, i),
                            !.ram[i] = initPmd(@)]
            ELSE s0
      s2 == IF k # -1 /\ s.swap[k].occupied
            THEN [s1 EXCEPT !.pagesInSwapfile = @ - 1, !.swap[k] = initPmd(@)]
            ELSE s1
      s3 == IF byParent THEN s0 ELSE s2
  IN  IF s.pte[va].flags \cap {"P", "PG"} = {} THEN s
      ELSE [s3 EXCEPT !.pte[va] = [flags |-> {}, frame |-> NoFrame]]

RECURSIVE deallocuvm(_, _, _, _)
deallocuvm(s, from, to, byParent) ==
  IF to >= from THEN s ELSE deallocuvm(DeallocPage(s, to, byParent), from, to + 1, byParent)

\* Out of memory undoes the pages allocated so far; s.nomem is allocuvm's 0.
RECURSIVE AllocPages(_, _, _)
AllocPages(s, a, newsz) ==
  IF a >= newsz \/ s.nomem \/ ~Running(s) THEN s ELSE AllocPages(AllocPage(s, a), a + 1, newsz)

UndoIfNoMem(s, oldsz, newsz) == IF s.nomem THEN deallocuvm(s, newsz, oldsz, FALSE) ELSE s

allocuvm(s, oldsz, newsz) ==
  UndoIfNoMem(AllocPages([s EXCEPT !.nomem = FALSE], oldsz, newsz), oldsz, newsz)

-----------------------------------------------------------------------------
(* The page fault handler.                                                 *)

CowShared(s, f) == s.ref[f] > 1

\* The reference is given up before the copy is made.
onPageFaultCow(s, va) ==
  LET f     == s.pte[va].frame
      flags == s.pte[va].flags
      s0    == [s EXCEPT !.ref[f] = @ - 1]
      new   == Head(s.free)
  IN  IF ~CowShared(s, f)
      THEN [s EXCEPT !.pte[va].flags = (@ \cup {"W"}) \ {"COW"}]
      ELSE IF s.free = <<>> THEN [s0 EXCEPT !.status = "killed"]
      ELSE [kalloc(s0) EXCEPT
              !.data[new] = s.data[f],
              !.pte[va] = [flags |-> (flags \cup {"P", "W"}) \ {"COW"}, frame |-> new]]

\* A new frame for va, filled from the swap file; kalloc failing leaves the
\* page where it was.
ReadIn(s, va, contents) ==
  IF s.free = <<>> THEN [s EXCEPT !.nomem = TRUE]
  ELSE mappages([kalloc(s) EXCEPT !.data[Head(s.free)] = contents, !.nomem = FALSE],
                va, Head(s.free), {"W"})

\* Memory and swap file both full: the victim takes over the slot of the page
\* that comes in.
swapPages(s, mem, slot) ==
  LET tmp == s.swap[slot]
      s1  == pageToSwapFile(s, mem, slot)
      s2  == increaseProcAge([s1 EXCEPT !.pagesInSwapfile = @ - 1, !.pagesInMemory = @ + 1])
      s3  == insertPageToPrioQueue([s2 EXCEPT !.ram[mem] = tmp], mem)
  IN  IF slot = -1 \/ mem = -1 THEN Panic(s, "swapPages: page not found")
      ELSE ReadIn(s3, tmp.va, s.file[slot])

\* Only "occupied" is cleared; va and pgdir stay.
Vacate(s, slot) == [s EXCEPT !.swap[slot].occupied = FALSE, !.pagesInSwapfile = @ - 1]

\* The page has left its slot, and comes to entry i of ramPmd.
BringIn(s, va, contents, i) ==
  LET s1 == ReadIn(insertPageToPrioQueue(Enter(s, va, i), i), va, contents)
  IN  IF i = -1 THEN Panic(s, "onpagefault: no free space in memory")
      ELSE IF s1.nomem \/ ~Running(s1) THEN s1
      ELSE [s1 EXCEPT !.pagesInMemory = @ + 1]

FetchFrom(s, va, slot) ==
  CASE ~Running(s) -> s
    [] Running(s) /\ slot = -1 -> Panic(s, "onPageFaultPG: page not found in swapFile")
    [] OTHER -> BringIn(increaseProcAge(Vacate(s, slot)), va, s.file[slot], Vacant(s.ram))

Fetch(s, va) == FetchFrom(s, va, OccupiedBy(s.swap, va))

onPageFaultPG(s, va) ==
  CASE s.pagesInMemory + s.pagesInSwapfile > MAX_TOTAL_PAGES ->
         Panic(s, "onPageFaultPG: full")
    [] s.pagesInMemory = MAX_PSYC_PAGES /\ SwapFull(s) ->
         swapPages(WithVictimChosen(s), Victim(s), OccupiedBy(s.swap, va))
    [] OTHER ->
         Fetch(IF s.pagesInMemory = MAX_PSYC_PAGES THEN PageOutVictim(s) ELSE s, va)

Resolve(s, va) ==
  CASE "COW" \in s.pte[va].flags -> onPageFaultCow(s, va)
    [] "COW" \notin s.pte[va].flags /\ "PG" \in s.pte[va].flags -> onPageFaultPG(s, va)
    [] OTHER -> [s EXCEPT !.status = "killed"]

onPageFault(s, va) == Resolve(updatePagesInPriorityQueue([s EXCEPT !.nomem = FALSE]), va)

-----------------------------------------------------------------------------
(* Actions.                                                                *)

\* The process as exec leaves it, with one page.
Fresh ==
  LET pmd == [va |-> NoVa, occupied |-> FALSE, mine |-> FALSE, age |-> 0]
  IN  [sz |-> 0, pte |-> [v \in Va |-> [flags |-> {}, frame |-> NoFrame]],
       ram |-> [k \in Slots |-> pmd], swap |-> [k \in Slots |-> pmd],
       q |-> [arr |-> initHeap(MAX_PRIO_ARR), size |-> 0],
       pagesInMemory |-> 0, pagesInSwapfile |-> 0,
       free |-> [i \in 1 .. setting.frames |-> i], ref |-> [f \in Frames \cup {NoFrame} |-> 0],
       data |-> [f \in Frames \cup {NoFrame} |-> Junk], file |-> [k \in Slots |-> Zero],
       status |-> "running", nomem |-> FALSE]

Init ==
  /\ setting \in Settings
  /\ p = [allocuvm(Fresh, 0, 1) EXCEPT !.sz = 1]
  /\ expected = [v \in Va |-> Zero]
  /\ parent = {}
  /\ generation = 0

Bounded(s) ==
  policy \in {"SCFIFO", "AQ"} => \A k \in 0 .. s.q.size - 1 : s.q.arr[k].priority <= setting.prio

\* What the MMU lets through without a trap.
Hit(va, write) ==
  "P" \in p.pte[va].flags /\ (write => "W" \in p.pte[va].flags)

\* A load or store that hits; a store leaves its mark.
Access(va, write) ==
  LET f == p.pte[va].frame
      s == [p EXCEPT !.pte[va].flags = @ \cup {"A"}]
      w == Written(generation, va)
  IN  /\ Running(p) /\ Hit(va, write)
      /\ p' = IF write THEN [s EXCEPT !.data[f] = w] ELSE s
      /\ expected' = IF write THEN [expected EXCEPT ![va] = w] ELSE expected
      /\ UNCHANGED <<setting, parent, generation>>

\* One that does not: trap() calls onPageFault, and the instruction is tried
\* again when the process next runs.
PageFault(va, write) ==
  /\ Running(p) /\ ~Hit(va, write)
  /\ p' = onPageFault(p, va)
  /\ Bounded(p')
  /\ UNCHANGED <<setting, expected, parent, generation>>

\* The program runs, so it can make a system call.
Executes == Running(p) /\ \E v \in Va : "P" \in p.pte[v].flags

Resized(s, n) == IF s.nomem \/ ~Running(s) THEN s ELSE [s EXCEPT !.sz = @ + n]

\* growproc(n), n > 0.
Grow(n) ==
  /\ Executes /\ p.sz + n <= setting.pages
  /\ p' = Resized(allocuvm(p, p.sz, p.sz + n), n)
  /\ Bounded(p')
  /\ expected' = [v \in Va |-> IF v \in p.sz .. p.sz + n - 1 THEN Zero ELSE expected[v]]
  /\ UNCHANGED <<setting, parent, generation>>

\* growproc(-n): a new size of 0 looks like deallocuvm's error value.
SizeAfterShrink(sz, n) == IF sz = n THEN sz ELSE sz - n

StateOf(v) ==
  (p.pte[v].flags \cap {"P", "PG"})
  \cup (IF -1 \in {getPagePgdirIndex(p.ram, v)} \cap {getPagePgdirIndex(p.swap, v)}
        THEN {"inherited"} ELSE {})

Shrink(n) ==
  /\ Executes /\ n <= p.sz
  /\ \A v \in p.sz - n .. p.sz - 1 : StateOf(v) \subseteq Releases
  /\ p' = [deallocuvm(p, p.sz, p.sz - n, FALSE) EXCEPT !.sz = SizeAfterShrink(@, n)]
  /\ UNCHANGED <<setting, expected, parent, generation>>

Present(s) == {v \in Va : "P" \in s.pte[v].flags}

\* cowuvm: present pages become read-only in both page tables.
cowuvm(s) ==
  [s EXCEPT
     !.pte = [v \in Va |-> IF v \in Present(s)
                           THEN [s.pte[v] EXCEPT !.flags = (@ \ {"W"}) \cup {"COW"}]
                           ELSE s.pte[v]],
     !.ref = [f \in DOMAIN @ |-> @[f] + Cardinality({v \in Present(s) : s.pte[v].frame = f})]]

\* The child's metadata: occupied entries are copied with the parent's pgdir
\* in them.  The swap file is copied slot by slot.
Inherit(pmds) ==
  [k \in Slots |-> IF pmds[k].occupied THEN [pmds[k] EXCEPT !.mine = FALSE]
                   ELSE [va |-> NoVa, occupied |-> FALSE, mine |-> FALSE, age |-> 0]]

\* cowuvm panics on a page below sz that is neither present nor paged out.
Fork ==
  /\ Executes /\ generation < setting.forks
  /\ p' = IF \E v \in 0 .. p.sz - 1 : p.pte[v].flags \cap {"P", "PG"} = {}
          THEN Panic(p, "copyuvm: page not present")
          ELSE [cowuvm(p) EXCEPT
                  !.ram = Inherit(@), !.swap = Inherit(@),
                  !.file = [k \in Slots |-> IF p.swap[k].occupied THEN @[k] ELSE Zero],
                  !.q.arr = [k \in DOMAIN @ |-> IF k \in Slots THEN @[k] ELSE NoEntry]]
  /\ parent' = parent \cup {[gen |-> generation, va |-> v, frame |-> p.pte[v].frame,
                             contents |-> expected[v]] : v \in Present(p)}
  /\ generation' = generation + 1
  /\ UNCHANGED <<setting, expected>>

\* Mutant: page 0 is forgotten.
ExitAndReap_firstKept ==
  /\ p.status \in {"running", "killed"}
  /\ p' = [deallocuvm(p, NPages, 1, TRUE) EXCEPT !.status = "reaped"]
  /\ UNCHANGED <<setting, expected, parent, generation>>

\* exit(), then freevm() in the parent's wait().
ExitAndReap ==
  /\ p.status \in {"running", "killed"}
  /\ p' = [deallocuvm(p, NPages, 0, TRUE) EXCEPT !.status = "reaped"]
  /\ UNCHANGED <<setting, expected, parent, generation>>

Next ==
  \/ \E va \in Va, write \in BOOLEAN :
       (write => va \in Stores) /\ (Access(va, write) \/ PageFault(va, write))
  \/ \E n \in 1 .. MaxGrow : Grow(n) \/ Shrink(n)
  \/ Fork
  \/ ExitAndReap

Spec == Init /\ [][Next]_vars

-----------------------------------------------------------------------------
Occupied(pmds) == {k \in Slots : pmds[k].occupied}
PagedOutPages(s) == {v \in Va : "PG" \in s.pte[v].flags}
Alive(s) == s.status \in {"running", "killed"}

\* The page table, the two arrays, the queue and the counters agree: a page is
\* present iff exactly one ramPmd entry and one queue entry stand for it, and
\* paged out iff exactly one swapPmd entry does; no page is both; pagesInMemory
\* and pagesInSwapfile, on which every decision to evict rests, count the
\* occupied entries (vm.c 325-331, 596-617, 380-402, 795-831, 1082-1086).
PageTableAgrees ==
  Alive(p) =>
    /\ p.pagesInMemory = Cardinality(Occupied(p.ram))
    /\ p.pagesInSwapfile = Cardinality(Occupied(p.swap))
    /\ p.pagesInMemory + p.pagesInSwapfile <= MAX_TOTAL_PAGES
    /\ Present(p) \cap PagedOutPages(p) = {}
    /\ \A v \in Va :
         /\ Cardinality({k \in Occupied(p.ram) : p.ram[k].va = v}) =
              IF v \in Present(p) THEN 1 ELSE 0
         /\ Cardinality({k \in Occupied(p.swap) : p.swap[k].va = v}) =
              IF v \in PagedOutPages(p) THEN 1 ELSE 0
    /\ {e.index : e \in Entries(p.q)} = Occupied(p.ram)

\* Between handlers the replacement queue is a heap, although increaseProcAge
\* raises priorities in place and without regard to order (proc.c 709-725), and
\* a page sits in it at most once: updatePageInPriorityQueue inserts "if not
\* already exist" (vm.c 906); and the operations on it are those of a priority
\* queue for every heap.
QueueSound ==
  /\ HeapOperations
  /\ IsHeap(p.q)
  /\ \A j, k \in 0 .. p.q.size - 1 : p.q.arr[j].index = p.q.arr[k].index => j = k

\* Eviction, page-in and copy-on-write are transparent: the program finds in
\* every page what it last wrote there, and so does its parent after a fork,
\* whatever the child does.
DataIntact ==
  Alive(p) =>
    /\ \A v \in Present(p) : p.data[p.pte[v].frame] = expected[v]
    /\ \A k \in Occupied(p.swap) : p.file[k] = expected[p.swap[k].va]
    /\ \A r \in parent : p.data[r.frame] = r.contents

\* Reference counts count the page table entries that map a frame, and the
\* frames with none are on the free list, once each.
FrameCountsExact ==
  /\ \A f \in Frames :
       p.ref[f] = Cardinality({v \in Present(p) : p.pte[v].frame = f})
                  + Cardinality({r \in parent : r.frame = f})
  /\ {p.free[i] : i \in 1 .. Len(p.free)} = {f \in Frames : p.ref[f] = 0}
  /\ Len(p.free) = Cardinality({f \in Frames : p.ref[f] = 0})

\* As long as the process lives, evictions, page-ins, copies on write and sbrk
\* leak no frame, free none twice and free none that is mapped.  When it is
\* reaped, unless it was forked, it has given back every frame: freevm frees
\* "all the physical memory pages in the user part" (vm.c 408).
FramesExact ==
  /\ Alive(p) => FrameCountsExact
  /\ p.status = "reaped" /\ generation = 0 => FrameCountsExact /\ Present(p) = {}

\* freevm frees the pages of its own page table only: a parent keeps the pages it maps when its child is
\* reaped.
ParentKeepsPages == \A r \in parent : p.ref[r.frame] > 0 /\ p.data[r.frame] = r.contents

\* The only panic a program can cause is asking for more than
\* MAX_TOTAL_PAGES (vm.c 301).
NoPanic ==
  /\ p.status \in {"running", "killed", "reaped", "allocuvm: full"}
  /\ p.status = "allocuvm: full" =>
       Cardinality(Present(p)) + Cardinality(PagedOutPages(p)) = MAX_TOTAL_PAGES

Evicted(v) == v \in Present(p) /\ v \in PagedOutPages(p)'

\* The age NFUA and LAPA compare, after the shift of the handler that evicts.
Shifted(i) == PrioOfAge(shiftCounter(IF Accessed(p, i) THEN 1 ELSE 0, p.ram[i].age))

\* The victim is the page the policy promises.  SCFIFO and NFUA evict no page
\* that was accessed since the last scan while a resident page that was not
\* accessed stays (second chance, vm.c 942-955; top bit, vm.c 912-917).  NFUA and
\* LAPA, on a page fault, evict a page whose counter, respectively number of set
\* bits, is least once the accessed bits are shifted in: the priorities in the
\* queue are never stale when the victim is taken.
VictimAsPromised ==
  [][\A i \in Occupied(p.ram) : Evicted(p.ram[i].va) =>
       /\ policy \in {"SCFIFO", "NFUA"} /\ "A" \in p.pte[p.ram[i].va].flags =>
            \A u \in Present(p) \cap Present(p)' : "A" \in p.pte[u].flags
       /\ UsesAge /\ p'.sz = p.sz =>
            \A j \in Occupied(p.ram) : Shifted(i) <= Shifted(j)]_vars
=============================================================================
