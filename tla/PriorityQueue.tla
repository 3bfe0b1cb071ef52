---------------------------- MODULE PriorityQueue ----------------------------
(***************************************************************************)
(* priorityQueue.c: the array min-heap behind the page replacement         *)
(* policies.  A queue is a record of the array (0-based, entries past size *)
(* keep their stale contents, as in C) and the size the C code passes by   *)
(* pointer.  Priorities are unsigned: -1 is UINT_MAX and Inc wraps.        *)
(***************************************************************************)
EXTENDS Integers, Sequences, FiniteSets

CONSTANT UINT_MAX

ASSUME UintAssumption == UINT_MAX \in Nat

Inc(x) == IF x = UINT_MAX THEN 0 ELSE x + 1

Entry(i, prio) == [index |-> i, priority |-> prio]
NoEntry == Entry(-1, UINT_MAX)

swapHeapNode(a, i, j) == [a EXCEPT ![i] = a[j], ![j] = a[i]]

peekHeap(q) == q.arr[0]

\* Mutant: the right child is never looked at.
Smallest_leftOnly(a, size, i) ==
  IF 2 * i + 1 < size /\ a[2 * i + 1].priority < a[i].priority
    THEN 2 * i + 1 ELSE i

\* The smallest of a node and its children; a child wins only when it is
\* strictly smaller, and the right one only against the left one.
Smallest(a, size, i) ==
  LET l == 2 * i + 1
      r == 2 * i + 2
      s == IF l < size /\ a[l].priority < a[i].priority THEN l ELSE i
  IN  IF r < size /\ a[r].priority < a[s].priority THEN r ELSE s

RECURSIVE heapify(_, _, _)
heapify(a, size, i) ==
  LET s == Smallest(a, size, i)
  IN  IF size = 1 \/ s = i THEN a ELSE heapify(swapHeapNode(a, i, s), size, s)

\* The loop "for (i = size/2 - 1; i >= 0; i--) heapify(array, size, i)".
RECURSIVE Rebuild(_, _, _)
Rebuild(a, size, i) ==
  IF i < 0 THEN a ELSE Rebuild(heapify(a, size, i), size, i - 1)

insertHeap(q, e) ==
  LET a == [q.arr EXCEPT ![q.size] = e]
      n == q.size + 1
  IN  [arr |-> IF q.size = 0 THEN a ELSE Rebuild(a, n, n \div 2 - 1), size |-> n]

\* The entry of page index, or NoEntry: deleteRoot's result.
EntryOf(q, index) ==
  LET at == {k \in 0 .. q.size - 1 : q.arr[k].index = index}
  IN  IF at = {} THEN NoEntry ELSE q.arr[CHOOSE k \in at : \A m \in at : k <= m]

\* The first entry of page index changes places with the last one.
deleteRoot(q, index) ==
  LET at == {k \in 0 .. q.size - 1 : q.arr[k].index = index}
      i  == CHOOSE k \in at : \A m \in at : k <= m
      n  == q.size - 1
  IN  IF at = {} THEN q
      ELSE [arr |-> Rebuild(swapHeapNode(q.arr, i, n), n, n \div 2 - 1), size |-> n]

\* Returns the queue without its root, which is peekHeap(q); only called with
\* size > 0.
extractMin(q) ==
  LET n == q.size - 1
  IN  IF q.size = 1 THEN [q EXCEPT !.size = 0]
      ELSE [arr |-> heapify([q.arr EXCEPT ![0] = q.arr[n]], n, 0), size |-> n]

\* Every entry {-1, -1}; the size is the caller's business.
initHeap(cap) == [k \in 0 .. cap - 1 |-> NoEntry]

\* findInHeap deletes the entry and inserts it again.
findInHeap(q, pageNum) ==
  IF EntryOf(q, pageNum).index = -1 THEN q
  ELSE insertHeap(deleteRoot(q, pageNum), EntryOf(q, pageNum))

\* The first largest entry from size/2 on, where a heap has its leaves.  On an
\* empty queue it looks at the stale entry 0.
findMaxElementIndex(q) ==
  LET S == {q.size \div 2} \cup (q.size \div 2 + 1 .. q.size - 1)
  IN  CHOOSE k \in S : \A m \in S : q.arr[m].priority < q.arr[k].priority
                          \/ (q.arr[m].priority = q.arr[k].priority /\ k <= m)

-----------------------------------------------------------------------------
\* The entries of a queue, as a set.
Entries(q) == {q.arr[k] : k \in 0 .. q.size - 1}

\* No entry is smaller than its parent.
IsHeap(q) ==
  \A k \in 1 .. q.size - 1 : q.arr[(k - 1) \div 2].priority <= q.arr[k].priority

\* The heaps of up to six entries, with three priorities.  Page numbers are only
\* compared with each other, so that slot k may hold page k.
Heaps ==
  LET prios == UNION {[0 .. n - 1 -> 0 .. 2] : n \in 0 .. 6}
      heap(f) == [arr  |-> [k \in 0 .. 6 |-> IF k \in DOMAIN f THEN Entry(k, f[k]) ELSE NoEntry],
                  size |-> Cardinality(DOMAIN f)]
  IN  {q \in {heap(f) : f \in prios} : IsHeap(q)}

\* q is a heap with exactly the entries of S.
Holds(q, S) == IsHeap(q) /\ Entries(q) = S /\ q.size = Cardinality(S)

\* The array heap is a priority queue (priorityQueue.c): whatever it holds, no
\* operation loses, doubles or invents an entry, the root is a least one, and the
\* largest one is among the leaves, where findMaxElementIndex looks for it.
HeapOperations ==
  \A q \in Heaps :
    /\ \A prio \in 0 .. 2 :
         Holds(insertHeap(q, Entry(6, prio)), Entries(q) \cup {Entry(6, prio)})
    /\ \A i \in 0 .. 6 :
         /\ Holds(deleteRoot(q, i), {e \in Entries(q) : e.index # i})
         /\ Holds(findInHeap(q, i), Entries(q))
    /\ q.size > 0 =>
         /\ Holds(extractMin(q), Entries(q) \ {peekHeap(q)})
         /\ \A e \in Entries(q) :
              /\ peekHeap(q).priority <= e.priority
              /\ e.priority <= q.arr[findMaxElementIndex(q)].priority
=============================================================================
