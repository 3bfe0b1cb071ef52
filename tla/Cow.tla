-------------------------------- MODULE Cow --------------------------------
(***************************************************************************)
(* Copy on write on several processors: processes that share a page after  *)
(* fork write to it at the same time.  onPageFaultCow gives up its         *)
(* reference under kmem.lock and copies the page later, without a lock.    *)
(* The module follows one virtual page, the same in all processes.         *)
(***************************************************************************)
EXTENDS Naturals, FiniteSets

CONSTANTS
  Procs, Frames,
  Shared    \* the frame they share

VARIABLES
  pte,      \* frame and PTE_W of the page in every process
  ref,      \* kmem.runArr[].ref
  data,     \* contents of the frames: who wrote last
  pc,       \* "run", "copy" (in onPageFaultCow) or "exited"
  expected  \* what each process must find in its page

vars == <<pte, ref, data, pc, expected>>

Inherited == "inherited"
Junk == "junk"

\* As cowuvm leaves it: one frame, read-only for all.
Init ==
  /\ pte = [p \in Procs |-> [frame |-> Shared, writable |-> FALSE]]
  /\ ref = [f \in Frames |-> IF f = Shared THEN Cardinality(Procs) ELSE 0]
  /\ data = [f \in Frames |-> IF f = Shared THEN Inherited ELSE Junk]
  /\ pc = [p \in Procs |-> "run"]
  /\ expected = [p \in Procs |-> Inherited]

Store(p) ==
  /\ pc[p] = "run" /\ pte[p].writable
  /\ data' = [data EXCEPT ![pte[p].frame] = p]
  /\ expected' = [expected EXCEPT ![p] = p]
  /\ UNCHANGED <<pte, ref, pc>>

\* A store to the read-only page: the handler up to its first decision.
onPageFaultCow(p) ==
  LET f == pte[p].frame
  IN  /\ pc[p] = "run" /\ ~pte[p].writable
      /\ IF ref[f] > 1
           THEN /\ ref' = [ref EXCEPT ![f] = @ - 1]
                /\ pc' = [pc EXCEPT ![p] = "copy"]
                /\ UNCHANGED pte
           ELSE /\ pte' = [pte EXCEPT ![p].writable = TRUE]
                /\ UNCHANGED <<ref, pc>>
      /\ UNCHANGED <<data, expected>>

\* kalloc, memmove, and the new entry.
Copy(p, new) ==
  /\ pc[p] = "copy" /\ ref[new] = 0
  /\ ref' = [ref EXCEPT ![new] = 1]
  /\ data' = [data EXCEPT ![new] = data[pte[p].frame]]
  /\ pte' = [pte EXCEPT ![p] = [frame |-> new, writable |-> TRUE]]
  /\ pc' = [pc EXCEPT ![p] = "run"]
  /\ UNCHANGED expected

\* The page is released by deallocuvm; the last reference frees the frame.
Exit(p) ==
  LET f == pte[p].frame
  IN  /\ pc[p] = "run"
      /\ pc' = [pc EXCEPT ![p] = "exited"]
      /\ ref' = [ref EXCEPT ![f] = @ - 1]
      /\ data' = IF ref[f] = 1 THEN [data EXCEPT ![f] = Junk] ELSE data
      /\ UNCHANGED <<pte, expected>>

Next ==
  \E p \in Procs :
    \/ Store(p) \/ onPageFaultCow(p) \/ Exit(p)
    \/ \E new \in Frames : Copy(p, new)

Spec == Init /\ [][Next]_vars

-----------------------------------------------------------------------------
\* "create a copy of it for a child" (vm.c 478): after fork, every process
\* finds in its page what it wrote there, or what it inherited.
CopiesApart == \A p \in Procs : pc[p] = "run" => data[pte[p].frame] = expected[p]
=============================================================================
