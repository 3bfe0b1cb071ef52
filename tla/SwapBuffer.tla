----------------------------- MODULE SwapBuffer -----------------------------
(***************************************************************************)
(* Page-out and page-in of several processes through the static buffers of *)
(* vm.c ("buffer" and "swapBuffer").  filewrite and fileread move a page   *)
(* in pieces and sleep in between, for the log, the inode lock and the     *)
(* disk; the buffers are shared by all processes.                          *)
(*                                                                         *)
(* A page's contents are known by the process and page they belong to.     *)
(***************************************************************************)
EXTENDS Naturals, FiniteSets

CONSTANTS
  Procs,
  Pages,      \* virtual pages of a process
  Pieces      \* a page is transferred in this many pieces

VARIABLES
  mem,        \* mem[p][v]: the page in memory, piece by piece; NoPage if absent
  file,       \* file[p][v]: its copy in the swap file
  buffer, swapBuffer,
  op          \* what each process is doing: [name, out, in, done]

vars == <<mem, file, buffer, swapBuffer, op>>

Piece == 1 .. Pieces
NoPage == <<>>
Whole(p, v) == [i \in Piece |-> <<p, v>>]
Blank == [i \in Piece |-> "zero"]
Idle == [name |-> "idle"]

Resident(p) == {v \in Pages : mem[p][v] # NoPage}

Init ==
  /\ mem = [p \in Procs |-> [v \in Pages |-> Whole(p, v)]]
  /\ file = [p \in Procs |-> [v \in Pages |-> Blank]]
  /\ buffer = Blank /\ swapBuffer = Blank
  /\ op = [p \in Procs |-> Idle]

\* The first part of pageToSwapFile: memmove to buffer.  in = v: nothing else
\* to do; in # v: swapPages called it and wants page "in".
pageToSwapFile(p, v, in) ==
  /\ buffer' = mem[p][v]
  /\ op' = [op EXCEPT ![p] = [name |-> "write", out |-> v, in |-> in, done |-> 0]]

\* allocuvm needs a frame.
Evict(p, v) ==
  /\ op[p] = Idle /\ v \in Resident(p)
  /\ pageToSwapFile(p, v, v)
  /\ UNCHANGED <<mem, file, swapBuffer>>

\* filewrite's loop: one begin_op .. end_op.
WritePiece(p) ==
  LET o == op[p]
  IN  /\ o.name = "write" /\ o.done < Pieces
      /\ file' = [file EXCEPT ![p][o.out][o.done + 1] = buffer[o.done + 1]]
      /\ op' = [op EXCEPT ![p].done = @ + 1]
      /\ UNCHANGED <<mem, buffer, swapBuffer>>

\* The rest of pageToSwapFile and, for swapPages, the new page.
Written(p) ==
  LET o == op[p]
  IN  /\ o.name = "write" /\ o.done = Pieces
      /\ mem' = [mem EXCEPT ![p] =
           [v \in Pages |-> CASE v = o.in /\ v # o.out -> swapBuffer
                              [] v = o.out -> NoPage
                              [] OTHER -> @[v]]]
      /\ op' = [op EXCEPT ![p] = Idle]
      /\ UNCHANGED <<file, buffer, swapBuffer>>

\* A fault on an absent page: onPageFaultPG reads it into buffer; swapPages,
\* when memory and swap file are full, into swapBuffer.
PageFault(p, v, name) ==
  /\ op[p] = Idle /\ v \notin Resident(p)
  /\ name = "swap" => Resident(p) # {}
  /\ op' = [op EXCEPT ![p] = [name |-> name, out |-> v, in |-> v, done |-> 0]]
  /\ UNCHANGED <<mem, file, buffer, swapBuffer>>

\* readi: one block.
ReadPiece(p) ==
  LET o == op[p]
      i == o.done + 1
  IN  /\ o.name \in {"read", "swap"} /\ o.done < Pieces
      /\ buffer' = IF o.name = "read" THEN [buffer EXCEPT ![i] = file[p][o.in][i]] ELSE buffer
      /\ swapBuffer' =
           IF o.name = "swap" THEN [swapBuffer EXCEPT ![i] = file[p][o.in][i]] ELSE swapBuffer
      /\ op' = [op EXCEPT ![p].done = @ + 1]
      /\ UNCHANGED <<mem, file>>

\* memmove(mem, buffer) in onPageFaultPG.
ReadDone(p) ==
  /\ op[p].name = "read" /\ op[p].done = Pieces
  /\ mem' = [mem EXCEPT ![p][op[p].in] = buffer]
  /\ op' = [op EXCEPT ![p] = Idle]
  /\ UNCHANGED <<file, buffer, swapBuffer>>

\* swapPages goes on to page out a victim.
SwapOut(p, v) ==
  /\ op[p].name = "swap" /\ op[p].done = Pieces /\ v \in Resident(p)
  /\ pageToSwapFile(p, v, op[p].in)
  /\ UNCHANGED <<mem, file, swapBuffer>>

Next ==
  \E p \in Procs :
    \/ WritePiece(p) \/ Written(p) \/ ReadPiece(p) \/ ReadDone(p)
    \/ \E v \in Pages :
         \/ Evict(p, v) \/ SwapOut(p, v)
         \/ \E name \in {"read", "swap"} : PageFault(p, v, name)

Spec == Init /\ [][Next]_vars

-----------------------------------------------------------------------------
\* "write to addres that located on disk and check if the write works"
\* (sanity.c 28): whatever other processes page in and out, a page in memory is
\* the page its process put there.
PagesIntact == \A p \in Procs : \A v \in Resident(p) : mem[p][v] = Whole(p, v)
=============================================================================
