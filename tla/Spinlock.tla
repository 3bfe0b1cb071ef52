----------------------------- MODULE Spinlock -----------------------------
(***************************************************************************)
(* spinlock.c on one processor: the interrupt flag, the depth of pushcli   *)
(* and whether the flag was set when it began.  A lock is the processor    *)
(* that holds it, or None.                                                 *)
(***************************************************************************)
EXTENDS Integers

Off(cpu) == [cpu EXCEPT !.if = FALSE]

pushcli(cpu) ==
  [cpu EXCEPT !.if = FALSE, !.ncli = @ + 1, !.intena = IF cpu.ncli = 0 THEN cpu.if ELSE @]

popcli(cpu) == [cpu EXCEPT !.ncli = @ - 1, !.if = @ \/ (cpu.ncli = 1 /\ cpu.intena)]

holding(lock, lk, c) == lock[lk] = c
=============================================================================
