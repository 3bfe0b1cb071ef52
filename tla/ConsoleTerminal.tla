-------------------------- MODULE ConsoleTerminal ---------------------------
(***************************************************************************)
(* What console and clock promise the processes that use them: the ring of *)
(* the console implements Terminal, and calls of read and sleep return.    *)
(***************************************************************************)
EXTENDS Interrupts

Abstract == INSTANCE Terminal WITH
  Chars <- Chars, Enters <- {"nl", "eot"}, Size <- INPUT_BUF,
  line <- Between(input, input.w, input.e),
  entered <- Between(input, input.r, input.w)

\* The ring is a terminal: no character that has been entered is lost, erased,
\* overwritten, repeated or reordered, across the wrap of its indices and with
\* readers on several processors.
TerminalSpec == Abstract!Spec

-----------------------------------------------------------------------------
\* The interrupted code, not a handler, goes on.
Resumed(t) == \E c \in CPUs : Thread(c) = t /\ Len(at[t]) = 1 /\ Kernel(c)

\* Every processor runs; a lock that is let go again and again is got in the
\* end; a pending clock interrupt is taken once interrupts are on; and between
\* two interrupts the code that was interrupted gets on.
Fairness ==
  /\ \A c \in CPUs : WF_vars(Kernel(c)) /\ SF_vars(spin(c)) /\ SF_vars(timer(c))
  /\ \A t \in Threads : SF_vars(Resumed(t))

FairSpec == Spec /\ Fairness

\* The process has called sleep, or reads and there is input.
Owed(p) == Asked(p) = "tickslock" \/ (Asked(p) = "cons" /\ input.r # input.w)

\* sleep(n) returns once n ticks have passed, whatever the other processors do,
\* and a read returns unless the input is used up.
CallsReturn == \A p \in Procs : Owed(p) ~> ~Owed(p)
=============================================================================
