------------------------------- MODULE MCPipe -------------------------------
(* Three processes on a pipe of two bytes whose counters wrap at four.  Some
   messages fit, one does not; one process only reads. *)
EXTENDS Pipe, TLC

CONSTANTS p1, p2, p3

MCMessages == (p1 :> {<<1>>, <<1, 2, 2>>}) @@ (p2 :> {<<2>>, <<2, 1>>}) @@ (p3 :> {})
=============================================================================
