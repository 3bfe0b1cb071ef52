------------------------------- MODULE MCProc -------------------------------
(* init and two more slots on two processors. *)
EXTENDS Proc
=============================================================================
