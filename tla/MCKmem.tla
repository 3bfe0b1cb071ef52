------------------------------- MODULE MCKmem -------------------------------
(* Kmem with two kernel pages, one early and two late frames, three owners. *)
EXTENDS Kmem
=============================================================================
