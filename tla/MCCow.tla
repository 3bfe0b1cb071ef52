------------------------------- MODULE MCCow -------------------------------
(* Parent and child, and a free frame for each. *)
EXTENDS Cow
=============================================================================
