------------------------------- MODULE MCLog -------------------------------
(* Three processes contend for a small log, which may crash at any time. *)
EXTENDS Log
=============================================================================
