------------------------------- MODULE MCBio -------------------------------
(* Two processes, more blocks than buffers. *)
EXTENDS Bio
=============================================================================
