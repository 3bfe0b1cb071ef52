---------------------------- MODULE MCSwapBuffer ----------------------------
(* Two processes with a page each, moved in two pieces. *)
EXTENDS SwapBuffer
=============================================================================
