----------------------------- MODULE ByteStream -----------------------------
(***************************************************************************)
(* What a pipe is to its users: writers append, readers take from the      *)
(* front, and nothing is lost, invented or reordered.                      *)
(***************************************************************************)
EXTENDS Naturals, Sequences

CONSTANTS Bytes, PIPESIZE
VARIABLES
  stream,   \* written and not yet read
  got       \* what the last step handed to a reader

Init == stream = <<>> /\ got = <<>>

Put ==
  /\ \E n \in 0 .. PIPESIZE : \E bytes \in [1 .. n -> Bytes] : stream' = stream \o bytes
  /\ Len(stream') <= PIPESIZE
  /\ got' = <<>>

Get ==
  \E n \in 0 .. Len(stream) :
    /\ got' = SubSeq(stream, 1, n)
    /\ stream' = SubSeq(stream, n + 1, Len(stream))

Next == Put \/ Get
Spec == Init /\ [][Next]_<<stream, got>>
=============================================================================
