----------------------------- MODULE Terminal -----------------------------
(***************************************************************************)
(* What a terminal promises: the line being typed can be edited until it   *)
(* is entered; what has been entered is read in order, once, and is never  *)
(* changed.  At most Size characters wait; the one that fills it enters    *)
(* the line.                                                               *)
(***************************************************************************)
EXTENDS Naturals, Sequences

CONSTANTS Chars, Enters, Size

VARIABLES line, entered

Init == line = <<>> /\ entered = <<>>

Type(c) ==
  /\ Len(entered) + Len(line) < Size
  /\ IF c \in Enters \/ Len(entered) + Len(line) + 1 = Size
       THEN entered' = entered \o Append(line, c) /\ line' = <<>>
       ELSE line' = Append(line, c) /\ UNCHANGED entered

Erase ==
  /\ line # <<>>
  /\ line' = SubSeq(line, 1, Len(line) - 1)
  /\ UNCHANGED entered

EraseLine == line' = <<>> /\ UNCHANGED entered

Read ==
  /\ entered # <<>>
  /\ entered' = Tail(entered)
  /\ UNCHANGED line

Next == (\E c \in Chars : Type(c)) \/ Erase \/ EraseLine \/ Read

Spec == Init /\ [][Next]_<<line, entered>>
=============================================================================
