--------------------------- MODULE FrameOwnership ---------------------------
(***************************************************************************)
(* What the page allocator promises its callers: a frame handed out has no *)
(* other owner, a frame stays with its owners until each of them gives it  *)
(* up, and a frame without owners can be handed out again.                 *)
(***************************************************************************)
CONSTANTS Frames, EarlyFrames, Owners

VARIABLES pool, owners

Init ==
  /\ pool = EarlyFrames
  /\ owners = [f \in Frames |-> {}]

\* The remaining frames become available, once.
Grow ==
  /\ pool' = Frames
  /\ UNCHANGED owners

Take(o, f) ==
  /\ f \in pool /\ owners[f] = {}
  /\ owners' = [owners EXCEPT ![f] = {o}]
  /\ UNCHANGED pool

Share(o, p, f) ==
  /\ o \in owners[f] /\ p \notin owners[f]
  /\ owners' = [owners EXCEPT ![f] = @ \cup {p}]
  /\ UNCHANGED pool

Drop(o, f) ==
  /\ o \in owners[f]
  /\ owners' = [owners EXCEPT ![f] = @ \ {o}]
  /\ UNCHANGED pool

Next ==
  \/ Grow
  \/ \E o \in Owners, f \in Frames :
       \/ Take(o, f)
       \/ Drop(o, f)
       \/ \E p \in Owners : Share(o, p, f)

Spec == Init /\ [][Next]_<<pool, owners>>
=============================================================================
