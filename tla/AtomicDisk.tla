----------------------------- MODULE AtomicDisk -----------------------------
(***************************************************************************)
(* What the log promises (log.c 9-16): file system operations write blocks *)
(* between their begin and end; what is on the disk for good changes only  *)
(* as a whole and only while no operation is in progress, so a crash never *)
(* shows part of one.                                                      *)
(***************************************************************************)
CONSTANTS Procs, Blocks, Values
VARIABLES view, durable, active

Init == view \in [Blocks -> Values] /\ durable = view /\ active = {}

Begin(p) ==
  /\ p \notin active
  /\ active' = active \cup {p}
  /\ UNCHANGED <<view, durable>>

Write(p, b, v) ==
  /\ p \in active
  /\ view' = [view EXCEPT ![b] = v]
  /\ UNCHANGED <<durable, active>>

End(p) ==
  /\ p \in active
  /\ active' = active \ {p}
  /\ UNCHANGED <<view, durable>>

Commit ==
  /\ active = {}
  /\ durable' = view
  /\ UNCHANGED <<view, active>>

Crash ==
  /\ view' = durable
  /\ active' = {}
  /\ UNCHANGED durable

Next ==
  \/ \E p \in Procs : Begin(p) \/ End(p)
  \/ \E p \in Procs, b \in Blocks, v \in Values : Write(p, b, v)
  \/ Commit
  \/ Crash

Spec == Init /\ [][Next]_<<view, durable, active>>
=============================================================================
