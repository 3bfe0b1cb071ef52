-------------------------------- MODULE Pipe --------------------------------
(***************************************************************************)
(* A pipe (pipe.c) and the open files of its two ends (file.c), shared by  *)
(* processes that fork, close, read, write and get killed.                 *)
(*                                                                         *)
(* What runs under p->lock or ftable.lock between two sleeps is one step.  *)
(* nread and nwrite count modulo Width, for 2^32.                          *)
(***************************************************************************)
EXTENDS Integers, Sequences, FiniteSets, FiniteSetsExt

CONSTANTS
  Procs, First,     \* First makes the pipe
  Bytes,
  Messages,         \* what each process may write
  PIPESIZE, Width,
  MaxCount,         \* most bytes one read asks for
  MaxKilled,        \* processes killed and not gone
  None

ASSUME PipeAssumption ==
  /\ \A p \in Procs : Messages[p] \subseteq Seq(Bytes)
  /\ IsFiniteSet(Procs) /\ First \in Procs
  /\ PIPESIZE \in Nat \ {0} /\ MaxCount \in Nat
  /\ Width \in Nat /\ Width > PIPESIZE /\ Width % PIPESIZE = 0
  /\ None \notin {"nread", "nwrite"}

Ends == {"r", "w"}

VARIABLES
  data, nread, nwrite, readopen, writeopen,
  freed,      \* the page of the pipe was given back
  ref,        \* f->ref of the two open files
  fds,        \* the ends a process has open
  op,         \* what it is doing: [name, ...]
  asleep,     \* the channel it sleeps on, in op
  killed,
  got,        \* what the last step handed to a reader
  gaveUp      \* history: a killed writer left bytes and did not wake readers

pipe == <<data, nread, nwrite, readopen, writeopen, freed>>
vars == <<data, nread, nwrite, readopen, writeopen, freed, ref, fds, op, asleep, killed,
          got, gaveUp>>

Idle == [name |-> "idle"]

\* pipealloc, by First.
Init ==
  /\ data \in [0 .. PIPESIZE - 1 -> Bytes]
  /\ nread = 0 /\ nwrite = 0 /\ readopen = TRUE /\ writeopen = TRUE /\ freed = FALSE
  /\ ref = [e \in Ends |-> 1]
  /\ fds = [p \in Procs |-> IF p = First THEN Ends ELSE {}]
  /\ op = [p \in Procs |-> Idle] /\ asleep = [p \in Procs |-> None]
  /\ killed = [p \in Procs |-> FALSE] /\ got = <<>> /\ gaveUp = FALSE

wakeup(chan) == [p \in Procs |-> IF asleep[p] = chan THEN None ELSE asleep[p]]

\* Free to make a system call on end e.  A kill may land after the test of
\* killed in trap(), so a killed process may still begin one.
MayCall(p, e) == op[p] = Idle /\ e \in fds[p]

\* Mutant: the counters are compared without regard to wrapping.
Used_signed == nwrite - nread

Used == (nwrite - nread) % Width
Empty == nread = nwrite

-----------------------------------------------------------------------------
(* Reading and writing.                                                    *)

\* Mutant: a writer that has to wait does not say so to the readers.
FullWakes_not == asleep

Advance(n, k) == (n + k) % Width
Room == PIPESIZE - Used
FullWakes == wakeup("nread")

\* The ring with the first k of bytes put in from nwrite on.
Stored(bytes, k) ==
  [i \in DOMAIN data |->
    LET j == {n \in 1 .. k : (nwrite + n - 1) % PIPESIZE = i}
    IN  IF j = {} THEN data[i] ELSE bytes[Max(j)]]

\* pipewrite from where it has bytes left to write until it returns or sleeps.
\* It gives up when it would have to wait and nobody can read, or it is killed.
pipewrite(p, bytes) ==
  LET k    == Min({Room, Len(bytes)})
      rest == SubSeq(bytes, k + 1, Len(bytes))
  IN  /\ data' = Stored(bytes, k)
      /\ nwrite' = Advance(nwrite, k)
      /\ CASE rest = <<>> ->
                /\ asleep' = wakeup("nread") /\ gaveUp' = FALSE
                /\ op' = [op EXCEPT ![p] = Idle]
           [] rest # <<>> /\ (~readopen \/ killed[p]) ->
                /\ gaveUp' = (gaveUp \/ k > 0) /\ UNCHANGED asleep
                /\ op' = [op EXCEPT ![p] = Idle]
           [] OTHER ->
                /\ asleep' = [FullWakes EXCEPT ![p] = "nwrite"] /\ gaveUp' = FALSE
                /\ op' = [op EXCEPT ![p] = [name |-> "write", bytes |-> rest]]
      /\ got' = <<>> /\ UNCHANGED <<nread, readopen, writeopen, freed, ref, fds, killed>>

Write(p, bytes) == MayCall(p, "w") /\ pipewrite(p, bytes)
WriteOn(p) == op[p].name = "write" /\ asleep[p] = None /\ pipewrite(p, op[p].bytes)

NothingToRead == Empty /\ writeopen

\* piperead of n bytes.
piperead(p, n) ==
  LET k == Min({n, Used})
  IN  /\ IF NothingToRead
           THEN /\ IF killed[p]
                     THEN op' = [op EXCEPT ![p] = Idle] /\ UNCHANGED asleep
                     ELSE /\ op' = [op EXCEPT ![p] = [name |-> "read", n |-> n]]
                          /\ asleep' = [asleep EXCEPT ![p] = "nread"]
                /\ got' = <<>> /\ UNCHANGED nread
           ELSE /\ got' = [i \in 1 .. k |-> data[(nread + i - 1) % PIPESIZE]]
                /\ nread' = Advance(nread, k)
                /\ asleep' = wakeup("nwrite")
                /\ op' = [op EXCEPT ![p] = Idle]
      /\ UNCHANGED <<data, nwrite, readopen, writeopen, freed, ref, fds, killed, gaveUp>>

Read(p, n) == MayCall(p, "r") /\ piperead(p, n)
ReadOn(p) == op[p].name = "read" /\ asleep[p] = None /\ piperead(p, op[p].n)

-----------------------------------------------------------------------------
(* Open files.                                                             *)

Dup(ends) == [e \in Ends |-> IF e \in ends THEN ref[e] + 1 ELSE ref[e]]

\* fork: filedup of every descriptor, in a slot that has none.
fork(p, np) ==
  /\ op[p] = Idle /\ fds[p] # {} /\ ~killed[p]
  /\ op[np] = Idle /\ fds[np] = {}
  /\ fds' = [fds EXCEPT ![np] = fds[p]]
  /\ ref' = Dup(fds[p])
  /\ got' = <<>> /\ UNCHANGED <<pipe, op, asleep, killed, gaveUp>>

\* fileclose: the last one goes on to pipeclose.  A killed process closes what
\* it has open, in exit(), and its slot is then clean again.
fileclose(p, e) ==
  /\ op[p] = Idle /\ e \in fds[p]
  /\ fds' = [fds EXCEPT ![p] = @ \ {e}]
  /\ ref' = [ref EXCEPT ![e] = @ - 1]
  /\ op' = IF ref[e] = 1 THEN [op EXCEPT ![p] = [name |-> "close", end |-> e]] ELSE op
  /\ killed' = IF fds'[p] = {} THEN [killed EXCEPT ![p] = FALSE] ELSE killed
  /\ got' = <<>> /\ UNCHANGED <<pipe, asleep, gaveUp>>

\* Mutant: closing one end gives the page back.
BothClosed_either(e) == TRUE

BothClosed(e) == IF e = "w" THEN ~readopen ELSE ~writeopen

pipeclose(p) ==
  LET e == op[p].end
  IN  /\ op[p].name = "close"
      /\ writeopen' = (writeopen /\ e # "w")
      /\ readopen' = (readopen /\ e # "r")
      /\ asleep' = wakeup(IF e = "w" THEN "nread" ELSE "nwrite")
      /\ freed' = BothClosed(e)
      /\ op' = [op EXCEPT ![p] = Idle]
      /\ got' = <<>> /\ UNCHANGED <<data, nread, nwrite, ref, fds, killed, gaveUp>>

\* kill() by anyone.
kill(q) ==
  /\ ~killed[q] /\ fds[q] # {} /\ Cardinality({p \in Procs : killed[p]}) < MaxKilled
  /\ killed' = [killed EXCEPT ![q] = TRUE]
  /\ asleep' = [asleep EXCEPT ![q] = None]
  /\ got' = <<>> /\ UNCHANGED <<pipe, ref, fds, op, gaveUp>>

Next ==
  \E p \in Procs :
    \/ \E bytes \in Messages[p] : Write(p, bytes)
    \/ \E n \in 1 .. MaxCount : Read(p, n)
    \/ WriteOn(p) \/ ReadOn(p) \/ pipeclose(p) \/ kill(p)
    \/ \E np \in Procs : fork(p, np)
    \/ \E e \in Ends : fileclose(p, e)

Spec == Init /\ [][Next]_vars

-----------------------------------------------------------------------------
\* The bytes written and not read.
Contents == [i \in 1 .. Used |-> data[(nread + i - 1) % PIPESIZE]]

Stream == INSTANCE ByteStream WITH stream <- Contents

\* The ring buffer and its two counters, which only ever grow and wrap, are a
\* first-in first-out queue of at most PIPESIZE bytes.
StreamSpec == Stream!Spec

Closing(e) == \E p \in Procs : op[p].name = "close" /\ op[p].end = e

\* The pipe is given back once, when both ends are closed for good, and never
\* under a process that reads, writes or closes.
FreedLast ==
  /\ \A e \in Ends : ref[e] = Cardinality({p \in Procs : e \in fds[p]})
  /\ readopen <=> ref["r"] > 0 \/ Closing("r")
  /\ writeopen <=> ref["w"] > 0 \/ Closing("w")
  /\ freed <=> ~readopen /\ ~writeopen
  /\ \A p \in Procs : op[p] # Idle => ~freed

\* Nobody sleeps without a reason: a writer only while the pipe is full and can
\* be read, a reader only while it is empty and can be written.  The one exception
\* is a killed writer that fills the pipe: it returns -1 without waking the
\* readers.
SleepsForReason ==
  \A p \in Procs :
    /\ asleep[p] = "nwrite" => Used = PIPESIZE /\ readopen
    /\ asleep[p] = "nread" => writeopen /\ (Empty \/ gaveUp)

=============================================================================
