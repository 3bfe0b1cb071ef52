-------------------------------- MODULE Proc --------------------------------
(***************************************************************************)
(* The process table of proc.c on several processors: fork, exit, wait,    *)
(* kill, sleep, wakeup, yield and the scheduler.                           *)
(*                                                                         *)
(* A section under ptable.lock is one step, except that sched() hands the  *)
(* held lock to the scheduler of the same processor, and the scheduler to  *)
(* the process it switches to: "plock" is the processor that holds it.     *)
(* "lk" is another spinlock, whose holder runs "while(!ready) sleep(chan,  *)
(* &lk)" or sets ready and calls wakeup(chan), as pipe.c, sleeplock.c,     *)
(* bio.c and log.c do.  Page tables, files and pids are not modelled: a    *)
(* slot of the table is its own pid.                                       *)
(***************************************************************************)
EXTENDS Naturals, FiniteSets

CONSTANTS
  NPROC,      \* slots of ptable.proc
  CPUs,
  None

ASSUME ProcAssumption ==
  /\ NPROC \in Nat \ {0}
  /\ IsFiniteSet(CPUs) /\ None \notin CPUs \cup Nat

Procs == 0 .. NPROC - 1
initproc == 0       \* userinit gets the first slot

VARIABLES
  state,      \* p->state
  parent,     \* p->parent
  pid,        \* p->pid # 0
  killed,     \* p->killed
  chan,       \* p->chan
  running,    \* c->proc
  pc,         \* where a process is in the kernel, or "user"
  child,      \* fork's np
  plock,      \* the processor that holds ptable.lock
  lk,         \* the process that holds lk
  ready       \* the condition lk protects

vars == <<state, parent, pid, killed, chan, running, pc, child, plock, lk, ready>>

Event == NPROC      \* the channel that goes with lk: no process

Init ==
  /\ state = [p \in Procs |-> IF p = initproc THEN "RUNNABLE" ELSE "UNUSED"]
  /\ parent = [p \in Procs |-> None] /\ chan = [p \in Procs |-> None]
  /\ killed = [p \in Procs |-> FALSE] /\ pid = [p \in Procs |-> p = initproc]
  /\ running = [c \in CPUs |-> None]
  /\ pc = [p \in Procs |-> "user"] /\ child = [p \in Procs |-> None]
  /\ plock = None /\ lk = None /\ ready = FALSE

\* p executes kernel or user code on c and nothing it does now needs
\* ptable.lock to be handed back first.
Executes(c, p) == running[c] = p /\ plock # c

\* A section under ptable.lock.
CanLock == plock = None

wakeup1(st, ch) ==
  [p \in Procs |-> IF st[p] = "SLEEPING" /\ chan[p] = ch THEN "RUNNABLE" ELSE st[p]]

-----------------------------------------------------------------------------
(* Processors.                                                             *)

\* The scheduler switches to a runnable process, which resumes with the lock.
scheduler(c, p) ==
  /\ running[c] = None /\ CanLock
  /\ state[p] = "RUNNABLE"
  /\ state' = [state EXCEPT ![p] = "RUNNING"]
  /\ running' = [running EXCEPT ![c] = p]
  /\ plock' = c
  /\ UNCHANGED <<pid, parent, killed, chan, pc, child, lk, ready>>

\* Where sched() returns to: forkret and yield release the lock; sleep clears
\* chan, and releases it too (wait() keeps it, see there).
Resume(c, p) ==
  /\ running[c] = p /\ plock = c /\ state[p] = "RUNNING" /\ pc[p] # "wait"
  /\ plock' = None
  /\ chan' = [chan EXCEPT ![p] = None]
  /\ UNCHANGED <<pid, state, parent, killed, running, pc, child, lk, ready>>

\* swtch from a process that has given up the processor; the scheduler
\* releases the lock.
sched(c, p) ==
  /\ running[c] = p /\ plock = c /\ state[p] # "RUNNING"
  /\ running' = [running EXCEPT ![c] = None]
  /\ plock' = None
  /\ UNCHANGED <<pid, state, parent, killed, chan, pc, child, lk, ready>>

\* A clock tick.  Interrupts are off while a spinlock is held or waited for.
yield(c, p) ==
  /\ Executes(c, p) /\ CanLock /\ pc[p] \in {"user", "fork"}
  /\ state' = [state EXCEPT ![p] = "RUNNABLE"]
  /\ plock' = c
  /\ UNCHANGED <<pid, parent, killed, chan, running, pc, child, lk, ready>>

-----------------------------------------------------------------------------
(* System calls.  A killed process makes none: trap() calls exit().        *)

InUser(c, p) == Executes(c, p) /\ pc[p] = "user"

\* allocproc: the first free slot becomes EMBRYO.  fork then works without the lock.
allocproc(c, p, np) ==
  /\ InUser(c, p) /\ ~killed[p] /\ CanLock
  /\ state[np] = "UNUSED" /\ \A q \in Procs : state[q] = "UNUSED" => np <= q
  /\ state' = [state EXCEPT ![np] = "EMBRYO"]
  /\ pid' = [pid EXCEPT ![np] = TRUE]
  /\ child' = [child EXCEPT ![p] = np]
  /\ pc' = [pc EXCEPT ![p] = "fork"]
  /\ UNCHANGED <<parent, killed, chan, running, plock, lk, ready>>

\* The rest of fork; without memory the slot is given back, not under the lock.
fork(c, p) ==
  LET np == child[p]
  IN  /\ Executes(c, p) /\ pc[p] = "fork"
      /\ \/ /\ CanLock
            /\ parent' = [parent EXCEPT ![np] = p]
            /\ state' = [state EXCEPT ![np] = "RUNNABLE"]
         \/ /\ state' = [state EXCEPT ![np] = "UNUSED"]
            /\ UNCHANGED parent
      /\ child' = [child EXCEPT ![p] = None]
      /\ pc' = [pc EXCEPT ![p] = "user", ![np] = "user"]
      /\ UNCHANGED <<pid, killed, chan, running, plock, lk, ready>>

Children(p) == {q \in Procs : parent[q] = p}
Zombies(p) == {q \in Children(p) : state[q] = "ZOMBIE"}

\* Mutants: the children keep their parent, or the lock is let go before the
\* process is off its stack.
Orphaned_kept(p) == parent
LockAfterExit_free(c) == None

ExitWakes(p, st) ==
  LET woken == wakeup1(st, parent[p])
  IN  IF Zombies(p) # {} THEN wakeup1(woken, initproc) ELSE woken

Orphaned(p) == [q \in Procs |-> IF parent[q] = p THEN initproc ELSE parent[q]]

LockAfterExit(c) == c

\* exit(), called by the program or, on the way back to user mode, by trap().
\* init does not exit.
exit(c, p) ==
  /\ InUser(c, p) /\ CanLock /\ p # initproc
  /\ state' = [ExitWakes(p, state) EXCEPT ![p] = "ZOMBIE"]
  /\ parent' = Orphaned(p)
  /\ plock' = LockAfterExit(c)
  /\ UNCHANGED <<pid, killed, chan, running, pc, child, lk, ready>>

\* Mutant: a process that has been killed waits on.
WaitFails_noKill(p) == Children(p) = {}

WaitFails(p) == Children(p) = {} \/ killed[p]

\* wait and wait2: one turn of the loop, on entry or when sleep() has returned
\* with the lock held.
wait(c, p) ==
  /\ \/ InUser(c, p) /\ ~killed[p] /\ CanLock
     \/ running[c] = p /\ pc[p] = "wait" /\ plock = c /\ state[p] = "RUNNING"
  /\ \/ \E q \in Zombies(p) :
          /\ \A r \in Zombies(p) : q <= r
          /\ state' = [state EXCEPT ![q] = "UNUSED"]
          /\ parent' = [parent EXCEPT ![q] = None]
          /\ pid' = [pid EXCEPT ![q] = FALSE]
          /\ killed' = [killed EXCEPT ![q] = FALSE]
          /\ chan' = [chan EXCEPT ![p] = None]
          /\ pc' = [pc EXCEPT ![p] = "user"]
          /\ plock' = None
     \/ /\ Zombies(p) = {}
        /\ IF WaitFails(p)
             THEN /\ pc' = [pc EXCEPT ![p] = "user"]
                  /\ chan' = [chan EXCEPT ![p] = None]
                  /\ plock' = None
                  /\ UNCHANGED state
             ELSE /\ pc' = [pc EXCEPT ![p] = "wait"]
                  /\ state' = [state EXCEPT ![p] = "SLEEPING"]
                  /\ chan' = [chan EXCEPT ![p] = p]
                  /\ plock' = c
        /\ UNCHANGED <<parent, pid, killed>>
  /\ UNCHANGED <<running, child, lk, ready>>

KillWakes(st, q) == IF st[q] = "SLEEPING" THEN [st EXCEPT ![q] = "RUNNABLE"] ELSE st

\* The table is searched for the pid, whatever the state of its slot.  init,
\* which must not exit, is not killed.
kill(c, p, q) ==
  /\ InUser(c, p) /\ ~killed[p] /\ CanLock /\ p # initproc
  /\ pid[q] /\ q # initproc
  /\ killed' = [killed EXCEPT ![q] = TRUE]
  /\ state' = KillWakes(state, q)
  /\ UNCHANGED <<parent, pid, chan, running, pc, child, plock, lk, ready>>

-----------------------------------------------------------------------------
(* Waiting for a condition under lk.                                       *)

acquire(c, p, next) ==
  /\ Executes(c, p) /\ lk = None
  /\ \/ pc[p] = "user" /\ ~killed[p] /\ p # initproc
     \/ pc[p] = "asleep" /\ next = "test"
  /\ lk' = p
  /\ pc' = [pc EXCEPT ![p] = next]
  /\ UNCHANGED <<pid, state, parent, killed, chan, running, child, plock, ready>>

\* Mutant: sleep() releases lk before it has ptable.lock.
HeldIntoSleep_not(p) == None

HeldIntoSleep(p) == p

\* The loop's test, with lk held.
Test(c, p) ==
  /\ Executes(c, p) /\ pc[p] = "test"
  /\ IF ready \/ killed[p]
       THEN /\ ready' = FALSE
            /\ lk' = None
            /\ pc' = [pc EXCEPT ![p] = "user"]
       ELSE /\ lk' = HeldIntoSleep(p)
            /\ pc' = [pc EXCEPT ![p] = "sleep"]
            /\ UNCHANGED ready
  /\ UNCHANGED <<state, parent, pid, killed, chan, running, child, plock>>

\* sleep(chan, &lk): ptable.lock is taken before lk is released.
sleep(c, p) ==
  /\ Executes(c, p) /\ pc[p] = "sleep" /\ CanLock
  /\ lk' = IF lk = p THEN None ELSE lk
  /\ chan' = [chan EXCEPT ![p] = Event]
  /\ state' = [state EXCEPT ![p] = "SLEEPING"]
  /\ pc' = [pc EXCEPT ![p] = "asleep"]
  /\ plock' = c
  /\ UNCHANGED <<pid, parent, killed, running, child, ready>>

\* The other side: the condition becomes true, then wakeup(chan).
Signal(c, p) ==
  /\ Executes(c, p) /\ pc[p] = "signal"
  /\ ready' = TRUE
  /\ pc' = [pc EXCEPT ![p] = "wakeup"]
  /\ UNCHANGED <<pid, state, parent, killed, chan, running, child, plock, lk>>

wakeup(c, p) ==
  /\ Executes(c, p) /\ pc[p] = "wakeup" /\ CanLock
  /\ state' = wakeup1(state, Event)
  /\ lk' = None
  /\ pc' = [pc EXCEPT ![p] = "user"]
  /\ UNCHANGED <<pid, parent, killed, chan, running, child, plock, ready>>

-----------------------------------------------------------------------------
\* What a process does in the kernel, or on the way out of it if killed.
KernelStep(c, p) ==
  \/ fork(c, p) \/ Test(c, p) \/ sleep(c, p) \/ Signal(c, p) \/ wakeup(c, p)
  \/ pc[p] = "asleep" /\ acquire(c, p, "test")
  \/ pc[p] = "wait" /\ wait(c, p)
  \/ killed[p] /\ exit(c, p)

Next ==
  \E c \in CPUs, p \in Procs :
    \/ KernelStep(c, p) \/ Resume(c, p) \/ sched(c, p)
    \/ scheduler(c, p) \/ yield(c, p) \/ exit(c, p) \/ wait(c, p)
    \/ \E next \in {"test", "signal"} : acquire(c, p, next)
    \/ \E q \in Procs : allocproc(c, p, q) \/ kill(c, p, q)

\* Every processor runs, spinning for a lock ends, the clock ticks, the scheduler goes round the
\* whole table, and init waits for ever (init.c).
Fairness ==
  /\ \A p \in Procs : SF_vars(\E c \in CPUs : KernelStep(c, p))
  /\ \A p \in Procs : WF_vars(\E c \in CPUs : Resume(c, p) \/ sched(c, p))
  /\ \A p \in Procs : SF_vars(\E c \in CPUs : scheduler(c, p))
  /\ \A c \in CPUs : WF_vars(\E p \in Procs : yield(c, p))
  /\ SF_vars(\E c \in CPUs : wait(c, initproc))

Spec == Init /\ [][Next]_vars
FairSpec == Spec /\ Fairness

-----------------------------------------------------------------------------
\* A process runs on at most one processor, its state says so whenever another
\* processor can look, and the stack it runs on belongs to it: wait() never
\* frees a zombie that has not left its processor (proc.c 330, 436).
OneProcessor ==
  /\ \A p \in Procs : Cardinality({c \in CPUs : running[c] = p}) <= 1
  /\ \A c \in CPUs : running[c] # None /\ plock # c => state[running[c]] = "RUNNING"
  /\ \A p \in Procs : state[p] = "RUNNING" => \E c \in CPUs : running[c] = p

\* "we can be guaranteed that we won't miss any wakeup" (proc.c 594): once the
\* condition holds and its wakeup has been made, nobody sleeps for it, and
\* nobody sleeps in wait() with a zombie child, also one inherited by init.
NoLostWakeup ==
  /\ ready /\ (\A p \in Procs : pc[p] # "wakeup") =>
       \A p \in Procs : ~(state[p] = "SLEEPING" /\ chan[p] = Event)
  /\ \A p \in Procs : state[p] = "SLEEPING" /\ chan[p] = p => Zombies(p) = {}

\* A process whose parent is gone or is init.
Orphan(p) ==
  parent[p] # None /\ (parent[p] = initproc \/ state[parent[p]] \in {"UNUSED", "ZOMBIE"})

\* "An exited process remains in the zombie state until its parent calls wait()"
\* (proc.c 272): one whose parent is gone or is init is reaped, since exit hands
\* orphans to init (proc.c 316-324) and init waits, unless init starts a new child
\* first, which wait() may find before them again and again.
OrphansReaped ==
  \A p \in Procs :
    state[p] = "ZOMBIE" /\ Orphan(p) ~>
      state[p] = "UNUSED" \/ pc[initproc] = "fork"

\* A killed process exits unless it has gone to sleep for an event: kill makes
\* a sleeper runnable, wait() gives up, and trap() calls exit() (proc.c 645).
KilledExits ==
  \A p \in Procs :
    killed[p] /\ pid[p] ~>
      \/ state[p] \in {"ZOMBIE", "UNUSED"}
      \/ state[p] = "SLEEPING" /\ chan[p] = Event
=============================================================================
