----------------------------- MODULE ProcProofs -----------------------------
(***************************************************************************)
(* For every size of the process table and every set of processors: a      *)
(* process is on one processor at most, and no wakeup is lost.             *)
(***************************************************************************)
EXTENDS Proc, FiniteSetTheorems, TLAPS

States == {"UNUSED", "EMBRYO", "SLEEPING", "RUNNABLE", "RUNNING", "ZOMBIE"}
Places == {"user", "fork", "wait", "test", "sleep", "asleep", "signal", "wakeup"}

Types ==
  /\ state \in [Procs -> States]
  /\ parent \in [Procs -> Procs \cup {None}]
  /\ chan \in [Procs -> Procs \cup {Event, None}]
  /\ running \in [CPUs -> Procs \cup {None}]
  /\ pc \in [Procs -> Places]
  /\ child \in [Procs -> Procs \cup {None}]
  /\ pid \in [Procs -> BOOLEAN] /\ killed \in [Procs -> BOOLEAN]
  /\ plock \in CPUs \cup {None} /\ lk \in Procs \cup {None}
  /\ ready \in BOOLEAN

\* No two processors run the same process.
Apart == \A c, d \in CPUs : running[c] = running[d] /\ running[c] # None => c = d

\* A process on a processor is RUNNING unless that processor has ptable.lock,
\* and in no case is its slot free.
OnCpu ==
  \A c \in CPUs : running[c] # None =>
    /\ plock # c => state[running[c]] = "RUNNING"
    /\ state[running[c]] \notin {"UNUSED", "EMBRYO"}

HasCpu == \A p \in Procs : state[p] = "RUNNING" => \E c \in CPUs : running[c] = p

\* Each fork has an EMBRYO of its own.
Forking ==
  \A p \in Procs : pc[p] = "fork" =>
    /\ child[p] \in Procs /\ state[child[p]] = "EMBRYO"
    /\ \A q \in Procs : pc[q] = "fork" /\ child[q] = child[p] => q = p

\* lk is held where it should be, by a process that is not preempted, and the
\* condition stays false between its test and the sleep.
Holding ==
  \A p \in Procs : pc[p] \in {"test", "sleep", "signal", "wakeup"} =>
    /\ lk = p /\ state[p] = "RUNNING"
    /\ pc[p] = "sleep" => ready = FALSE

\* init is never gone, has no parent, and nobody is its own parent.
Family ==
  /\ state[initproc] \notin {"UNUSED", "EMBRYO", "ZOMBIE"}
  /\ parent[initproc] = None
  /\ \A p \in Procs : parent[p] # p

ProcInv ==
  /\ Types /\ Apart /\ OnCpu /\ HasCpu /\ Forking /\ Holding /\ Family
  /\ NoLostWakeup

-----------------------------------------------------------------------------
\* The first slot is init's, and the channel of lk is no process.
LEMMA Slots ==
  /\ initproc \in Procs /\ Event \notin Procs /\ None \notin Procs
  /\ None \notin CPUs /\ Event # None /\ Procs \subseteq Nat
BY ProcAssumption DEF Procs, initproc, Event

\* What executes is RUNNING.
LEMMA Executing ==
  ASSUME ProcInv, NEW c \in CPUs, NEW p \in Procs, Executes(c, p)
  PROVE  state[p] = "RUNNING"
BY Slots DEF ProcInv, OnCpu, Executes

\* The table at boot.
LEMMA InitInv == Init => ProcInv
<1> SUFFICES ASSUME Init PROVE ProcInv
  OBVIOUS
<1> USE Slots DEF Init
<1>1. Types
  BY Zenon DEF Types, States, Places
<1>2. Apart /\ OnCpu /\ HasCpu
  BY DEF Apart, OnCpu, HasCpu
<1>3. Forking /\ Holding /\ Family
  BY DEF Forking, Holding, Family
<1>4. NoLostWakeup
  BY DEF NoLostWakeup, Zombies, Children
<1> QED
  BY <1>1, <1>2, <1>3, <1>4 DEF ProcInv

\* The scheduler takes a process that no processor has: it is not RUNNING, and
\* nobody holds the lock.
LEMMA SchedulerInv ==
  ASSUME ProcInv, NEW c \in CPUs, NEW p \in Procs, scheduler(c, p)
  PROVE  ProcInv'
<1> USE Slots DEF ProcInv, scheduler, CanLock
<1>1. Types'
  BY DEF Types, States
<1>2. Apart' /\ OnCpu' /\ HasCpu'
  <2>1. Apart'
    BY DEF Types, Apart, OnCpu
  <2>2. OnCpu'
    BY DEF Types, OnCpu
  <2>3. HasCpu'
    BY DEF Types, HasCpu
  <2> QED
    BY <2>1, <2>2, <2>3, Zenon
<1>3. Forking' /\ Holding' /\ Family'
  <2>1. Forking'
    BY DEF Types, Forking
  <2>2. Holding'
    BY DEF Types, Holding
  <2>3. Family'
    BY DEF Types, Family
  <2> QED
    BY <2>1, <2>2, <2>3, Zenon
<1>4. NoLostWakeup'
  BY DEF Types, NoLostWakeup, Zombies, Children
<1> QED
  BY <1>1, <1>2, <1>3, <1>4

\* A process that comes back from sched().
LEMMA ResumeInv ==
  ASSUME ProcInv, NEW c \in CPUs, NEW p \in Procs, Resume(c, p)
  PROVE  ProcInv'
<1> USE Slots DEF ProcInv, Resume
<1>1. Types'
  BY DEF Types
<1>2. Apart' /\ OnCpu' /\ HasCpu'
  <2>1. Apart'
    BY DEF Types, Apart
  <2>2. OnCpu'
    BY DEF Types, OnCpu
  <2>3. HasCpu'
    BY DEF Types, HasCpu
  <2> QED
    BY <2>1, <2>2, <2>3, Zenon
<1>3. Forking' /\ Holding' /\ Family'
  <2>1. Forking'
    BY DEF Types, Forking
  <2>2. Holding'
    BY DEF Types, Holding
  <2>3. Family'
    BY DEF Types, Family
  <2> QED
    BY <2>1, <2>2, <2>3, Zenon
<1>4. NoLostWakeup'
  BY DEF Types, NoLostWakeup, Zombies, Children
<1> QED
  BY <1>1, <1>2, <1>3, <1>4

\* A process that has left its processor.
LEMMA SchedInv ==
  ASSUME ProcInv, NEW c \in CPUs, NEW p \in Procs, sched(c, p)
  PROVE  ProcInv'
<1> USE Slots DEF ProcInv, sched
<1>1. Types'
  BY DEF Types
<1>2. Apart' /\ OnCpu' /\ HasCpu'
  <2>1. Apart'
    BY DEF Types, Apart
  <2>2. OnCpu'
    BY DEF Types, OnCpu
  <2>3. HasCpu'
    BY DEF Types, HasCpu
  <2> QED
    BY <2>1, <2>2, <2>3, Zenon
<1>3. Forking' /\ Holding' /\ Family'
  <2>1. Forking'
    BY DEF Types, Forking
  <2>2. Holding'
    BY DEF Types, Holding
  <2>3. Family'
    BY DEF Types, Family
  <2> QED
    BY <2>1, <2>2, <2>3, Zenon
<1>4. NoLostWakeup'
  BY DEF Types, NoLostWakeup, Zombies, Children
<1> QED
  BY <1>1, <1>2, <1>3, <1>4

\* A clock tick, never in a section under lk.
LEMMA YieldInv ==
  ASSUME ProcInv, NEW c \in CPUs, NEW p \in Procs, yield(c, p)
  PROVE  ProcInv'
<1>0. state[p] = "RUNNING"
  BY Executing DEF yield
<1> USE Slots, <1>0 DEF ProcInv, yield, Executes, CanLock
<1>1. Types'
  BY DEF Types, States, Places
<1>2. Apart' /\ OnCpu' /\ HasCpu'
  <2>1. Apart'
    BY DEF Types, Apart
  <2>2. OnCpu'
    BY DEF Types, Apart, OnCpu
  <2>3. HasCpu'
    BY DEF Types, HasCpu
  <2> QED
    BY <2>1, <2>2, <2>3, Zenon
<1>3. Forking' /\ Holding' /\ Family'
  <2>1. Forking'
    BY DEF Types, Forking
  <2>2. Holding'
    BY DEF Types, Holding
  <2>3. Family'
    BY DEF Types, Family
  <2> QED
    BY <2>1, <2>2, <2>3, Zenon
<1>4. NoLostWakeup'
  BY DEF Types, NoLostWakeup, Zombies, Children
<1> QED
  BY <1>1, <1>2, <1>3, <1>4

\* allocproc takes a slot that no fork has.
LEMMA AllocprocInv ==
  ASSUME ProcInv, NEW c \in CPUs, NEW p \in Procs, NEW np \in Procs, allocproc(c, p, np)
  PROVE  ProcInv'
<1>0. state[p] = "RUNNING"
  BY Executing DEF allocproc, InUser
<1> USE Slots, <1>0 DEF ProcInv, allocproc, InUser, Executes, CanLock
<1>1. Types'
  BY DEF Types, States, Places
<1>2. Apart' /\ OnCpu' /\ HasCpu'
  <2>1. Apart'
    BY DEF Types, Apart
  <2>2. OnCpu'
    BY DEF Types, OnCpu
  <2>3. HasCpu'
    BY DEF Types, HasCpu
  <2> QED
    BY <2>1, <2>2, <2>3, Zenon
<1>3. Forking' /\ Holding' /\ Family'
  <2>1. Forking'
    BY DEF Types, Forking
  <2>2. Holding'
    BY DEF Types, Holding
  <2>3. Family'
    BY DEF Types, Family
  <2> QED
    BY <2>1, <2>2, <2>3, Zenon
<1>4. NoLostWakeup'
  BY DEF Types, NoLostWakeup, Zombies, Children
<1> QED
  BY <1>1, <1>2, <1>3, <1>4

\* The new process is nobody's but its parent's, on both ways out of fork.
LEMMA ForkInv ==
  ASSUME ProcInv, NEW c \in CPUs, NEW p \in Procs, fork(c, p)
  PROVE  ProcInv'
<1> USE Slots
<1>1. state[p] = "RUNNING" /\ pc[p] = "fork"
  BY Executing DEF fork
<1>2. PICK np \in Procs : np = child[p] /\ state[np] = "EMBRYO"
  BY <1>1, Zenon DEF ProcInv, Forking
<1>3. np # p /\ np # initproc
  BY <1>1, <1>2 DEF ProcInv, Family
<1>4. /\ state'[np] \in {"RUNNABLE", "UNUSED"} /\ parent'[np] \in {p, parent[np]}
      /\ \A q \in Procs : q # np => state'[q] = state[q] /\ parent'[q] = parent[q]
  BY <1>2, <1>3, Zenon DEF ProcInv, Types, fork
<1>5. /\ pc'[p] = "user" /\ pc'[np] = "user"
      /\ \A q \in Procs : q \notin {p, np} => pc'[q] = pc[q] /\ child'[q] = child[q]
      /\ UNCHANGED <<chan, running, plock, lk, ready, pid, killed>>
  BY <1>2, <1>3, Zenon DEF ProcInv, Types, fork
<1>6. Types'
  <2>1. /\ state' \in [Procs -> States] /\ parent' \in [Procs -> Procs \cup {None}]
    BY <1>2 DEF ProcInv, Types, fork, States
  <2>2. pc' \in [Procs -> Places] /\ child' \in [Procs -> Procs \cup {None}]
    BY <1>2 DEF ProcInv, Types, fork, Places
  <2> QED
    BY <2>1, <2>2, <1>5, Zenon DEF ProcInv, Types
<1>7. Apart' /\ OnCpu' /\ HasCpu'
  <2>1. \A d \in CPUs : running[d] # np
    BY <1>2 DEF ProcInv, OnCpu
  <2>2. Apart'
    BY <1>5 DEF ProcInv, Apart
  <2>3. OnCpu'
    <3>1. ASSUME NEW d \in CPUs, running[d] # None
          PROVE  running[d] \in Procs /\ state'[running[d]] = state[running[d]]
      BY <1>4, <2>1, <3>1, Zenon DEF ProcInv, Types
    <3> QED
      BY <1>5, <3>1, Zenon DEF ProcInv, OnCpu
  <2>4. HasCpu'
    BY <1>4, <1>5 DEF ProcInv, HasCpu
  <2> QED
    BY <2>2, <2>3, <2>4
<1>8. Forking'
  <2>1. ASSUME NEW q \in Procs, pc'[q] = "fork"
        PROVE  /\ q \notin {p, np} /\ pc[q] = "fork" /\ child'[q] = child[q]
               /\ child[q] \in Procs /\ child[q] # np /\ state[child[q]] = "EMBRYO"
    BY <1>1, <1>2, <1>5, <2>1 DEF ProcInv, Forking
  <2>2. ASSUME NEW q \in Procs, pc'[q] = "fork"
        PROVE  child'[q] \in Procs /\ state'[child'[q]] = "EMBRYO"
    <3>1. /\ child'[q] = child[q] /\ child[q] \in Procs
          /\ child[q] # np /\ state[child[q]] = "EMBRYO"
      BY <2>1, <2>2
    <3>2. state'[child[q]] = "EMBRYO"
      BY <1>4, <3>1, Zenon
    <3> QED
      BY <3>1, <3>2
  <2>3. ASSUME NEW q \in Procs, pc'[q] = "fork", NEW r \in Procs, pc'[r] = "fork",
               child'[r] = child'[q]
        PROVE  r = q
    BY <2>1, <2>3 DEF ProcInv, Forking
  <2> QED
    BY <2>2, <2>3 DEF Forking
<1>9. Holding' /\ Family'
  BY <1>2, <1>3, <1>4, <1>5 DEF ProcInv, Holding, Family
<1>10. NoLostWakeup'
  <2>1. \A q \in Procs : pc[q] = "wakeup" <=> pc'[q] = "wakeup"
    BY <1>1, <1>2, <1>5 DEF ProcInv, Holding
  <2>2. \A q \in Procs : state'[q] = "SLEEPING" => state[q] = "SLEEPING"
    BY <1>4
  <2>3. \A q \in Procs : state'[q] = "ZOMBIE" => state[q] = "ZOMBIE" /\ parent'[q] = parent[q]
    BY <1>4
  <2>4. ASSUME NEW q \in Procs, state'[q] = "SLEEPING", chan[q] = q PROVE Zombies(q)' = {}
    <3>1. Zombies(q) = {}
      BY <2>2, <2>4 DEF ProcInv, NoLostWakeup
    <3> QED
      BY <2>3, <3>1, Zenon DEF Zombies, Children
  <2> QED
    BY <1>5, <2>1, <2>2, <2>4 DEF ProcInv, NoLostWakeup
<1> QED
  BY <1>6, <1>7, <1>8, <1>9, <1>10 DEF ProcInv

\* exit wakes the parent, and init if it leaves it a zombie, before it is one.
LEMMA ExitInv ==
  ASSUME ProcInv, NEW c \in CPUs, NEW p \in Procs, exit(c, p)
  PROVE  ProcInv'
<1>1. Types /\ Apart /\ OnCpu /\ HasCpu /\ Forking /\ Holding /\ Family /\ NoLostWakeup
  BY Zenon DEF ProcInv
<1>2. /\ state[p] = "RUNNING" /\ running[c] = p /\ pc[p] = "user" /\ plock = None /\ plock' = c
      /\ p # initproc /\ pid' = pid /\ killed' = killed /\ chan' = chan /\ running' = running
      /\ pc' = pc /\ child' = child /\ lk' = lk /\ ready' = ready
  BY Executing, Zenon DEF exit, InUser, Executes, CanLock, LockAfterExit
<1>3. \A q \in Procs : parent'[q] = IF parent[q] = p THEN initproc ELSE parent[q]
  BY Zenon DEF exit, Orphaned
<1>4. ASSUME NEW q \in Procs, q # p
      PROVE  \/ state'[q] = state[q] /\ (state[q] = "SLEEPING" =>
                  chan[q] # parent[p] /\ (Zombies(p) # {} => chan[q] # initproc))
             \/ state[q] = "SLEEPING" /\ state'[q] = "RUNNABLE"
  <2>1. state'[q] = ExitWakes(p, state)[q]
    BY <1>4, Zenon DEF exit, ExitWakes, wakeup1
  <2>2. CASE Zombies(p) = {}
    BY <2>1, <2>2 DEF ExitWakes, wakeup1
  <2>3. CASE Zombies(p) # {}
    BY <2>1, <2>3 DEF ExitWakes, wakeup1
  <2> QED
    BY <2>2, <2>3, Zenon
<1>5. state'[p] = "ZOMBIE"
  <2>1. state' = [ExitWakes(p, state) EXCEPT ![p] = "ZOMBIE"]
    BY Zenon DEF exit
  <2>2. p \in DOMAIN ExitWakes(p, state)
    BY Zenon DEF ExitWakes, wakeup1
  <2> QED
    BY <2>1, <2>2, Zenon
<1>6. Types'
  <2>1. parent' \in [Procs -> Procs \cup {None}]
    BY <1>1, Slots DEF Types, exit, Orphaned
  <2>2. \A q \in Procs : state'[q] \in States
    BY <1>1, <1>4, <1>5 DEF Types, States
  <2>3. DOMAIN state' = Procs
    BY Zenon DEF exit, ExitWakes, wakeup1
  <2>4. state' = [q \in Procs |-> state'[q]]
    BY <2>3, Zenon DEF exit
  <2>5. state' \in [Procs -> States]
    BY <2>2, <2>4, Zenon
  <2> QED
    BY <1>1, <1>2, <2>1, <2>5, Zenon DEF Types
<1>7. \A q \in Procs : q # p /\ state[q] = "RUNNING" => state'[q] = "RUNNING"
  BY <1>4
<1>8. Apart'
  BY <1>1, <1>2, Zenon DEF Apart
<1>9. OnCpu'
  <2>1. ASSUME NEW d \in CPUs, running[d] # None
        PROVE  /\ plock' # d => state'[running[d]] = "RUNNING"
               /\ state'[running[d]] \notin {"UNUSED", "EMBRYO"}
    <3>1. running[d] \in Procs /\ state[running[d]] = "RUNNING"
      BY <1>1, <1>2, <2>1, Slots DEF Types, OnCpu
    <3>2. CASE running[d] = p
      <4>1. d = c
        BY <1>1, <1>2, <2>1, <3>2, Zenon DEF Apart
      <4> QED
        BY <1>2, <1>5, <3>2, <4>1
    <3>3. CASE running[d] # p
      BY <1>7, <3>1, <3>3
    <3> QED
      BY <3>2, <3>3, Zenon
  <2> QED
    BY <1>2, <2>1, Zenon DEF OnCpu
<1>10. HasCpu'
  <2>1. \A q \in Procs : state'[q] = "RUNNING" => state[q] = "RUNNING"
    BY <1>4, <1>5
  <2> QED
    BY <1>1, <1>2, <2>1, Zenon DEF HasCpu
<1>11. Forking'
  <2>1. \A q \in Procs : state[q] = "EMBRYO" => state'[q] = "EMBRYO"
    BY <1>2, <1>4
  <2> QED
    BY <1>1, <1>2, <2>1, Zenon DEF Forking
<1>12. Holding'
  <2>1. \A q \in Procs : pc[q] \in {"test", "sleep", "signal", "wakeup"} => q # p
    BY <1>2
  <2>2. ASSUME NEW q \in Procs, pc[q] \in {"test", "sleep", "signal", "wakeup"}
        PROVE  lk = q /\ state'[q] = "RUNNING" /\ (pc[q] = "sleep" => ready = FALSE)
    BY <1>1, <1>7, <2>1, <2>2, Zenon DEF Holding
  <2> QED
    BY <1>2, <2>2, Zenon DEF Holding
<1>13. Family'
  <2>1. state'[initproc] \notin {"UNUSED", "EMBRYO", "ZOMBIE"}
    BY <1>1, <1>2, <1>4, Slots DEF Family
  <2>2. parent'[initproc] = None
    BY <1>1, <1>3, Slots, Zenon DEF Family
  <2>3. \A q \in Procs : parent'[q] # q
    <3>1. parent[initproc] # p
      BY <1>1, Slots, Zenon DEF Family
    <3> QED
      BY <1>1, <1>3, <3>1, Zenon DEF Family
  <2> QED
    BY <2>1, <2>2, <2>3, Zenon DEF Family
<1>14. NoLostWakeup'
  <2>1. ASSUME NEW q \in Procs, state'[q] = "SLEEPING"
        PROVE  /\ q # p /\ state[q] = "SLEEPING"
               /\ chan[q] = q => parent[p] # q /\ (Zombies(p) # {} => q # initproc)
    BY <1>4, <1>5, <2>1
  <2>2. ASSUME NEW q \in Procs, state'[q] = "SLEEPING", chan[q] = q,
               NEW r \in Procs, parent'[r] = q, state'[r] = "ZOMBIE"
        PROVE  FALSE
    <3>1. q # p /\ state[q] = "SLEEPING" /\ parent[p] # q /\ (Zombies(p) # {} => q # initproc)
      BY <2>1, <2>2, Zenon
    <3>2. parent[p] # p
      BY <1>1, Zenon DEF Family
    <3>3. r # p
      BY <1>3, <2>2, <3>1, <3>2, Zenon
    <3>4. state[r] = "ZOMBIE"
      BY <1>4, <2>2, <3>3
    <3>5. parent[r] # p
      <4>1. parent[r] = p => Zombies(p) # {} /\ q = initproc
        BY <1>3, <2>2, <3>4, Zenon DEF Zombies, Children
      <4> QED
        BY <3>1, <4>1, Zenon
    <3>6. parent[r] = q
      BY <1>3, <2>2, <3>5, Zenon
    <3>7. Zombies(q) = {}
      BY <1>1, <2>2, <3>1, Zenon DEF NoLostWakeup
    <3> QED
      BY <3>4, <3>6, <3>7, Zenon DEF Zombies, Children
  <2>3. \A q \in Procs : state'[q] = "SLEEPING" /\ chan[q] = q => Zombies(q)' = {}
    BY <2>2, Zenon DEF Zombies, Children
  <2>4. ready /\ (\A q \in Procs : pc[q] # "wakeup") =>
          \A q \in Procs : ~(state'[q] = "SLEEPING" /\ chan[q] = Event)
    BY <1>1, <2>1, Zenon DEF NoLostWakeup
  <2> QED
    BY <1>2, <2>3, <2>4, Zenon DEF NoLostWakeup
<1> QED
  BY <1>6, <1>8, <1>9, <1>10, <1>11, <1>12, <1>13, <1>14, Zenon DEF ProcInv

\* wait frees a zombie that no processor has, or sleeps with no zombie about.
LEMMA WaitInv ==
  ASSUME ProcInv, NEW c \in CPUs, NEW p \in Procs, wait(c, p)
  PROVE  ProcInv'
<1> USE Slots DEF ProcInv
<1>1. /\ state[p] = "RUNNING" /\ running[c] = p /\ plock \in {None, c}
      /\ pc[p] \in {"user", "wait"}
      /\ UNCHANGED <<running, child, lk, ready>>
  BY Executing, Zenon DEF wait, InUser, Executes, CanLock
<1>2. CASE \E q \in Zombies(p) :
             /\ state' = [state EXCEPT ![q] = "UNUSED"]
             /\ parent' = [parent EXCEPT ![q] = None]
             /\ pid' = [pid EXCEPT ![q] = FALSE]
             /\ killed' = [killed EXCEPT ![q] = FALSE]
             /\ chan' = [chan EXCEPT ![p] = None]
             /\ pc' = [pc EXCEPT ![p] = "user"]
             /\ plock' = None
  <2>1. PICK q \in Procs :
          /\ state[q] = "ZOMBIE"
          /\ state' = [state EXCEPT ![q] = "UNUSED"]
          /\ parent' = [parent EXCEPT ![q] = None]
          /\ pid' = [pid EXCEPT ![q] = FALSE]
          /\ killed' = [killed EXCEPT ![q] = FALSE]
          /\ chan' = [chan EXCEPT ![p] = None]
          /\ pc' = [pc EXCEPT ![p] = "user"]
          /\ plock' = None
    BY <1>2, Zenon DEF Zombies, Children
  <2>2. \A d \in CPUs : running[d] # q
    BY <1>1, <2>1 DEF OnCpu
  <2>3. Types'
    BY <1>1, <2>1, Zenon DEF Types, States, Places
  <2>4. Apart' /\ OnCpu' /\ HasCpu'
    <3>1. Apart'
      BY <1>1, <2>1, <2>2 DEF Types, Apart
    <3>2. OnCpu'
      BY <1>1, <2>1, <2>2 DEF Types, OnCpu
    <3>3. HasCpu'
      BY <1>1, <2>1, <2>2 DEF Types, HasCpu
    <3> QED
      BY <3>1, <3>2, <3>3, Zenon
  <2>5. Forking' /\ Holding' /\ Family'
    <3>1. Forking'
      BY <1>1, <2>1 DEF Types, Forking
    <3>2. Holding'
      BY <1>1, <2>1 DEF Types, Holding
    <3>3. Family'
      BY <1>1, <2>1 DEF Types, Family
    <3> QED
      BY <3>1, <3>2, <3>3, Zenon
  <2>6. NoLostWakeup'
    BY <1>1, <2>1 DEF Types, NoLostWakeup, Zombies, Children
  <2> QED
    BY <2>3, <2>4, <2>5, <2>6
<1>3. CASE /\ pc' = [pc EXCEPT ![p] = "user"]
           /\ chan' = [chan EXCEPT ![p] = None]
           /\ plock' = None
           /\ UNCHANGED <<state, parent, pid, killed>>
  <2>1. Types'
    BY <1>1, <1>3 DEF Types, Places
  <2>2. Apart' /\ OnCpu' /\ HasCpu'
    <3>1. Apart'
      BY <1>1, <1>3 DEF Types, Apart
    <3>2. OnCpu'
      BY <1>1, <1>3 DEF Types, OnCpu
    <3>3. HasCpu'
      BY <1>1, <1>3 DEF Types, HasCpu
    <3> QED
      BY <3>1, <3>2, <3>3, Zenon
  <2>3. Forking' /\ Holding' /\ Family'
    <3>1. Forking'
      BY <1>1, <1>3 DEF Types, Forking
    <3>2. Holding'
      BY <1>1, <1>3 DEF Types, Holding
    <3>3. Family'
      BY <1>1, <1>3 DEF Types, Family
    <3> QED
      BY <3>1, <3>2, <3>3, Zenon
  <2>4. NoLostWakeup'
    BY <1>1, <1>3 DEF Types, NoLostWakeup, Zombies, Children
  <2> QED
    BY <2>1, <2>2, <2>3, <2>4
<1>4. CASE /\ Zombies(p) = {}
           /\ pc' = [pc EXCEPT ![p] = "wait"]
           /\ state' = [state EXCEPT ![p] = "SLEEPING"]
           /\ chan' = [chan EXCEPT ![p] = p]
           /\ plock' = c
           /\ UNCHANGED <<parent, pid, killed>>
  <2>1. Types'
    BY <1>1, <1>4 DEF Types, States, Places
  <2>2. Apart' /\ OnCpu' /\ HasCpu'
    <3>1. Apart'
      BY <1>1, <1>4 DEF Types, Apart
    <3>2. OnCpu'
      BY <1>1, <1>4 DEF Types, Apart, OnCpu
    <3>3. HasCpu'
      BY <1>1, <1>4 DEF Types, HasCpu
    <3> QED
      BY <3>1, <3>2, <3>3, Zenon
  <2>3. Forking' /\ Holding' /\ Family'
    <3>1. Forking'
      BY <1>1, <1>4 DEF Types, Forking
    <3>2. Holding'
      BY <1>1, <1>4 DEF Types, Holding
    <3>3. Family'
      BY <1>1, <1>4 DEF Types, Family
    <3> QED
      BY <3>1, <3>2, <3>3, Zenon
  <2>4. NoLostWakeup'
    BY <1>1, <1>4 DEF Types, NoLostWakeup, Zombies, Children
  <2> QED
    BY <2>1, <2>2, <2>3, <2>4
<1> QED
  BY <1>2, <1>3, <1>4, Zenon DEF wait

\* kill wakes a sleeper.
LEMMA KillInv ==
  ASSUME ProcInv, NEW c \in CPUs, NEW p \in Procs, NEW q \in Procs, kill(c, p, q)
  PROVE  ProcInv'
<1>0. state[p] = "RUNNING"
  BY Executing DEF kill, InUser
<1> USE Slots, <1>0 DEF ProcInv, kill, InUser, Executes, CanLock, KillWakes
<1>1. Types'
  BY DEF Types, States, Places
<1>2. Apart' /\ OnCpu' /\ HasCpu'
  <2>1. Apart'
    BY DEF Types, Apart
  <2>2. OnCpu'
    BY DEF Types, OnCpu
  <2>3. HasCpu'
    BY DEF Types, HasCpu
  <2> QED
    BY <2>1, <2>2, <2>3, Zenon
<1>3. Forking' /\ Holding' /\ Family'
  <2>1. Forking'
    BY DEF Types, Forking
  <2>2. Holding'
    BY DEF Types, Holding
  <2>3. Family'
    BY DEF Types, Family
  <2> QED
    BY <2>1, <2>2, <2>3, Zenon
<1>4. NoLostWakeup'
  BY DEF Types, NoLostWakeup, Zombies, Children
<1> QED
  BY <1>1, <1>2, <1>3, <1>4

\* lk is taken when nobody has it.
LEMMA AcquireInv ==
  ASSUME ProcInv, NEW c \in CPUs, NEW p \in Procs, NEW next \in {"test", "signal"}, acquire(c, p, next)
  PROVE  ProcInv'
<1>0. state[p] = "RUNNING"
  BY Executing DEF acquire
<1> USE Slots, <1>0 DEF ProcInv, acquire, Executes
<1>1. Types'
  BY DEF Types, States, Places
<1>2. Apart' /\ OnCpu' /\ HasCpu'
  <2>1. Apart'
    BY DEF Types, Apart
  <2>2. OnCpu'
    BY DEF Types, OnCpu
  <2>3. HasCpu'
    BY DEF Types, HasCpu
  <2> QED
    BY <2>1, <2>2, <2>3, Zenon
<1>3. Forking' /\ Holding' /\ Family'
  <2>1. Forking'
    BY DEF Types, Forking
  <2>2. Holding'
    BY DEF Types, Holding
  <2>3. Family'
    BY DEF Types, Family
  <2> QED
    BY <2>1, <2>2, <2>3, Zenon
<1>4. NoLostWakeup'
  BY Zenon DEF Types, NoLostWakeup, Zombies, Children
<1> QED
  BY <1>1, <1>2, <1>3, <1>4

\* The test of the condition.
LEMMA TestInv ==
  ASSUME ProcInv, NEW c \in CPUs, NEW p \in Procs, Test(c, p)
  PROVE  ProcInv'
<1>0. state[p] = "RUNNING"
  BY Executing DEF Test
<1> USE Slots, <1>0 DEF ProcInv, Test, Executes, HeldIntoSleep
<1>1. Types'
  <2>1. pc' \in [Procs -> Places] /\ lk' \in Procs \cup {None}
    BY DEF Types, Places
  <2>2. ready' \in BOOLEAN
    BY Zenon DEF Types
  <2>3. Types
    BY Zenon
  <2> QED
    BY <2>1, <2>2, <2>3, Zenon DEF Types
<1>2. Apart' /\ OnCpu' /\ HasCpu'
  <2>1. Apart'
    BY DEF Types, Apart
  <2>2. OnCpu'
    BY DEF Types, OnCpu
  <2>3. HasCpu'
    BY DEF Types, HasCpu
  <2> QED
    BY <2>1, <2>2, <2>3, Zenon
<1>3. Forking' /\ Holding' /\ Family'
  <2>1. Forking'
    BY DEF Types, Forking
  <2>2. Holding'
    BY DEF Types, Holding
  <2>3. Family'
    BY DEF Types, Family
  <2> QED
    BY <2>1, <2>2, <2>3, Zenon
<1>4. NoLostWakeup'
  BY DEF Types, NoLostWakeup, Zombies, Children
<1> QED
  BY <1>1, <1>2, <1>3, <1>4

\* sleep: the condition is still false.
LEMMA SleepInv ==
  ASSUME ProcInv, NEW c \in CPUs, NEW p \in Procs, sleep(c, p)
  PROVE  ProcInv'
<1>0. state[p] = "RUNNING"
  BY Executing DEF sleep
<1> USE Slots, <1>0 DEF ProcInv, sleep, Executes, CanLock
<1>1. Types'
  BY DEF Types, States, Places
<1>2. Apart' /\ OnCpu' /\ HasCpu'
  <2>1. Apart'
    BY DEF Types, Apart
  <2>2. OnCpu'
    BY DEF Types, Apart, OnCpu
  <2>3. HasCpu'
    BY DEF Types, HasCpu
  <2> QED
    BY <2>1, <2>2, <2>3, Zenon
<1>3. Forking' /\ Holding' /\ Family'
  <2>1. Forking'
    BY DEF Types, Forking
  <2>2. Holding'
    BY DEF Types, Holding
  <2>3. Family'
    BY DEF Types, Family
  <2> QED
    BY <2>1, <2>2, <2>3, Zenon
<1>4. NoLostWakeup'
  BY Zenon DEF Types, Holding, NoLostWakeup, Zombies, Children
<1> QED
  BY <1>1, <1>2, <1>3, <1>4

\* The condition becomes true, with the wakeup still to come.
LEMMA SignalInv ==
  ASSUME ProcInv, NEW c \in CPUs, NEW p \in Procs, Signal(c, p)
  PROVE  ProcInv'
<1>0. state[p] = "RUNNING"
  BY Executing DEF Signal
<1> USE Slots, <1>0 DEF ProcInv, Signal, Executes
<1>1. Types'
  BY DEF Types, States, Places
<1>2. Apart' /\ OnCpu' /\ HasCpu'
  <2>1. Apart'
    BY DEF Types, Apart
  <2>2. OnCpu'
    BY DEF Types, OnCpu
  <2>3. HasCpu'
    BY DEF Types, HasCpu
  <2> QED
    BY <2>1, <2>2, <2>3, Zenon
<1>3. Forking' /\ Holding' /\ Family'
  <2>1. Forking'
    BY DEF Types, Forking
  <2>2. Holding'
    BY DEF Types, Holding
  <2>3. Family'
    BY DEF Types, Family
  <2> QED
    BY <2>1, <2>2, <2>3, Zenon
<1>4. NoLostWakeup'
  BY DEF Types, NoLostWakeup, Zombies, Children
<1> QED
  BY <1>1, <1>2, <1>3, <1>4

\* wakeup leaves nobody asleep for the condition.
LEMMA WakeupInv ==
  ASSUME ProcInv, NEW c \in CPUs, NEW p \in Procs, wakeup(c, p)
  PROVE  ProcInv'
<1>0. state[p] = "RUNNING"
  BY Executing DEF wakeup
<1> USE Slots, <1>0 DEF ProcInv, wakeup, Executes, CanLock, wakeup1
<1>1. Types'
  BY DEF Types, States, Places
<1>2. Apart' /\ OnCpu' /\ HasCpu'
  <2>1. Apart'
    BY DEF Types, Apart
  <2>2. OnCpu'
    BY DEF Types, OnCpu
  <2>3. HasCpu'
    BY DEF Types, HasCpu
  <2> QED
    BY <2>1, <2>2, <2>3, Zenon
<1>3. Forking' /\ Holding' /\ Family'
  <2>1. Forking'
    BY DEF Types, Forking
  <2>2. Holding'
    BY DEF Types, Holding
  <2>3. Family'
    BY DEF Types, Family
  <2> QED
    BY <2>1, <2>2, <2>3, Zenon
<1>4. NoLostWakeup'
  BY Zenon DEF Types, NoLostWakeup, Zombies, Children
<1> QED
  BY <1>1, <1>2, <1>3, <1>4

-----------------------------------------------------------------------------
\* Every step keeps the invariant.
LEMMA NextInv == ProcInv /\ [Next]_vars => ProcInv'
<1> SUFFICES ASSUME ProcInv, [Next]_vars PROVE ProcInv'
  OBVIOUS
<1>1. CASE UNCHANGED vars
  <2>1. Types /\ Apart /\ OnCpu /\ HasCpu /\ Forking /\ Holding /\ Family /\ NoLostWakeup
    BY Zenon DEF ProcInv
  <2>2. /\ state' = state /\ parent' = parent /\ pid' = pid /\ killed' = killed /\ chan' = chan
        /\ running' = running /\ pc' = pc /\ child' = child /\ plock' = plock /\ lk' = lk
        /\ ready' = ready
    BY <1>1, Zenon DEF vars
  <2>3. Types'
    BY <2>1, <2>2, Zenon DEF Types
  <2>4. Apart' /\ OnCpu' /\ HasCpu'
    BY <2>1, <2>2, Zenon DEF Apart, OnCpu, HasCpu
  <2>5. Forking' /\ Holding' /\ Family'
    BY <2>1, <2>2, Zenon DEF Forking, Holding, Family
  <2>6. NoLostWakeup'
    BY <2>1, <2>2, Zenon DEF NoLostWakeup, Zombies, Children
  <2> QED
    BY <2>3, <2>4, <2>5, <2>6, Zenon DEF ProcInv
<1>2. ASSUME NEW c \in CPUs, NEW p \in Procs, KernelStep(c, p) PROVE ProcInv'
  BY <1>2, ForkInv, TestInv, SleepInv, SignalInv, WakeupInv, AcquireInv, WaitInv,
     ExitInv, Zenon DEF KernelStep
<1>3. ASSUME NEW c \in CPUs, NEW p \in Procs,
             Resume(c, p) \/ sched(c, p) \/ scheduler(c, p) \/ yield(c, p)
      PROVE  ProcInv'
  BY <1>3, ResumeInv, SchedInv, SchedulerInv, YieldInv
<1>4. ASSUME NEW c \in CPUs, NEW p \in Procs,
             \/ exit(c, p) \/ wait(c, p)
             \/ \E next \in {"test", "signal"} : acquire(c, p, next)
             \/ \E q \in Procs : allocproc(c, p, q) \/ kill(c, p, q)
      PROVE  ProcInv'
  BY <1>4, ExitInv, WaitInv, AcquireInv, AllocprocInv, KillInv
<1> QED
  BY <1>1, <1>2, <1>3, <1>4 DEF Next

\* The process table keeps its invariant, whatever the processors do.
THEOREM ProcInvariant == Spec => []ProcInv
<1> QED
  BY InitInv, NextInv, PTL DEF Spec

\* A process runs on one processor at most, its state says so whenever another
\* processor can look, and no slot is freed under a process that is still on its
\* stack (proc.c 330, 436).
THEOREM AlwaysOneProcessor == Spec => []OneProcessor
<1>1. ProcInv => OneProcessor
  <2> SUFFICES ASSUME ProcInv PROVE OneProcessor
    OBVIOUS
  <2>1. ASSUME NEW p \in Procs PROVE Cardinality({c \in CPUs : running[c] = p}) <= 1
    <3> DEFINE on == {c \in CPUs : running[c] = p}
    <3>1. CASE on = {}
      BY <3>1, FS_EmptySet
    <3>2. CASE on # {}
      <4>1. PICK c \in CPUs : c \in on
        BY <3>2
      <4>2. on = {c}
        BY <4>1, Slots DEF ProcInv, Apart
      <4> QED
        BY <4>2, FS_Singleton
    <3> QED
      BY <3>1, <3>2
  <2> QED
    BY <2>1 DEF ProcInv, OneProcessor, OnCpu, HasCpu
<1> QED
  BY <1>1, ProcInvariant, PTL

\* No wakeup is missed, neither of a condition under a spin lock nor of a child
\* that exits, nor of one that init inherits (proc.c 594).
THEOREM WakeupsNeverLost == Spec => []NoLostWakeup
<1>1. ProcInv => NoLostWakeup
  BY DEF ProcInv
<1> QED
  BY <1>1, ProcInvariant, PTL
=============================================================================
