------------------------- MODULE InterruptsProofs -------------------------
(***************************************************************************)
(* For any number of processors and processes: no processor deadlocks with *)
(* itself, whatever interrupts it and wherever its processes resume.  That *)
(* nobody oversleeps, and that the console is a terminal, is in            *)
(* ConsoleProofs.                                                          *)
(***************************************************************************)
EXTENDS Interrupts, TLAPS

\* Time limits that do not depend on the load of the machine.
USE SMTT(20)

-----------------------------------------------------------------------------
(* The inductive invariant.                                                *)

Waiting == {"acquire", "spin"}

\* The code a process, a scheduler and a handler run, and what they acquire
\* locks for.
ProcCode == {"forkret", "user", "loop", "start", "sleep", "woken", "put", "kill", "return",
             "exit", "gone"}

ProcThen == {"loop", "start", "sleep", "put", "kill", "exit"}

SchedCode == {"sti", "pick"}

SchedThen == {"pick"}

TrapCode == {"tick", "tick_wakeup", "clock", "iret", "key", "key_wakeup", "listed"}

TrapThen == {"tick", "tick_wakeup", "key", "key_wakeup", "listed"}

\* The end of trap() for a process: it exits or yields.
PreemptCode == {"yield", "yielded", "exit"}

PreemptThen == {"yield", "exit"}

Pcs == Waiting \cup ProcCode \cup SchedCode \cup TrapCode \cup PreemptCode

Thens == ProcThen \cup SchedThen \cup TrapThen \cup PreemptThen

FrameSet ==
  [pc : Pcs, lk : Locks \cup {"none"}, then : Thens \cup {"none"},
   on : {"cons", "tickslock", "none"}, dump : BOOLEAN]

CpuSet ==
  [if : BOOLEAN, ncli : Int, intena : BOOLEAN, proc : Procs \cup {None}, p : Int]

\* The lock a frame that waits has asked for.
Wanted(f) ==
  IF f.then \in {"loop", "start"} THEN f.on
  ELSE IF f.then = "tick" THEN "tickslock"
  ELSE IF f.then \in {"put", "key", "listed"} THEN "cons"
  ELSE "ptable"

Runs(f, code, then) ==
  IF f.pc \in Waiting THEN f.then \in then /\ f.lk = Wanted(f)
  ELSE f.pc \in code /\ f.then = "none"

\* The frame of a thread's own code, and of a handler on top of it.
Base(t, f) ==
  /\ IF t \in Procs THEN Runs(f, ProcCode, ProcThen) ELSE Runs(f, SchedCode, SchedThen)
  /\ f.pc \in {"loop", "start", "sleep", "woken"} \/ f.then \in {"loop", "start", "sleep"} =>
       f.on \in {"cons", "tickslock"}

Handler(t, f) ==
  IF t \in Procs THEN Runs(f, TrapCode \cup PreemptCode, TrapThen \cup PreemptThen)
  ELSE Runs(f, TrapCode, TrapThen)

\* The stack of a thread: code that is interrupted neither has a lock nor waits
\* for one.
Stack(t, frames) ==
  /\ frames \in Seq(FrameSet)
  /\ \/ Len(frames) = 1 /\ Base(t, frames[1])
     \/ /\ Len(frames) = 2 /\ Handler(t, frames[1]) /\ Base(t, frames[2])
        /\ HeldBy(frames[2]) = {} /\ frames[2].pc # "spin"

Types ==
  /\ setting \in Settings
  /\ cpu \in [CPUs -> CpuSet]
  /\ lock \in [Locks -> CPUs \cup {None}]
  /\ DOMAIN at = Threads
  /\ state \in [Procs -> {"UNUSED", "RUNNABLE", "RUNNING", "SLEEPING", "ZOMBIE"}]
  /\ chan \in [Procs -> {"cons", "tickslock", None}]
  /\ killed \in [Procs -> BOOLEAN] /\ intena \in [Procs -> BOOLEAN]
  /\ n \in [Procs -> Nat] /\ done \in [Procs -> Nat]

Stacks == \A t \in Threads : Stack(t, at[t])

\* A process that can be picked has stopped under ptable.lock in forkret, in
\* sleep or in yield; only in yield was it in a handler.
Parked(p) ==
  /\ at[p][1].pc \in {"forkret", "woken", "yielded"}
  /\ state[p] = "SLEEPING" => at[p][1].pc = "woken"
  /\ intena[p] <=> Len(at[p]) = 1

Placed ==
  /\ \A c \in CPUs : cpu[c].proc # None =>
       /\ state[cpu[c].proc] = "RUNNING"
       /\ Len(at[Sched(c)]) = 1 /\ at[Sched(c)][1].pc = "pick"
  /\ \A c, d \in CPUs : cpu[c].proc # None /\ cpu[c].proc = cpu[d].proc => c = d
  /\ \A p \in Procs : state[p] \in {"RUNNABLE", "SLEEPING"} => Parked(p)

\* A processor with these frames, flags and locks.
Balanced(frames, cp, held) ==
  /\ held = HeldBy(frames[1])
  /\ cp.ncli = Cardinality(held) + IF frames[1].pc = "spin" THEN 1 ELSE 0
  /\ cp.ncli > 0 => ~cp.if
  /\ Len(frames) = 2 => ~cp.if /\ (cp.ncli > 0 => ~cp.intena)
  /\ cp.proc # None /\ Len(frames) = 1 => IF cp.ncli = 0 THEN cp.if ELSE cp.intena

Held(c) == {lk \in Locks : holding(lock, lk, c)}

CpusBalanced == \A c \in setting.cpus : Balanced(at[Thread(c)], cpu[c], Held(c))

LockInv == Types /\ Stacks /\ Placed /\ CpusBalanced

-----------------------------------------------------------------------------
(* Threads, frames and locks.                                              *)

\* Processors, processes and schedulers are told apart by their numbers.
LEMMA Numbers ==
  /\ None \notin Procs /\ None \notin CPUs
  /\ \A c \in CPUs : c \in Nat /\ Sched(c) \in Threads /\ Sched(c) \notin Procs
  /\ \A c, d \in CPUs : Sched(c) = Sched(d) => c = d
  /\ \A p \in Procs : p \in Threads
  /\ \A s \in Settings : s.cpus \subseteq CPUs /\ s.procs \subseteq Procs
<1>1. NCPU \in Nat /\ NPROC \in Nat /\ None \notin Int
  BY InterruptsAssumption
<1>2. None \notin Procs /\ None \notin CPUs
  BY <1>1 DEF Procs, CPUs
<1>3. \A c \in CPUs : c \in Nat /\ Sched(c) \in Threads /\ Sched(c) \notin Procs
  BY <1>1 DEF CPUs, Procs, Threads, Sched
<1>4. \A c, d \in CPUs : Sched(c) = Sched(d) => c = d
  BY <1>1 DEF CPUs, Sched
<1>5. \A p \in Procs : p \in Threads
  BY DEF Threads
<1>6. \A s \in Settings : s.cpus \subseteq CPUs /\ s.procs \subseteq Procs
  BY InterruptsAssumption
<1> QED
  BY <1>2, <1>3, <1>4, <1>5, <1>6

\* A stack of one frame is not one of two.
LEMMA OneNotTwo == 1 # 2
OBVIOUS

\* The locks a frame holds, by what it is about to do.
LEMMA HeldByPc ==
  ASSUME NEW f
  PROVE  /\ f.pc \in {"loop", "start"} => HeldBy(f) = {f.on}
         /\ f.pc = "sleep" => HeldBy(f) = {f.on, "ptable"}
         /\ f.pc \in {"pick", "forkret", "woken", "yield", "yielded", "exit", "kill"} =>
              HeldBy(f) = {"ptable"}
         /\ f.pc = "tick" => HeldBy(f) = {"tickslock"}
         /\ f.pc = "tick_wakeup" => HeldBy(f) = {"tickslock", "ptable"}
         /\ f.pc \in {"key", "listed", "put"} => HeldBy(f) = {"cons"}
         /\ f.pc = "key_wakeup" => HeldBy(f) = {"cons", "ptable"}
         /\ f.pc \in {"sti", "user", "return", "gone", "clock", "iret"} => HeldBy(f) = {}
BY DEF HeldBy

\* The locks a frame has while it waits for another.
LEMMA HeldByThen ==
  ASSUME NEW f, f.pc \in Waiting
  PROVE  /\ f.then = "sleep" => HeldBy(f) = {f.on}
         /\ f.then = "tick_wakeup" => HeldBy(f) = {"tickslock"}
         /\ f.then = "key_wakeup" => HeldBy(f) = {"cons"}
         /\ f.then \notin {"sleep", "tick_wakeup", "key_wakeup"} => HeldBy(f) = {}
BY DEF HeldBy, HeldBefore, Waiting

\* The fields of a frame.
LEMMA ToFields ==
  ASSUME NEW f \in FrameSet, NEW pc \in Pcs
  PROVE  /\ To(f, pc) \in FrameSet
         /\ To(f, pc).pc = pc /\ To(f, pc).lk = "none" /\ To(f, pc).then = "none"
         /\ To(f, pc).on = f.on /\ To(f, pc).dump = f.dump
BY ZenonT(30) DEF To, FrameSet

\* The same for acquire.
LEMMA AcquiringFields ==
  ASSUME NEW f \in FrameSet, NEW lk \in Locks, NEW then \in Thens
  PROVE  /\ Acquiring(f, lk, then) \in FrameSet
         /\ Acquiring(f, lk, then).pc = "acquire" /\ Acquiring(f, lk, then).lk = lk
         /\ Acquiring(f, lk, then).then = then
         /\ Acquiring(f, lk, then).on = f.on /\ Acquiring(f, lk, then).dump = f.dump
BY ZenonT(30) DEF Acquiring, FrameSet, Pcs, Waiting

\* The same for a new frame.
LEMMA FrameFields ==
  ASSUME NEW pc \in Pcs
  PROVE  /\ Frame(pc) \in FrameSet
         /\ Frame(pc).pc = pc /\ Frame(pc).lk = "none" /\ Frame(pc).then = "none"
         /\ Frame(pc).on = "none" /\ Frame(pc).dump = FALSE
BY DEF Frame, FrameSet

\* A frame that gets the lock it waits for goes on with that lock and those it
\* had, and never waits for one of them.
LEMMA Acquired ==
  ASSUME NEW t, NEW f \in FrameSet, f.pc \in Waiting, Base(t, f) \/ Handler(t, f)
  PROVE  /\ f.lk \in Locks /\ f.lk \notin HeldBy(f) /\ f.then \in Thens /\ f.then \in Pcs
         /\ f.then \notin Waiting
         /\ HeldBy(To(f, f.then)) = HeldBy(f) \cup {f.lk}
         /\ Base(t, f) => Base(t, To(f, f.then))
         /\ Handler(t, f) => Handler(t, To(f, f.then))
<1>1. /\ f.then \in Thens /\ f.lk = Wanted(f)
      /\ f.then \in {"loop", "start", "sleep"} => f.on \in {"cons", "tickslock"}
  BY DEF Base, Handler, Runs, Thens, ProcThen, SchedThen, TrapThen, PreemptThen
<1>2. f.then \in Pcs /\ f.then \notin Waiting
  BY <1>1 DEF Pcs, Thens, Waiting, ProcThen, SchedThen, TrapThen, PreemptThen, ProcCode,
              SchedCode, TrapCode, PreemptCode
<1>3. /\ To(f, f.then).pc = f.then /\ To(f, f.then).then = "none" /\ To(f, f.then).on = f.on
      /\ To(f, f.then) \in FrameSet
  BY <1>2, ToFields
<1>4. f.lk \in Locks /\ f.lk \notin HeldBy(f) /\ HeldBy(To(f, f.then)) = HeldBy(f) \cup {f.lk}
  <2>1. CASE f.then \in {"loop", "start"}
    BY <1>1, <1>3, <2>1, HeldByThen, HeldByPc DEF Wanted, Locks
  <2>2. CASE f.then = "sleep"
    BY <1>1, <1>3, <2>2, HeldByThen, HeldByPc DEF Wanted, Locks
  <2>3. CASE f.then \in {"tick", "tick_wakeup"}
    BY <1>1, <1>3, <2>3, HeldByThen, HeldByPc DEF Wanted, Locks
  <2>4. CASE f.then \in {"put", "key", "listed", "key_wakeup"}
    BY <1>1, <1>3, <2>4, HeldByThen, HeldByPc DEF Wanted, Locks
  <2>5. CASE f.then \in {"pick", "kill", "exit", "yield"}
    BY <1>1, <1>3, <2>5, HeldByThen, HeldByPc DEF Wanted, Locks
  <2> QED
    BY <1>1, <2>1, <2>2, <2>3, <2>4, <2>5
       DEF Thens, ProcThen, SchedThen, TrapThen, PreemptThen
<1>5. ASSUME Base(t, f) PROVE Base(t, To(f, f.then))
  BY <1>1, <1>2, <1>3, <1>5 DEF Base, Runs, ProcThen, SchedThen, ProcCode, SchedCode
<1>6. ASSUME Handler(t, f) PROVE Handler(t, To(f, f.then))
  BY <1>2, <1>3, <1>6 DEF Handler, Runs, TrapThen, PreemptThen, TrapCode, PreemptCode
<1> QED
  BY <1>1, <1>2, <1>4, <1>5, <1>6, ZenonT(30)

\* The stack of a thread whose running frame becomes f.
LEMMA TopShape ==
  ASSUME NEW t, NEW frames, Stack(t, frames), NEW f \in FrameSet
  PROVE  /\ [frames EXCEPT ![1] = f] \in Seq(FrameSet)
         /\ Len([frames EXCEPT ![1] = f]) = Len(frames)
         /\ [frames EXCEPT ![1] = f][1] = f
         /\ Len(frames) = 2 => [frames EXCEPT ![1] = f][2] = frames[2]
<1>1. /\ frames \in Seq(FrameSet) /\ 1 \in 1 .. Len(frames)
      /\ Len(frames) = 2 => 2 \in 1 .. Len(frames)
  BY DEF Stack
<1> QED
  BY <1>1, SMT

\* The running frame of a thread.
LEMMA Tops ==
  ASSUME NEW t, NEW frames, Stack(t, frames)
  PROVE  /\ frames[1] \in FrameSet /\ Len(frames) \in {1, 2}
         /\ Len(frames) = 1 => Base(t, frames[1])
         /\ Len(frames) = 2 => Handler(t, frames[1])
<1>1. frames \in Seq(FrameSet) /\ Len(frames) \in {1, 2}
  BY DEF Stack
<1>2. frames[1] \in FrameSet
  BY <1>1
<1>3. ~(Len(frames) = 1 /\ Len(frames) = 2)
  OBVIOUS
<1>4. /\ Len(frames) = 1 => Base(t, frames[1])
      /\ Len(frames) = 2 => Handler(t, frames[1])
  BY <1>3, ZenonT(30) DEF Stack
<1> QED
  BY <1>1, <1>2, <1>4, ZenonT(30)

\* What a processor runs, and what the others run.
LEMMA ThreadFacts ==
  ASSUME LockInv, NEW c \in setting.cpus
  PROVE  /\ c \in CPUs /\ setting.cpus \subseteq CPUs /\ cpu[c] \in CpuSet
         /\ Thread(c) \in Threads /\ Stack(Thread(c), at[Thread(c)])
         /\ Top(c) \in FrameSet /\ Top(c) = at[Thread(c)][1]
         /\ Balanced(at[Thread(c)], cpu[c], Held(c))
         /\ cpu[c].proc = None => Thread(c) = Sched(c) /\ Thread(c) \notin Procs
         /\ cpu[c].proc # None => Thread(c) = cpu[c].proc /\ Thread(c) \in Procs
         /\ \A d \in CPUs : Thread(d) \in Threads /\ (d # c => Thread(d) # Thread(c))
<1>1. /\ setting \in Settings /\ cpu \in [CPUs -> CpuSet] /\ Stacks /\ CpusBalanced /\ Placed
  BY ZenonT(30) DEF LockInv, Types
<1>2. setting.cpus \subseteq CPUs /\ c \in CPUs
  BY <1>1, Numbers, ZenonT(30)
<1>3. \A d \in CPUs : cpu[d] \in CpuSet /\ cpu[d].proc \in Procs \cup {None}
  BY <1>1 DEF CpuSet
<1>4. \A d \in CPUs : /\ Thread(d) \in Threads
                      /\ cpu[d].proc = None => Thread(d) = Sched(d) /\ Thread(d) \notin Procs
                      /\ cpu[d].proc # None => Thread(d) = cpu[d].proc /\ Thread(d) \in Procs
  BY <1>3, Numbers, ZenonT(30) DEF Thread
<1>5. ASSUME NEW d \in CPUs, d # c PROVE Thread(d) # Thread(c)
  <2>1. CASE cpu[c].proc = None
    BY <1>2, <1>4, <1>5, <2>1, Numbers, ZenonT(30)
  <2>2. CASE cpu[c].proc # None
    <3>1. cpu[c].proc # cpu[d].proc
      BY <1>1, <1>2, <1>5, <2>2, ZenonT(30) DEF Placed
    <3> QED
      BY <1>2, <1>4, <2>2, <3>1, ZenonT(30)
  <2> QED
    BY <2>1, <2>2, ZenonT(30)
<1>6. Stack(Thread(c), at[Thread(c)]) /\ Balanced(at[Thread(c)], cpu[c], Held(c))
  BY <1>1, <1>2, <1>4, ZenonT(30) DEF Stacks, CpusBalanced
<1>7. Top(c) = at[Thread(c)][1] /\ Top(c) \in FrameSet
  BY <1>6, Tops, ZenonT(30) DEF Top
<1> QED
  BY <1>2, <1>3, <1>4, <1>5, <1>6, <1>7, ZenonT(30)

\* How many of the locks are in a set.
One(lk, S) == IF lk \in S THEN 1 ELSE 0

Count(S) == One("cons", S) + One("tickslock", S) + One("ptable", S)

\* One lock more or less counts one.
LEMMA CountOne ==
  ASSUME NEW S \in SUBSET Locks
  PROVE  /\ Count(S) \in 0 .. 3
         /\ S = {} <=> Count(S) = 0
         /\ \A lk \in S : Count(S \ {lk}) = Count(S) - 1
         /\ \A lk \in Locks : lk \notin S => Count(S \cup {lk}) = Count(S) + 1
<1>1. Count(S) \in 0 .. 3
  BY DEF Count, One
<1>2. S = {} <=> Count(S) = 0
  BY DEF Count, One, Locks
<1>3. ASSUME NEW lk \in S PROVE Count(S \ {lk}) = Count(S) - 1
  <2>1. lk \in {"cons", "tickslock", "ptable"}
    BY DEF Locks
  <2>2. \A m \in Locks : One(m, S \ {lk}) = IF m = lk THEN 0 ELSE One(m, S)
    BY DEF One
  <2>3. One(lk, S) = 1
    BY DEF One
  <2>4. \A m \in Locks : One(m, S) \in {0, 1}
    BY DEF One
  <2> QED
    BY <2>1, <2>2, <2>3, <2>4 DEF Count, Locks
<1>4. ASSUME NEW lk \in Locks, lk \notin S PROVE Count(S \cup {lk}) = Count(S) + 1
  <2>1. lk \in {"cons", "tickslock", "ptable"}
    BY DEF Locks
  <2>2. \A m \in Locks : One(m, S \cup {lk}) = IF m = lk THEN 1 ELSE One(m, S)
    BY DEF One
  <2>3. One(lk, S) = 0
    BY <1>4 DEF One
  <2>4. \A m \in Locks : One(m, S) \in {0, 1}
    BY DEF One
  <2> QED
    BY <2>1, <2>2, <2>3, <2>4 DEF Count, Locks
<1> QED
  BY <1>1, <1>2, <1>3, <1>4, ZenonT(30)

\* Cardinality counts them.
LEMMA CountLocks ==
  ASSUME NEW S \in SUBSET Locks
  PROVE  Cardinality(S) = Count(S)
<1> DEFINE fn(g, T) == IF T = {} THEN 0 ELSE 1 + g[T \ {CHOOSE x : x \in T}]
           IsCS(g) == g = [T \in SUBSET S |-> fn(g, T)]
           CS == CHOOSE g : IsCS(g)
           SZ == [T \in SUBSET S |-> Count(T)]
           rest(T) == T \ {CHOOSE x : x \in T}
<1>1. ASSUME NEW T \in SUBSET S
      PROVE  /\ Count(T) \in 0 .. 3 /\ (T = {} <=> Count(T) = 0)
             /\ T # {} => rest(T) \in SUBSET S /\ Count(rest(T)) = Count(T) - 1
  <2>1. T \in SUBSET Locks
    OBVIOUS
  <2>2. T # {} => (CHOOSE x : x \in T) \in T
    OBVIOUS
  <2> QED
    BY <2>1, <2>2, CountOne, ZenonT(30)
<1>2. IsCS(SZ)
  <2>1. ASSUME NEW T \in SUBSET S PROVE Count(T) = fn(SZ, T)
    <3>1. T # {} => SZ[rest(T)] = Count(rest(T))
      BY <1>1, ZenonT(30)
    <3> QED
      BY <1>1, <3>1
  <2> QED
    BY <2>1, ZenonT(30)
<1>3. IsCS(CS)
  BY <1>2, ZenonT(30)
<1>4. ASSUME NEW T \in SUBSET S
      PROVE  /\ T = {} => CS[T] = 0
             /\ T # {} => CS[T] = 1 + CS[rest(T)]
  <2>1. CS[T] = fn(CS, T)
    BY <1>3, ZenonT(30)
  <2> QED
    BY <2>1, ZenonT(30)
<1>5. Cardinality(S) = CS[S]
  BY DEF Cardinality
<1> HIDE DEF CS, SZ, rest
<1>6. \A T \in SUBSET S : Count(T) = 0 => CS[T] = 0
  BY <1>1, <1>4
<1>7. \A T \in SUBSET S : Count(T) = 1 => CS[T] = 1
  BY <1>1, <1>4, <1>6
<1>8. \A T \in SUBSET S : Count(T) = 2 => CS[T] = 2
  BY <1>1, <1>4, <1>7
<1>9. \A T \in SUBSET S : Count(T) = 3 => CS[T] = 3
  BY <1>1, <1>4, <1>8
<1>10. Count(S) \in {0, 1, 2, 3}
  BY <1>1
<1> QED
  BY <1>5, <1>6, <1>7, <1>8, <1>9, <1>10

\* The locks of a processor, counted.
LEMMA LockCount ==
  ASSUME NEW S \in SUBSET Locks
  PROVE  /\ Cardinality(S) \in Nat
         /\ S = {} <=> Cardinality(S) = 0
         /\ \A lk \in S : Cardinality(S \ {lk}) = Cardinality(S) - 1
         /\ \A lk \in Locks : lk \notin S => Cardinality(S \cup {lk}) = Cardinality(S) + 1
<1>1. Cardinality(S) = Count(S) /\ Count(S) \in 0 .. 3
  BY CountLocks, CountOne, ZenonT(30)
<1>2. \A lk \in S : Cardinality(S \ {lk}) = Count(S \ {lk})
  <2>1. \A lk : S \ {lk} \in SUBSET Locks
    OBVIOUS
  <2> QED
    BY <2>1, CountLocks, ZenonT(30)
<1>3. \A lk \in Locks : Cardinality(S \cup {lk}) = Count(S \cup {lk})
  <2>1. \A lk \in Locks : S \cup {lk} \in SUBSET Locks
    OBVIOUS
  <2> QED
    BY <2>1, CountLocks, ZenonT(30)
<1>4. /\ S = {} <=> Count(S) = 0
      /\ \A lk \in S : Count(S \ {lk}) = Count(S) - 1
      /\ \A lk \in Locks : lk \notin S => Count(S \cup {lk}) = Count(S) + 1
  BY CountOne, ZenonT(30)
<1>5. Cardinality(S) \in Nat
  BY <1>1
<1> QED
  BY <1>1, <1>2, <1>3, <1>4, <1>5, ZenonT(30)

\* A single one, and none.
LEMMA OneLock == Cardinality({"ptable"}) = 1 /\ Cardinality({}) = 0
<1>1. {"ptable"} \in SUBSET Locks /\ {} \in SUBSET Locks
  BY DEF Locks
<1>2. Count({"ptable"}) = 1 /\ Count({}) = 0
  BY DEF Count, One
<1> QED
  BY <1>1, <1>2, CountLocks

\* popcli and pushcli on a processor's record.
LEMMA PopFields ==
  ASSUME NEW cp \in CpuSet
  PROVE  /\ popcli(cp) \in CpuSet
         /\ popcli(cp).ncli = cp.ncli - 1 /\ popcli(cp).proc = cp.proc
         /\ popcli(cp).intena = cp.intena /\ popcli(cp).p = cp.p
         /\ popcli(cp).if <=> cp.if \/ (cp.ncli = 1 /\ cp.intena)
<1> DEFINE on == cp.if \/ (cp.ncli = 1 /\ cp.intena)
           less == [cp EXCEPT !.ncli = cp.ncli - 1]
<1>1. on \in BOOLEAN
  OBVIOUS
<1>2. popcli(cp) = [less EXCEPT !.if = on]
  BY DEF popcli
<1>3. /\ less \in CpuSet /\ less.ncli = cp.ncli - 1 /\ less.proc = cp.proc
      /\ less.intena = cp.intena /\ less.p = cp.p
  BY DEF CpuSet
<1> HIDE DEF on, less
<1>4. popcli(cp) \in CpuSet
  BY <1>1, <1>2, <1>3, ZenonT(30) DEF CpuSet
<1>5. /\ popcli(cp).ncli = less.ncli /\ popcli(cp).proc = less.proc
      /\ popcli(cp).intena = less.intena /\ popcli(cp).p = less.p /\ popcli(cp).if = on
  BY <1>2, <1>3 DEF CpuSet
<1> QED
  BY <1>3, <1>4, <1>5, ZenonT(30) DEF on

\* pushcli keeps the flag it found only at the outermost level.
LEMMA PushFields ==
  ASSUME NEW cp \in CpuSet
  PROVE  /\ pushcli(cp) \in CpuSet
         /\ pushcli(cp).ncli = cp.ncli + 1 /\ pushcli(cp).proc = cp.proc
         /\ pushcli(cp).p = cp.p /\ pushcli(cp).if = FALSE
         /\ cp.ncli = 0 => pushcli(cp).intena = cp.if
         /\ cp.ncli # 0 => pushcli(cp).intena = cp.intena
<1> DEFINE was == IF cp.ncli = 0 THEN cp.if ELSE cp.intena
           more == [[cp EXCEPT !.if = FALSE] EXCEPT !.ncli = cp.ncli + 1]
<1>1. was \in BOOLEAN
  BY DEF CpuSet
<1>2. pushcli(cp) = [more EXCEPT !.intena = was]
  BY DEF pushcli
<1>3. (cp.ncli = 0 => was = cp.if) /\ (cp.ncli # 0 => was = cp.intena)
  BY ZenonT(30)
<1>4. more \in CpuSet
  <2>1. [cp EXCEPT !.if = FALSE] \in CpuSet
    BY ZenonT(30) DEF CpuSet
  <2>2. cp.ncli + 1 \in Int
    BY DEF CpuSet
  <2> QED
    BY <2>1, <2>2, ZenonT(30) DEF CpuSet
<1>5. more.ncli = cp.ncli + 1 /\ more.proc = cp.proc /\ more.p = cp.p /\ more.if = FALSE
  BY DEF CpuSet
<1> HIDE DEF was, more
<1>6. pushcli(cp) \in CpuSet
  BY <1>1, <1>2, <1>4, ZenonT(30) DEF CpuSet
<1>7. /\ pushcli(cp).ncli = more.ncli /\ pushcli(cp).proc = more.proc
      /\ pushcli(cp).p = more.p /\ pushcli(cp).if = more.if /\ pushcli(cp).intena = was
  BY <1>2, <1>4 DEF CpuSet
<1> QED
  BY <1>3, <1>5, <1>6, <1>7, ZenonT(30)

\* The code says whose stack it is on, and whether a handler runs it.
LEMMA WhereAt ==
  ASSUME LockInv, NEW c \in setting.cpus
  PROVE  /\ Top(c).pc \in {"forkret", "user", "loop", "start", "sleep", "woken", "put", "kill",
                           "return"} =>
              Len(at[Thread(c)]) = 1 /\ Thread(c) \in Procs /\ cpu[c].proc = Thread(c)
         /\ Top(c).pc \in {"loop", "start", "sleep", "woken"} => Top(c).on \in {"cons", "tickslock"}
         /\ Top(c).pc \in {"sti", "pick"} =>
              Len(at[Thread(c)]) = 1 /\ Thread(c) \notin Procs /\ cpu[c].proc = None
         /\ Top(c).pc \in TrapCode => Len(at[Thread(c)]) = 2
         /\ Top(c).pc \in {"yield", "yielded"} =>
              Len(at[Thread(c)]) = 2 /\ Thread(c) \in Procs /\ cpu[c].proc = Thread(c)
         /\ Top(c).pc = "exit" => Thread(c) \in Procs /\ cpu[c].proc = Thread(c)
<1> DEFINE f == Top(c)
           k == Len(at[Thread(c)])
           t == Thread(c)
<1>1. /\ cpu[c].proc = None => t \notin Procs
      /\ cpu[c].proc # None => t = cpu[c].proc /\ t \in Procs
  BY ThreadFacts, ZenonT(30)
<1>2. /\ k \in {1, 2} /\ (k = 1 => Base(t, f)) /\ (k = 2 => Handler(t, f))
  BY ThreadFacts, Tops, ZenonT(30)
<1> HIDE DEF f, k, t
<1>3. f.pc \in ProcCode /\ f.pc # "exit" => k = 1 /\ t \in Procs
  BY <1>2 DEF Base, Handler, Runs, Waiting, ProcCode, SchedCode, TrapCode, PreemptCode
<1>4. f.pc \in SchedCode => k = 1 /\ t \notin Procs
  BY <1>2 DEF Base, Handler, Runs, Waiting, ProcCode, SchedCode, TrapCode, PreemptCode
<1>5. f.pc \in TrapCode \cup {"yield", "yielded"} => k = 2
  BY <1>2 DEF Base, Handler, Runs, Waiting, ProcCode, SchedCode, TrapCode, PreemptCode
<1>6. f.pc \in PreemptCode => t \in Procs
  BY <1>2 DEF Base, Handler, Runs, Waiting, ProcCode, SchedCode, TrapCode, PreemptCode
<1>7. f.pc \in {"loop", "start", "sleep", "woken"} => k = 1 /\ f.on \in {"cons", "tickslock"}
  BY <1>2, <1>3 DEF Base, ProcCode
<1>8. /\ f.pc \in {"forkret", "user", "loop", "start", "sleep", "woken", "put", "kill",
                   "return"} => f.pc \in ProcCode /\ f.pc # "exit"
      /\ f.pc \in {"sti", "pick"} => f.pc \in SchedCode
      /\ f.pc \in {"yield", "yielded", "exit"} => f.pc \in PreemptCode
  BY DEF ProcCode, SchedCode, PreemptCode
<1> QED
  BY <1>1, <1>3, <1>4, <1>5, <1>6, <1>7, <1>8, ZenonT(30) DEF f, k, t

\* sys_read and sys_sleep remember whose lock they want.
LEMMA OnFields ==
  ASSUME NEW f \in FrameSet, NEW on \in {"cons", "tickslock", "none"}
  PROVE  /\ [f EXCEPT !.on = on] \in FrameSet /\ [f EXCEPT !.on = on].on = on
         /\ [f EXCEPT !.on = on].pc = f.pc /\ [f EXCEPT !.on = on].then = f.then
BY DEF FrameSet

\* A processor's record without its process.
LEMMA NoProcFields ==
  ASSUME NEW cp \in CpuSet
  PROVE  /\ [cp EXCEPT !.proc = None] \in CpuSet /\ [cp EXCEPT !.proc = None].proc = None
         /\ [cp EXCEPT !.proc = None].ncli = cp.ncli /\ [cp EXCEPT !.proc = None].if = cp.if
         /\ [cp EXCEPT !.proc = None].intena = cp.intena
BY DEF CpuSet

-----------------------------------------------------------------------------
(* Steps of one processor.                                                 *)

\* The variables but for cpu, lock, at and intena have their types.
OtherTypes ==
  /\ setting \in Settings
  /\ state \in [Procs -> {"UNUSED", "RUNNABLE", "RUNNING", "SLEEPING", "ZOMBIE"}]
  /\ chan \in [Procs -> {"cons", "tickslock", None}]
  /\ killed \in [Procs -> BOOLEAN]
  /\ n \in [Procs -> Nat] /\ done \in [Procs -> Nat]

\* No process starts or stops to run: at most sleepers are woken.
NoSwitch ==
  \A p \in Procs :
    /\ state[p] = "RUNNING" => state'[p] = "RUNNING"
    /\ state'[p] = "SLEEPING" => state[p] = "SLEEPING"
    /\ state'[p] = "RUNNABLE" => state[p] \in {"RUNNABLE", "SLEEPING"}

\* Processor c takes and lets go locks nobody else has.
OwnLocks(c) ==
  /\ lock' \in [Locks -> CPUs \cup {None}]
  /\ \A lk \in Locks : lock'[lk] # lock[lk] => lock[lk] \in {c, None} /\ lock'[lk] \in {c, None}

\* A step that leaves threads, locks and processors alone.
LEMMA StandStill ==
  ASSUME LockInv, OtherTypes', UNCHANGED <<setting, intena, state, lock, cpu, at>>
  PROVE  LockInv'
<1>1. Types'
  BY ZenonT(30) DEF LockInv, Types, OtherTypes
<1>2. Stacks'
  BY ZenonT(30) DEF LockInv, Stacks
<1>3. Placed'
  BY ZenonT(30) DEF LockInv, Placed, Parked
<1>4. CpusBalanced'
  BY ZenonT(30) DEF LockInv, CpusBalanced, Held, holding, Thread
<1> QED
  BY <1>1, <1>2, <1>3, <1>4, ZenonT(30) DEF LockInv

\* Every step keeps the invariant.
LEMMA LockNext == LockInv /\ Next => LockInv'
\* The locks of the other processors stay.
<1>OthersHold.
  ASSUME NEW c \in CPUs, NEW d \in CPUs, d # c, OwnLocks(c)
  PROVE  Held(d)' = Held(d)
  <2> USE <1>OthersHold
  <2>1. d # None
    BY Numbers, ZenonT(30)
  <2>2. \A lk \in Locks : lock'[lk] = d <=> lock[lk] = d
    BY <2>1, ZenonT(30) DEF OwnLocks
  <2> QED
    BY <2>2 DEF Held, holding

\* A step that changes the stack of the thread c runs to "frames", and leaves c
\* with the same process, keeps the invariant if c is balanced after it.
<1>StackStep.
  ASSUME LockInv, NEW c \in setting.cpus, NEW frames, NEW cp \in CpuSet,
         OtherTypes', setting' = setting, intena' = intena, NoSwitch, OwnLocks(c),
         at' = [at EXCEPT ![Thread(c)] = frames], Stack(Thread(c), frames),
         cpu' = [cpu EXCEPT ![c] = cp], cp.proc = cpu[c].proc,
         Balanced(frames, cp, Held(c)')
  PROVE  LockInv'
  <2> USE <1>StackStep
  <2>1. /\ Types /\ Stacks /\ Placed /\ CpusBalanced
        /\ cpu \in [CPUs -> CpuSet] /\ DOMAIN at = Threads /\ intena \in [Procs -> BOOLEAN]
    BY ZenonT(30) DEF LockInv, Types
  <2>2. /\ c \in CPUs /\ setting.cpus \subseteq CPUs
        /\ Thread(c) \in Threads /\ Stack(Thread(c), at[Thread(c)])
        /\ cpu[c].proc = None => Thread(c) = Sched(c) /\ Thread(c) \notin Procs
        /\ cpu[c].proc # None => Thread(c) = cpu[c].proc /\ Thread(c) \in Procs
        /\ \A d \in CPUs : Thread(d) \in Threads /\ (d # c => Thread(d) # Thread(c))
    BY ThreadFacts, ZenonT(30)
  <2>3. /\ DOMAIN at' = Threads /\ at'[Thread(c)] = frames
        /\ \A t \in Threads : t # Thread(c) => at'[t] = at[t]
    BY <2>1, <2>2
  <2>4. /\ cpu' \in [CPUs -> CpuSet] /\ cpu'[c] = cp
        /\ \A d \in CPUs : d # c => cpu'[d] = cpu[d]
        /\ \A d \in CPUs : cpu'[d].proc = cpu[d].proc
    BY <2>1, <2>2
  <2>5. \A d \in CPUs : Thread(d)' = Thread(d)
    BY <2>4, ZenonT(30) DEF Thread, Sched
  <2>6. Types'
    BY <2>1, <2>3, <2>4, ZenonT(30) DEF Types, OtherTypes, OwnLocks
  <2>7. Stack(Thread(c), at'[Thread(c)])
    BY <2>3, ZenonT(30)
  <2>8. Stacks'
    BY <2>1, <2>3, <2>7, ZenonT(30) DEF Stacks
  <2>9. Placed'
    <3>1. ASSUME NEW d \in CPUs, cpu'[d].proc # None
          PROVE  /\ state'[cpu'[d].proc] = "RUNNING"
                 /\ Len(at'[Sched(d)]) = 1 /\ at'[Sched(d)][1].pc = "pick"
      <4>1. /\ cpu[d].proc # None /\ state[cpu[d].proc] = "RUNNING"
            /\ Len(at[Sched(d)]) = 1 /\ at[Sched(d)][1].pc = "pick"
        BY <2>1, <2>4, <3>1, ZenonT(30) DEF Placed
      <4>2. cpu[d].proc \in Procs
        BY <2>1, <4>1 DEF CpuSet
      <4>3. Sched(d) # Thread(c) /\ Sched(d) \in Threads
        BY <2>2, <4>1, Numbers, ZenonT(30)
      <4>4. at'[Sched(d)] = at[Sched(d)] /\ cpu'[d].proc = cpu[d].proc
        BY <2>3, <2>4, <4>3, ZenonT(30)
      <4> QED
        BY <4>1, <4>2, <4>4, ZenonT(30) DEF NoSwitch
    <3>2. ASSUME NEW p \in Procs, state'[p] \in {"RUNNABLE", "SLEEPING"} PROVE Parked(p)'
      <4>1. state[p] \in {"RUNNABLE", "SLEEPING"} /\ (state'[p] = "SLEEPING" => state[p] = "SLEEPING")
        BY <3>2, ZenonT(30) DEF NoSwitch
      <4>2. Parked(p)
        BY <2>1, <4>1, ZenonT(30) DEF Placed
      <4>3. p # Thread(c) /\ p \in Threads
        BY <2>1, <2>2, <4>1, Numbers DEF Placed
      <4>4. at'[p] = at[p]
        BY <2>3, <4>3, ZenonT(30)
      <4> QED
        BY <4>1, <4>2, <4>4, ZenonT(30) DEF Parked
    <3>3. ASSUME NEW d \in CPUs, NEW e \in CPUs, cpu'[d].proc # None, cpu'[d].proc = cpu'[e].proc
          PROVE  d = e
      <4>1. cpu[d].proc # None /\ cpu[d].proc = cpu[e].proc
        BY <2>4, <3>3
      <4> QED
        BY <2>1, <4>1, ZenonT(30) DEF Placed
    <3> QED
      BY <3>1, <3>2, <3>3, ZenonT(30) DEF Placed
  <2>10. CpusBalanced'
    <3>1. ASSUME NEW d \in setting.cpus PROVE Balanced(at'[Thread(d)], cpu'[d], Held(d)')
      <4>1. CASE d = c
        BY <2>3, <2>4, <4>1, ZenonT(30)
      <4>2. CASE d # c
        <5>1. Held(d)' = Held(d) /\ at'[Thread(d)] = at[Thread(d)] /\ cpu'[d] = cpu[d]
          BY <2>2, <2>3, <2>4, <4>2, <1>OthersHold, ZenonT(30)
        <5> QED
          BY <2>1, <5>1, ZenonT(30) DEF CpusBalanced
      <4> QED
        BY <4>1, <4>2, ZenonT(30)
    <3>2. \A d \in setting.cpus : at'[Thread(d)'] = at'[Thread(d)]
      BY <2>2, <2>5, ZenonT(30)
    <3> QED
      BY <3>1, <3>2, ZenonT(30) DEF CpusBalanced
  <2> QED
    BY <2>6, <2>8, <2>9, <2>10, ZenonT(30) DEF LockInv

\* It is one if f belongs there.
<1>NewTop.
  ASSUME NEW t, NEW frames, Stack(t, frames), NEW f \in FrameSet,
         Len(frames) = 1 => Base(t, f), Len(frames) = 2 => Handler(t, f)
  PROVE  Stack(t, [frames EXCEPT ![1] = f])
  <2> USE <1>NewTop
  <2> DEFINE new == [frames EXCEPT ![1] = f]
  <2>1. /\ new \in Seq(FrameSet) /\ Len(new) = Len(frames) /\ new[1] = f
        /\ Len(frames) = 2 => new[2] = frames[2]
    BY TopShape
  <2> HIDE DEF new
  <2>2. Stack(t, new)
    BY <2>1, ZenonT(30) DEF Stack
  <2> QED
    BY <2>2 DEF new

\* The same where only the running frame changes.
<1>TopStep.
  ASSUME LockInv, NEW c \in setting.cpus, NEW f \in FrameSet, NEW cp \in CpuSet,
         OtherTypes', setting' = setting, intena' = intena, NoSwitch, OwnLocks(c),
         SetTop(c, f),
         Len(at[Thread(c)]) = 1 => Base(Thread(c), f),
         Len(at[Thread(c)]) = 2 => Handler(Thread(c), f),
         cpu' = [cpu EXCEPT ![c] = cp], cp.proc = cpu[c].proc,
         Balanced([at[Thread(c)] EXCEPT ![1] = f], cp, Held(c)')
  PROVE  LockInv'
  <2> USE <1>TopStep
  <2> DEFINE frames == [at[Thread(c)] EXCEPT ![1] = f]
  <2>1. Stack(Thread(c), at[Thread(c)])
    BY ThreadFacts, ZenonT(30)
  <2>2. Stack(Thread(c), frames)
    BY <2>1, <1>NewTop
  <2>3. at' = [at EXCEPT ![Thread(c)] = frames]
    BY DEF SetTop
  <2> HIDE DEF frames
  <2>4. Balanced(frames, cp, Held(c)')
    BY ZenonT(30) DEF frames
  <2> QED
    BY <2>2, <2>3, <2>4, <1>StackStep, ZenonT(30)

\* Nothing of the processes changes but their stacks.
<1>Quiet.
  ASSUME LockInv, UNCHANGED Procvars, setting' = setting
  PROVE  OtherTypes' /\ intena' = intena /\ NoSwitch
  BY <1>Quiet, ZenonT(30) DEF LockInv, Types, OtherTypes, NoSwitch, Procvars

\* A lock is let go: interrupts go back on with the last one, in the code that
\* had them on.
<1>PopBalanced.
  ASSUME NEW cp \in CpuSet, NEW held \in SUBSET Locks, NEW lk \in held, NEW old, NEW new,
         Balanced(old, cp, held), old[1].pc # "spin",
         Len(new) = Len(old), new[1].pc # "spin", HeldBy(new[1]) = held \ {lk}
  PROVE  Balanced(new, popcli(cp), held \ {lk})
  <2> USE <1>PopBalanced
  <2>1. /\ cp.ncli = Cardinality(held) /\ (cp.ncli > 0 => ~cp.if)
        /\ Len(old) = 2 => ~cp.if /\ (cp.ncli > 0 => ~cp.intena)
        /\ cp.proc # None /\ Len(old) = 1 => IF cp.ncli = 0 THEN cp.if ELSE cp.intena
    <3>1. /\ cp.ncli = Cardinality(held) + 0 /\ (cp.ncli > 0 => ~cp.if)
          /\ Len(old) = 2 => ~cp.if /\ (cp.ncli > 0 => ~cp.intena)
          /\ cp.proc # None /\ Len(old) = 1 => IF cp.ncli = 0 THEN cp.if ELSE cp.intena
      BY ZenonT(30) DEF Balanced
    <3>2. Cardinality(held) + 0 = Cardinality(held)
      BY LockCount
    <3> QED
      BY <3>1, <3>2, ZenonT(30)
  <2>2. /\ Cardinality(held \ {lk}) = cp.ncli - 1 /\ cp.ncli \in Nat /\ cp.ncli > 0
        /\ Cardinality(held \ {lk}) \in Nat
    BY <2>1, LockCount
  <2>3. /\ popcli(cp).ncli = cp.ncli - 1 /\ popcli(cp).proc = cp.proc
        /\ popcli(cp).intena = cp.intena
        /\ popcli(cp).if <=> cp.if \/ (cp.ncli = 1 /\ cp.intena)
    BY PopFields
  <2>4. popcli(cp).ncli > 0 => ~popcli(cp).if
    BY <2>1, <2>2, <2>3
  <2>5. Len(new) = 2 => ~popcli(cp).if /\ ~popcli(cp).intena
    BY <2>1, <2>2, <2>3
  <2>6. popcli(cp).proc # None /\ Len(new) = 1 =>
          IF popcli(cp).ncli = 0 THEN popcli(cp).if ELSE popcli(cp).intena
    BY <2>1, <2>2, <2>3
  <2>7. popcli(cp).ncli = Cardinality(held \ {lk}) + 0
    BY <2>2, <2>3
  <2> QED
    BY <2>4, <2>5, <2>6, <2>7, ZenonT(30) DEF Balanced

\* A step that keeps the locks and the flags.
<1>KeepStep.
  ASSUME LockInv, NEW c \in setting.cpus, NEW f \in FrameSet,
         OtherTypes', setting' = setting, intena' = intena, NoSwitch,
         lock' = lock, cpu' = cpu, SetTop(c, f),
         Len(at[Thread(c)]) = 1 => Base(Thread(c), f),
         Len(at[Thread(c)]) = 2 => Handler(Thread(c), f),
         Top(c).pc # "spin", f.pc # "spin", HeldBy(f) = HeldBy(Top(c))
  PROVE  LockInv'
  <2> USE <1>KeepStep
  <2>1. /\ c \in CPUs /\ cpu[c] \in CpuSet /\ cpu \in [CPUs -> CpuSet]
        /\ lock \in [Locks -> CPUs \cup {None}]
    BY ThreadFacts, ZenonT(30) DEF LockInv, Types
  <2>2. /\ Stack(Thread(c), at[Thread(c)]) /\ Top(c) = at[Thread(c)][1]
        /\ Balanced(at[Thread(c)], cpu[c], Held(c))
    BY ThreadFacts, ZenonT(30)
  <2>3. cpu' = [cpu EXCEPT ![c] = cpu[c]]
    BY <2>1
  <2>4. OwnLocks(c) /\ Held(c)' = Held(c)
    BY <2>1, ZenonT(30) DEF OwnLocks, Held, holding
  <2>5. /\ Len([at[Thread(c)] EXCEPT ![1] = f]) = Len(at[Thread(c)])
        /\ [at[Thread(c)] EXCEPT ![1] = f][1] = f
    BY <2>2, TopShape
  <2>6. Balanced([at[Thread(c)] EXCEPT ![1] = f], cpu[c], Held(c)')
    BY <2>2, <2>4, <2>5, ZenonT(30) DEF Balanced
  <2> QED
    BY <2>1, <2>3, <2>4, <2>6, <1>TopStep, ZenonT(30)

\* A step that lets a lock go.
<1>ReleaseStep.
  ASSUME LockInv, NEW c \in setting.cpus, NEW f \in FrameSet, NEW lk \in HeldBy(Top(c)),
         OtherTypes', setting' = setting, intena' = intena, NoSwitch,
         release(c, lk), SetTop(c, f),
         Len(at[Thread(c)]) = 1 => Base(Thread(c), f),
         Len(at[Thread(c)]) = 2 => Handler(Thread(c), f),
         Top(c).pc # "spin", f.pc # "spin", HeldBy(f) = HeldBy(Top(c)) \ {lk}
  PROVE  LockInv'
  <2> USE <1>ReleaseStep
  <2>1. /\ c \in CPUs /\ cpu[c] \in CpuSet /\ cpu \in [CPUs -> CpuSet]
        /\ lock \in [Locks -> CPUs \cup {None}]
    BY ThreadFacts, ZenonT(30) DEF LockInv, Types
  <2>2. /\ Stack(Thread(c), at[Thread(c)]) /\ Top(c) = at[Thread(c)][1]
        /\ Balanced(at[Thread(c)], cpu[c], Held(c)) /\ Held(c) = HeldBy(Top(c))
    BY ThreadFacts, ZenonT(30) DEF Balanced
  <2>3. Held(c) \in SUBSET Locks /\ lk \in Held(c) /\ lock[lk] = c /\ lk \in Locks
    BY <2>2 DEF Held, holding
  <2>4. cpu' = [cpu EXCEPT ![c] = popcli(cpu[c])] /\ lock' = [lock EXCEPT ![lk] = None]
    BY DEF release
  <2>5. OwnLocks(c) /\ Held(c)' = Held(c) \ {lk}
    BY <2>1, <2>3, <2>4, Numbers DEF OwnLocks, Held, holding
  <2>6. /\ Len([at[Thread(c)] EXCEPT ![1] = f]) = Len(at[Thread(c)])
        /\ [at[Thread(c)] EXCEPT ![1] = f][1] = f
    BY <2>2, TopShape
  <2>7. Balanced([at[Thread(c)] EXCEPT ![1] = f], popcli(cpu[c]), Held(c) \ {lk})
    BY <2>1, <2>2, <2>3, <2>6, <1>PopBalanced
  <2>8. popcli(cpu[c]) \in CpuSet /\ popcli(cpu[c]).proc = cpu[c].proc
    BY <2>1, PopFields
  <2> QED
    BY <2>4, <2>5, <2>7, <2>8, <1>TopStep, ZenonT(30)

\* acquire: a free lock is taken, a taken one is waited for.
<1>Acquires.
  \A c \in setting.cpus : LockInv /\ (acquire(c) \/ spin(c)) => LockInv'
  \* A thread that asks for a lock turns interrupts off; the flag it restores in
  \* the end is the one it had.
  <2>PushBalanced.
    ASSUME NEW cp \in CpuSet, NEW held \in SUBSET Locks, NEW after \in SUBSET Locks,
           NEW old, NEW new, NEW lk \in Locks,
           Balanced(old, cp, held), old[1].pc # "spin", Len(new) = Len(old),
           HeldBy(new[1]) = after, lk \notin held,
           IF new[1].pc = "spin" THEN after = held ELSE after = held \cup {lk}
    PROVE  Balanced(new, pushcli(cp), after)
    <3> USE <2>PushBalanced
    <3>1. /\ cp.ncli = Cardinality(held) + 0
          /\ Len(old) = 2 => ~cp.if /\ (cp.ncli > 0 => ~cp.intena)
          /\ cp.proc # None /\ Len(old) = 1 => IF cp.ncli = 0 THEN cp.if ELSE cp.intena
      BY ZenonT(30) DEF Balanced
    <3>2. /\ pushcli(cp).ncli = cp.ncli + 1 /\ pushcli(cp).proc = cp.proc
          /\ pushcli(cp).if = FALSE
          /\ cp.ncli = 0 => pushcli(cp).intena = cp.if
          /\ cp.ncli # 0 => pushcli(cp).intena = cp.intena
      BY PushFields, ZenonT(30)
    <3>3. /\ Cardinality(held) \in Nat /\ Cardinality(held \cup {lk}) = Cardinality(held) + 1
      BY LockCount
    <3>4. cp.ncli \in Nat /\ (cp.ncli = 0 \/ cp.ncli > 0) /\ pushcli(cp).ncli # 0
      BY <3>1, <3>2, <3>3
    <3>5. pushcli(cp).ncli = Cardinality(after) + IF new[1].pc = "spin" THEN 1 ELSE 0
      <4>1. CASE new[1].pc = "spin"
        BY <3>1, <3>2, <3>3, <4>1
      <4>2. CASE new[1].pc # "spin"
        <5>1. after = held \cup {lk}
          BY <4>2, ZenonT(30)
        <5> QED
          BY <3>1, <3>2, <3>3, <4>2, <5>1
      <4> QED
        BY <4>1, <4>2, ZenonT(30)
    <3>6. Len(new) = 2 => ~pushcli(cp).intena
      BY <3>1, <3>2, <3>4, ZenonT(30)
    <3>7. pushcli(cp).proc # None /\ Len(new) = 1 => pushcli(cp).intena
      BY <3>1, <3>2, ZenonT(30)
    <3> QED
      BY <3>2, <3>4, <3>5, <3>6, <3>7, ZenonT(30) DEF Balanced

  \* acquire turns interrupts off, and takes the lock if it is free.
  <2>AcquireInv.
    ASSUME LockInv, NEW c \in setting.cpus, acquire(c)
    PROVE  LockInv'
    <3> USE <2>AcquireInv
    <3> DEFINE f == Top(c)
    <3>1. /\ c \in CPUs /\ cpu[c] \in CpuSet /\ cpu \in [CPUs -> CpuSet]
          /\ lock \in [Locks -> CPUs \cup {None}]
      BY ThreadFacts, ZenonT(30) DEF LockInv, Types
    <3>2. /\ Stack(Thread(c), at[Thread(c)]) /\ f = at[Thread(c)][1] /\ f \in FrameSet
          /\ Balanced(at[Thread(c)], cpu[c], Held(c)) /\ Held(c) = HeldBy(f)
      BY ThreadFacts, ZenonT(30) DEF Balanced
    <3>3. /\ Len(at[Thread(c)]) = 1 => Base(Thread(c), f)
          /\ Len(at[Thread(c)]) = 2 => Handler(Thread(c), f)
          /\ Base(Thread(c), f) \/ Handler(Thread(c), f)
      BY <3>2, Tops
    <3>4. f.pc = "acquire" /\ f.pc \in Waiting /\ f.pc # "spin"
      BY DEF acquire, At, Waiting
    <3>5. /\ f.lk \in Locks /\ f.lk \notin HeldBy(f) /\ f.then \in Pcs /\ f.then # "spin"
          /\ HeldBy(To(f, f.then)) = HeldBy(f) \cup {f.lk}
          /\ Base(Thread(c), f) => Base(Thread(c), To(f, f.then))
          /\ Handler(Thread(c), f) => Handler(Thread(c), To(f, f.then))
      BY <3>2, <3>3, <3>4, Acquired DEF Waiting
    <3>6. OtherTypes' /\ intena' = intena /\ NoSwitch /\ setting' = setting
      BY <1>Quiet, ZenonT(30) DEF acquire
    <3>7. /\ cpu' = [cpu EXCEPT ![c] = pushcli(cpu[c])]
          /\ pushcli(cpu[c]) \in CpuSet /\ pushcli(cpu[c]).proc = cpu[c].proc
      BY <3>1, PushFields, ZenonT(30) DEF acquire
    <3>8. Held(c) \in SUBSET Locks
      BY DEF Held
    <3>9. CASE lock[f.lk] = None
      <4> DEFINE g == To(f, f.then)
      <4>1. g \in FrameSet /\ g.pc = f.then
        BY <3>2, <3>5, ToFields
      <4>2. lock' = [lock EXCEPT ![f.lk] = c] /\ SetTop(c, g)
        BY <3>9, ZenonT(30) DEF acquire
      <4>3. OwnLocks(c) /\ Held(c)' = Held(c) \cup {f.lk}
        BY <3>1, <3>5, <3>9, <4>2, Numbers DEF OwnLocks, Held, holding
      <4> HIDE DEF f, g
      <4>4. /\ Len([at[Thread(c)] EXCEPT ![1] = g]) = Len(at[Thread(c)])
            /\ [at[Thread(c)] EXCEPT ![1] = g][1] = g
        BY <3>2, <4>1, TopShape
      <4>5. /\ HeldBy(g) = HeldBy(f) \cup {f.lk} /\ Held(c)' \in SUBSET Locks
            /\ Base(Thread(c), f) => Base(Thread(c), g)
            /\ Handler(Thread(c), f) => Handler(Thread(c), g)
        BY <3>5, <3>8, <4>3, ZenonT(30) DEF g
      <4>6. Balanced([at[Thread(c)] EXCEPT ![1] = g], pushcli(cpu[c]), Held(c)')
        <5> DEFINE new == [at[Thread(c)] EXCEPT ![1] = g]
        <5>1. /\ Len(new) = Len(at[Thread(c)]) /\ new[1].pc # "spin"
              /\ HeldBy(new[1]) = Held(c)' /\ Held(c)' = Held(c) \cup {f.lk}
          BY <3>2, <3>5, <4>1, <4>3, <4>4, <4>5, ZenonT(30)
        <5>2. f.lk \in Locks /\ f.lk \notin Held(c) /\ at[Thread(c)][1].pc # "spin"
          BY <3>2, <3>4, <3>5, ZenonT(30)
        <5> HIDE DEF new
        <5>3. Balanced(new, pushcli(cpu[c]), Held(c)')
          BY <3>1, <3>2, <3>8, <4>5, <5>1, <5>2, <2>PushBalanced, ZenonT(30)
        <5> QED
          BY <5>3, ZenonT(30) DEF new
      <4> QED
        BY <3>3, <3>6, <3>7, <4>1, <4>2, <4>3, <4>5, <4>6, <1>TopStep, ZenonT(30)
    <3>10. CASE lock[f.lk] # None
      <4> DEFINE g == [f EXCEPT !.pc = "spin"]
      <4>1. /\ g \in FrameSet /\ g.pc = "spin" /\ g.then = f.then /\ g.on = f.on /\ g.lk = f.lk
            /\ g.pc \in Waiting
        BY <3>2 DEF FrameSet, Pcs, Waiting
      <4>2. lock' = lock /\ SetTop(c, g)
        BY <3>10, ZenonT(30) DEF acquire
      <4>3. OwnLocks(c) /\ Held(c)' = Held(c)
        BY <3>1, <4>2, ZenonT(30) DEF OwnLocks, Held, holding
      <4> HIDE DEF f, g
      <4>4. /\ Len([at[Thread(c)] EXCEPT ![1] = g]) = Len(at[Thread(c)])
            /\ [at[Thread(c)] EXCEPT ![1] = g][1] = g
        BY <3>2, <4>1, TopShape
      <4>5. /\ HeldBy(g) = HeldBy(f)
            /\ Base(Thread(c), f) => Base(Thread(c), g)
            /\ Handler(Thread(c), f) => Handler(Thread(c), g)
        <5>1. HeldBy(g) = HeldBy(f)
          BY <3>4, <4>1 DEF HeldBy, HeldBefore, Waiting
        <5>2. Base(Thread(c), f) => Base(Thread(c), g)
          BY <3>4, <4>1 DEF Base, Runs, Wanted
        <5>3. Handler(Thread(c), f) => Handler(Thread(c), g)
          BY <3>4, <4>1 DEF Handler, Runs, Wanted
        <5> QED
          BY <5>1, <5>2, <5>3, ZenonT(30)
      <4>6. Balanced([at[Thread(c)] EXCEPT ![1] = g], pushcli(cpu[c]), Held(c)')
        <5> DEFINE new == [at[Thread(c)] EXCEPT ![1] = g]
        <5>1. /\ Len(new) = Len(at[Thread(c)]) /\ new[1].pc = "spin"
              /\ HeldBy(new[1]) = Held(c)' /\ Held(c)' = Held(c)
          BY <3>2, <4>1, <4>3, <4>4, <4>5, ZenonT(30)
        <5>2. f.lk \in Locks /\ f.lk \notin Held(c) /\ at[Thread(c)][1].pc # "spin"
          BY <3>2, <3>4, <3>5, ZenonT(30)
        <5> HIDE DEF new
        <5>3. Balanced(new, pushcli(cpu[c]), Held(c)')
          BY <3>1, <3>2, <3>8, <5>1, <5>2, <2>PushBalanced, ZenonT(30)
        <5> QED
          BY <5>3, ZenonT(30) DEF new
      <4> QED
        BY <3>3, <3>6, <3>7, <4>1, <4>2, <4>3, <4>5, <4>6, <1>TopStep, ZenonT(30)
    <3> QED
      BY <3>9, <3>10, ZenonT(30)

  \* The lock has come free.
  <2>SpinInv.
    ASSUME LockInv, NEW c \in setting.cpus, spin(c)
    PROVE  LockInv'
    <3> USE <2>SpinInv
    <3> DEFINE f == Top(c)
               g == To(f, f.then)
    <3>1. /\ c \in CPUs /\ cpu[c] \in CpuSet /\ cpu \in [CPUs -> CpuSet]
          /\ lock \in [Locks -> CPUs \cup {None}]
      BY ThreadFacts, ZenonT(30) DEF LockInv, Types
    <3>2. /\ Stack(Thread(c), at[Thread(c)]) /\ f = at[Thread(c)][1] /\ f \in FrameSet
          /\ Balanced(at[Thread(c)], cpu[c], Held(c)) /\ Held(c) = HeldBy(f)
      BY ThreadFacts, ZenonT(30) DEF Balanced
    <3>3. /\ Len(at[Thread(c)]) = 1 => Base(Thread(c), f)
          /\ Len(at[Thread(c)]) = 2 => Handler(Thread(c), f)
          /\ Base(Thread(c), f) \/ Handler(Thread(c), f)
      BY <3>2, Tops
    <3>4. f.pc = "spin" /\ f.pc \in Waiting
      BY DEF spin, At, Waiting
    <3>5. /\ f.lk \in Locks /\ f.lk \notin HeldBy(f) /\ f.then \in Pcs /\ f.then # "spin"
          /\ HeldBy(g) = HeldBy(f) \cup {f.lk}
          /\ Base(Thread(c), f) => Base(Thread(c), g)
          /\ Handler(Thread(c), f) => Handler(Thread(c), g)
      BY <3>2, <3>3, <3>4, Acquired DEF Waiting
    <3>6. OtherTypes' /\ intena' = intena /\ NoSwitch /\ setting' = setting
      BY <1>Quiet, ZenonT(30) DEF spin
    <3>7. g \in FrameSet /\ g.pc = f.then
      BY <3>2, <3>5, ToFields
    <3>8. /\ lock[f.lk] = None /\ lock' = [lock EXCEPT ![f.lk] = c] /\ SetTop(c, g) /\ cpu' = cpu
      BY ZenonT(30) DEF spin
    <3>9. OwnLocks(c) /\ Held(c)' = Held(c) \cup {f.lk} /\ cpu' = [cpu EXCEPT ![c] = cpu[c]]
      BY <3>1, <3>5, <3>8, Numbers DEF OwnLocks, Held, holding
    <3>10. Held(c) \in SUBSET Locks
      BY DEF Held
    <3> HIDE DEF f, g
    <3>11. Cardinality(Held(c) \cup {f.lk}) = Cardinality(Held(c)) + 1 /\ Cardinality(Held(c)) \in Nat
      BY <3>2, <3>5, <3>10, LockCount
    <3>12. /\ Len([at[Thread(c)] EXCEPT ![1] = g]) = Len(at[Thread(c)])
           /\ [at[Thread(c)] EXCEPT ![1] = g][1] = g
      BY <3>2, <3>7, TopShape
    <3>13. Balanced([at[Thread(c)] EXCEPT ![1] = g], cpu[c], Held(c)')
      <4> DEFINE new == [at[Thread(c)] EXCEPT ![1] = g]
      <4>1. /\ Len(new) = Len(at[Thread(c)]) /\ new[1].pc # "spin"
            /\ HeldBy(new[1]) = Held(c)' /\ Held(c)' = Held(c) \cup {f.lk}
        BY <3>2, <3>5, <3>7, <3>9, <3>12, ZenonT(30)
      <4>2. cpu[c].ncli = Cardinality(Held(c)) + 1
        BY <3>2, <3>4, ZenonT(30) DEF Balanced
      <4>3. cpu[c].ncli = Cardinality(Held(c)') + 0
        BY <3>11, <4>1, <4>2
      <4> HIDE DEF new
      <4>4. Balanced(new, cpu[c], Held(c)')
        BY <3>2, <4>1, <4>3, ZenonT(30) DEF Balanced
      <4> QED
        BY <4>4, ZenonT(30) DEF new
    <3> QED
      BY <3>1, <3>3, <3>5, <3>6, <3>7, <3>8, <3>9, <3>13, <1>TopStep, ZenonT(30)

  <2> QED
    BY <2>AcquireInv, <2>SpinInv, ZenonT(30)

\* Frames that belong in a handler.
<1>HandlerTo.
  ASSUME NEW t, NEW f \in FrameSet, NEW pc,
         pc \in TrapCode \/ (t \in Procs /\ pc \in PreemptCode)
  PROVE  /\ Handler(t, To(f, pc)) /\ pc \in Pcs /\ pc # "spin" /\ To(f, pc) \in FrameSet
         /\ To(f, pc).pc = pc
  <2> USE <1>HandlerTo
  <2>1. pc \in Pcs /\ pc \notin Waiting
    BY DEF Pcs, TrapCode, PreemptCode, Waiting
  <2>2. /\ To(f, pc).pc = pc /\ To(f, pc).then = "none" /\ To(f, pc) \in FrameSet
    BY <2>1, ToFields
  <2> QED
    BY <2>1, <2>2 DEF Handler, Runs, Waiting

\* The same for a handler that asks for a lock.
<1>HandlerAcquiring.
  ASSUME NEW t, NEW f \in FrameSet, NEW then, NEW lk \in Locks,
         then \in TrapThen \/ (t \in Procs /\ then \in PreemptThen),
         then = "tick" => lk = "tickslock", then \in {"key", "listed"} => lk = "cons",
         then \in {"tick_wakeup", "key_wakeup", "yield", "exit"} => lk = "ptable"
  PROVE  /\ Handler(t, Acquiring(f, lk, then)) /\ Acquiring(f, lk, then) \in FrameSet
         /\ Acquiring(f, lk, then).pc = "acquire"
         /\ then = "tick_wakeup" => HeldBy(Acquiring(f, lk, then)) = {"tickslock"}
         /\ then = "key_wakeup" => HeldBy(Acquiring(f, lk, then)) = {"cons"}
         /\ then \in {"tick", "key", "listed", "yield", "exit"} =>
              HeldBy(Acquiring(f, lk, then)) = {}
  <2> USE <1>HandlerAcquiring
  <2> DEFINE g == Acquiring(f, lk, then)
  <2>1. then \in Thens
    BY DEF Thens
  <2>2. g \in FrameSet /\ g.pc = "acquire" /\ g.lk = lk /\ g.then = then
    BY <2>1, AcquiringFields
  <2> HIDE DEF g
  <2>3. g.pc \in Waiting
    BY <2>2 DEF Waiting
  <2>4. g.lk = Wanted(g)
    BY <2>2 DEF Wanted, TrapThen, PreemptThen
  <2>5. Handler(t, g)
    BY <2>2, <2>3, <2>4 DEF Handler, Runs
  <2>6. /\ then = "tick_wakeup" => HeldBy(g) = {"tickslock"}
        /\ then = "key_wakeup" => HeldBy(g) = {"cons"}
        /\ then \in {"tick", "key", "listed", "yield", "exit"} => HeldBy(g) = {}
    BY <2>2, <2>3, HeldByThen
  <2> QED
    BY <2>2, <2>5, <2>6, ZenonT(30) DEF g

\* A handler that asks for ptable.lock, to give up the processor.
<1>HandlerLeaves.
  ASSUME NEW t \in Procs, NEW f \in FrameSet, NEW then \in PreemptThen
  PROVE  /\ Handler(t, Acquiring(f, "ptable", then)) /\ Acquiring(f, "ptable", then) \in FrameSet
         /\ Acquiring(f, "ptable", then).pc = "acquire"
         /\ HeldBy(Acquiring(f, "ptable", then)) = {}
  <2> USE <1>HandlerLeaves
  <2>1. then \in {"yield", "exit"} /\ "ptable" \in Locks
    BY DEF PreemptThen, Locks
  <2> QED
    BY <2>1, <1>HandlerAcquiring

\* A handler that asks for ptable.lock, to wake up.
<1>HandlerWakes.
  ASSUME NEW t, NEW f \in FrameSet, NEW then \in {"tick_wakeup", "key_wakeup"}
  PROVE  /\ Handler(t, Acquiring(f, "ptable", then)) /\ Acquiring(f, "ptable", then) \in FrameSet
         /\ Acquiring(f, "ptable", then).pc = "acquire"
         /\ then = "tick_wakeup" => HeldBy(Acquiring(f, "ptable", then)) = {"tickslock"}
         /\ then = "key_wakeup" => HeldBy(Acquiring(f, "ptable", then)) = {"cons"}
  <2> USE <1>HandlerWakes
  <2> DEFINE g == Acquiring(f, "ptable", then)
  <2>1. then \in TrapThen /\ then \in Thens /\ "ptable" \in Locks
    BY DEF TrapThen, Thens, Locks
  <2>2. g \in FrameSet /\ g.pc = "acquire" /\ g.lk = "ptable" /\ g.then = then
    BY <2>1, AcquiringFields
  <2> HIDE DEF g
  <2>3. g.pc \in Waiting /\ g.lk = Wanted(g)
    BY <2>2 DEF Waiting, Wanted
  <2>4. Handler(t, g)
    BY <2>1, <2>2, <2>3, ZenonT(30) DEF Handler, Runs
  <2>5. /\ then = "tick_wakeup" => HeldBy(g) = {"tickslock"}
        /\ then = "key_wakeup" => HeldBy(g) = {"cons"}
    BY <2>2, <2>3, HeldByThen
  <2> QED
    BY <2>2, <2>4, <2>5, ZenonT(30) DEF g

\* A handler that begins.
<1>HandlerEnters.
  ASSUME NEW t, NEW f \in FrameSet, NEW then \in {"tick", "key"}, NEW lk,
         lk = IF then = "tick" THEN "tickslock" ELSE "cons"
  PROVE  /\ Handler(t, Acquiring(f, lk, then)) /\ Acquiring(f, lk, then) \in FrameSet
         /\ Acquiring(f, lk, then).pc = "acquire" /\ HeldBy(Acquiring(f, lk, then)) = {}
  <2> USE <1>HandlerEnters
  <2> DEFINE g == Acquiring(f, lk, then)
  <2>1. then \in TrapThen /\ then \in Thens /\ lk \in Locks
    BY DEF TrapThen, Thens, Locks
  <2>2. g \in FrameSet /\ g.pc = "acquire" /\ g.lk = lk /\ g.then = then
    BY <2>1, AcquiringFields
  <2> HIDE DEF g
  <2>3. g.pc \in Waiting /\ g.lk = Wanted(g)
    BY <2>2 DEF Waiting, Wanted
  <2>4. Handler(t, g)
    BY <2>1, <2>2, <2>3, ZenonT(30) DEF Handler, Runs
  <2>5. HeldBy(g) = {}
    BY <2>2, <2>3, HeldByThen
  <2> QED
    BY <2>2, <2>4, <2>5, ZenonT(30) DEF g

\* Handlers that keep their locks.
<1>Handles.
  \A c \in setting.cpus : LockInv /\ (tick(c) \/ trap_clock(c) \/ \E k \in setting.keys : Key(c, k)) => LockInv'
  \* tick: the clock advances under tickslock.
  <2>TickInv.
    ASSUME LockInv, NEW c \in setting.cpus, tick(c)
    PROVE  LockInv'
    <3> USE <2>TickInv
    <3> DEFINE f == Acquiring(Top(c), "ptable", "tick_wakeup")
    <3>1. Top(c) \in FrameSet /\ Top(c).pc = "tick"
      BY ThreadFacts, ZenonT(30) DEF tick, At
    <3>2. Len(at[Thread(c)]) = 2
      BY <3>1, WhereAt, ZenonT(30) DEF TrapCode
    <3>3. HeldBy(Top(c)) = {"tickslock"} /\ Top(c).pc # "spin"
      BY <3>1, HeldByPc, ZenonT(30)
    <3>4. "ptable" \in Locks /\ "tick_wakeup" \in TrapThen
      BY DEF Locks, TrapThen
    <3>5. /\ f \in FrameSet /\ Handler(Thread(c), f) /\ f.pc = "acquire" /\ HeldBy(f) = {"tickslock"}
      BY <3>1, <1>HandlerWakes, ZenonT(30)
    <3>6. Len(at[Thread(c)]) # 1 /\ f.pc # "spin"
      BY <3>2, <3>5
    <3>7. /\ setting' = setting /\ intena' = intena /\ state' = state /\ chan' = chan
          /\ killed' = killed /\ n' = n /\ lock' = lock /\ cpu' = cpu /\ SetTop(c, f)
      BY ZenonT(30) DEF tick
    <3>8. n \in [Procs -> Nat] /\ done \in [Procs -> Nat]
      BY ZenonT(30) DEF LockInv, Types
    <3>9. done' \in [Procs -> Nat]
      BY <3>8 DEF tick
    <3>10. OtherTypes' /\ NoSwitch
      BY <3>7, <3>9, ZenonT(30) DEF LockInv, Types, OtherTypes, NoSwitch
    <3> HIDE DEF f
    <3> QED
      BY <3>2, <3>3, <3>5, <3>6, <3>7, <3>10, <1>KeepStep, ZenonT(30)

  \* trap_clock: the handler exits, yields or returns.
  <2>TrapClockInv.
    ASSUME LockInv, NEW c \in setting.cpus, trap_clock(c)
    PROVE  LockInv'
    <3> USE <2>TrapClockInv
    <3>1. Top(c) \in FrameSet /\ Top(c).pc = "clock"
      BY ThreadFacts, ZenonT(30) DEF trap_clock, At
    <3>2. Len(at[Thread(c)]) = 2 /\ Len(at[Thread(c)]) # 1
      BY <3>1, WhereAt, OneNotTwo, ZenonT(30) DEF TrapCode
    <3>3. HeldBy(Top(c)) = {} /\ Top(c).pc # "spin"
      BY <3>1, HeldByPc, ZenonT(30)
    <3>4. OtherTypes' /\ intena' = intena /\ NoSwitch /\ setting' = setting /\ lock' = lock /\ cpu' = cpu
      BY <1>Quiet, ZenonT(30) DEF trap_clock
    <3>5. ASSUME NEW f \in FrameSet, SetTop(c, f), Handler(Thread(c), f), f.pc # "spin", HeldBy(f) = {}
          PROVE  LockInv'
      BY <3>2, <3>3, <3>4, <3>5, <1>KeepStep, ZenonT(30)
    <3>6. cpu[c].proc # None => Thread(c) \in Procs
      BY ThreadFacts, ZenonT(30)
    <3>7. /\ "ptable" \in Locks /\ "exit" \in PreemptThen /\ "yield" \in PreemptThen
          /\ "iret" \in TrapCode
      BY DEF Locks, PreemptThen, TrapCode
    <3>8. CASE MustExit(c)
      <4> DEFINE f == Acquiring(Top(c), "ptable", "exit")
      <4>1. f \in FrameSet /\ Handler(Thread(c), f) /\ f.pc = "acquire" /\ HeldBy(f) = {}
        BY <3>1, <3>6, <3>7, <3>8, <1>HandlerLeaves, ZenonT(30) DEF MustExit
      <4>2. SetTop(c, f)
        BY <3>8, ZenonT(30) DEF trap_clock
      <4> HIDE DEF f
      <4>3. f.pc # "spin"
        BY <4>1
      <4> QED
        BY <3>5, <4>1, <4>2, <4>3, ZenonT(30)
    <3>9. CASE ~MustExit(c) /\ cpu[c].proc # None /\ state[cpu[c].proc] = "RUNNING"
      <4> DEFINE f == Acquiring(Top(c), "ptable", "yield")
      <4>1. f \in FrameSet /\ Handler(Thread(c), f) /\ f.pc = "acquire" /\ HeldBy(f) = {}
        BY <3>1, <3>6, <3>7, <3>9, <1>HandlerLeaves, ZenonT(30)
      <4>2. SetTop(c, f)
        BY <3>9, ZenonT(30) DEF trap_clock
      <4> HIDE DEF f
      <4>3. f.pc # "spin"
        BY <4>1
      <4> QED
        BY <3>5, <4>1, <4>2, <4>3, ZenonT(30)
    <3>10. CASE ~MustExit(c) /\ ~(cpu[c].proc # None /\ state[cpu[c].proc] = "RUNNING")
      <4> DEFINE f == To(Top(c), "iret")
      <4>1. f \in FrameSet /\ Handler(Thread(c), f) /\ f.pc = "iret"
        BY <3>1, <3>7, <1>HandlerTo, ZenonT(30)
      <4>2. HeldBy(f) = {} /\ f.pc # "spin"
        BY <4>1, HeldByPc, ZenonT(30)
      <4>3. SetTop(c, f)
        BY <3>10, ZenonT(30) DEF trap_clock
      <4> HIDE DEF f
      <4> QED
        BY <3>5, <4>1, <4>2, <4>3, ZenonT(30)
    <3> QED
      BY <3>8, <3>9, <3>10, ZenonT(30)

  \* One turn of consoleintr's loop, under cons.lock.
  <2>KeyInv.
    ASSUME LockInv, NEW c \in setting.cpus, NEW k, Key(c, k)
    PROVE  LockInv'
    <3> USE <2>KeyInv
    <3> DEFINE f == Top(c)
               dumps == [f EXCEPT !.dump = TRUE]
               wakes == Acquiring(f, "ptable", "key_wakeup")
    <3>1. f \in FrameSet /\ f.pc = "key" /\ Stack(Thread(c), at[Thread(c)]) /\ f = at[Thread(c)][1]
      BY ThreadFacts, ZenonT(30) DEF Key, At
    <3>2. Len(at[Thread(c)]) = 2 /\ Len(at[Thread(c)]) # 1
      BY <3>1, WhereAt, OneNotTwo, ZenonT(30) DEF TrapCode
    <3>3. HeldBy(f) = {"cons"} /\ f.pc # "spin" /\ Handler(Thread(c), f)
      BY <3>1, <3>2, HeldByPc, Tops
    <3>4. OtherTypes' /\ intena' = intena /\ NoSwitch /\ setting' = setting /\ lock' = lock /\ cpu' = cpu
      BY <1>Quiet, ZenonT(30) DEF Key
    <3>5. ASSUME NEW g \in FrameSet, SetTop(c, g), Handler(Thread(c), g), g.pc # "spin",
                 HeldBy(g) = {"cons"}
          PROVE  LockInv'
      BY <3>2, <3>3, <3>4, <3>5, <1>KeepStep, ZenonT(30)
    <3>6. SetTop(c, dumps) \/ SetTop(c, wakes) \/ SetTop(c, f)
      BY ZenonT(30) DEF Key
    <3>7. CASE SetTop(c, dumps)
      <4>1. dumps \in FrameSet /\ dumps.pc = f.pc /\ dumps.then = f.then /\ dumps.on = f.on
        BY <3>1, ZenonT(30) DEF FrameSet
      <4> HIDE DEF dumps, f
      <4>2. HeldBy(dumps) = {"cons"} /\ dumps.pc # "spin"
        BY <3>1, <4>1, HeldByPc, ZenonT(30)
      <4>3. Handler(Thread(c), dumps)
        BY <3>1, <3>3, <4>1 DEF Handler, Runs, Waiting
      <4> QED
        BY <3>5, <3>7, <4>1, <4>2, <4>3, ZenonT(30)
    <3>8. CASE SetTop(c, wakes)
      <4>1. "ptable" \in Locks /\ "key_wakeup" \in TrapThen
        BY DEF Locks, TrapThen
      <4>2. wakes \in FrameSet /\ Handler(Thread(c), wakes) /\ wakes.pc = "acquire"
            /\ HeldBy(wakes) = {"cons"}
        BY <3>1, <1>HandlerWakes, ZenonT(30)
      <4> HIDE DEF wakes
      <4>3. wakes.pc # "spin"
        BY <4>2
      <4> QED
        BY <3>5, <3>8, <4>2, <4>3, ZenonT(30)
    <3>9. CASE SetTop(c, f)
      BY <3>1, <3>3, <3>5, <3>9, ZenonT(30)
    <3> QED
      BY <3>6, <3>7, <3>8, <3>9, ZenonT(30)

  <2> QED
    BY <2>TickInv, <2>TrapClockInv, <2>KeyInv, ZenonT(30)

\* Frames that belong on a process' own stack.
<1>BaseTo.
  ASSUME NEW t \in Procs, NEW f \in FrameSet, NEW pc \in ProcCode,
         pc \in {"loop", "start", "sleep", "woken"} => f.on \in {"cons", "tickslock"}
  PROVE  Base(t, To(f, pc)) /\ pc \in Pcs /\ pc # "spin" /\ To(f, pc) \in FrameSet /\ To(f, pc).pc = pc
  <2> USE <1>BaseTo
  <2>1. pc \in Pcs /\ pc \notin Waiting
    BY DEF Pcs, ProcCode, Waiting
  <2>2. /\ To(f, pc).pc = pc /\ To(f, pc).then = "none" /\ To(f, pc).on = f.on
        /\ To(f, pc) \in FrameSet
    BY <2>1, ToFields
  <2> QED
    BY <2>1, <2>2 DEF Base, Runs, Waiting

\* The same for a process that asks for a lock.
<1>BaseAcquiring.
  ASSUME NEW t \in Procs, NEW f \in FrameSet, NEW then \in ProcThen, NEW lk \in Locks,
         then \in {"loop", "start"} => lk = f.on, then = "put" => lk = "cons",
         then \in {"sleep", "kill", "exit"} => lk = "ptable",
         then = "sleep" => f.on \in {"cons", "tickslock"}
  PROVE  /\ Base(t, Acquiring(f, lk, then)) /\ Acquiring(f, lk, then) \in FrameSet
         /\ Acquiring(f, lk, then).pc = "acquire"
         /\ HeldBy(Acquiring(f, lk, then)) = IF then = "sleep" THEN {f.on} ELSE {}
  <2> USE <1>BaseAcquiring
  <2> DEFINE g == Acquiring(f, lk, then)
  <2>1. then \in Thens
    BY DEF Thens
  <2>2. g \in FrameSet /\ g.pc = "acquire" /\ g.lk = lk /\ g.then = then /\ g.on = f.on
    BY <2>1, AcquiringFields
  <2> HIDE DEF g
  <2>3. g.pc \in Waiting
    BY <2>2 DEF Waiting
  <2>4. g.lk = Wanted(g)
    BY <2>2 DEF Wanted, ProcThen
  <2>5. then \in {"loop", "start"} => g.on \in {"cons", "tickslock"}
    BY <2>2 DEF FrameSet, Locks
  <2>6. Base(t, g)
    BY <2>2, <2>3, <2>4, <2>5 DEF Base, Runs, ProcThen
  <2>7. HeldBy(g) = IF then = "sleep" THEN {f.on} ELSE {}
    BY <2>2, <2>3, HeldByThen DEF ProcThen
  <2> QED
    BY <2>2, <2>6, <2>7, ZenonT(30) DEF g

\* A process goes on in its own code with the locks it has.
<1>BaseKeep.
  ASSUME LockInv, NEW c \in setting.cpus, NEW f \in FrameSet,
         n' \in [Procs -> Nat], done' \in [Procs -> Nat],
         UNCHANGED <<setting, intena, state, chan, killed, lock, cpu>>, SetTop(c, f),
         Top(c).pc \in {"user", "loop", "start", "return"},
         Base(Thread(c), f), f.pc # "spin", HeldBy(f) = HeldBy(Top(c))
  PROVE  LockInv'
  <2> USE <1>BaseKeep
  <2>1. Len(at[Thread(c)]) = 1
    BY WhereAt, ZenonT(30)
  <2>2. Len(at[Thread(c)]) # 2 /\ Top(c).pc # "spin"
    BY <2>1
  <2>3. OtherTypes' /\ NoSwitch
    BY ZenonT(30) DEF LockInv, Types, OtherTypes, NoSwitch
  <2> QED
    BY <2>1, <2>2, <2>3, <1>KeepStep, ZenonT(30)

\* A thread with no lock may have interrupts on.
<1>EnableBalanced.
  ASSUME NEW cp \in CpuSet, NEW np \in CpuSet, NEW old, NEW new,
         Balanced(old, cp, {}), old[1].pc # "spin", Len(new) = 1, new[1].pc # "spin",
         HeldBy(new[1]) = {}, np.ncli = cp.ncli, np.if = TRUE
  PROVE  Balanced(new, np, {})
  <2> USE <1>EnableBalanced
  <2>1. cp.ncli = Cardinality({}) + 0
    BY ZenonT(30) DEF Balanced
  <2>2. Cardinality({}) = 0
    BY OneLock
  <2>3. np.ncli = Cardinality({}) + 0 /\ np.ncli = 0 /\ ~(np.ncli > 0) /\ Len(new) # 2
    BY <2>1, <2>2
  <2> QED
    BY <2>3, ZenonT(30) DEF Balanced

\* System calls begin and return.
<1>Calls.
  \A c \in setting.cpus : LockInv /\ (User(c) \/ syscall_return(c)) => LockInv'
  \* The facts a system call starts from.
  <2>CallFacts.
    ASSUME LockInv, NEW c \in setting.cpus, Top(c).pc \in {"user", "return"}
    PROVE  /\ Top(c) \in FrameSet /\ Thread(c) \in Procs /\ HeldBy(Top(c)) = {}
           /\ Thread(c) = cpu[c].proc
           /\ n \in [Procs -> Nat] /\ done \in [Procs -> Nat]
           /\ \A m \in Nat : /\ [n EXCEPT ![cpu[c].proc] = m] \in [Procs -> Nat]
                             /\ [done EXCEPT ![cpu[c].proc] = m] \in [Procs -> Nat]
    <3> USE <2>CallFacts
    <3>1. Top(c) \in FrameSet /\ n \in [Procs -> Nat] /\ done \in [Procs -> Nat]
      BY ThreadFacts, ZenonT(30) DEF LockInv, Types
    <3>2. Thread(c) \in Procs /\ Thread(c) = cpu[c].proc
      BY WhereAt, ZenonT(30)
    <3>3. HeldBy(Top(c)) = {}
      BY HeldByPc, ZenonT(30)
    <3> QED
      BY <3>1, <3>2, <3>3

  \* read: the process asks for cons.lock.
  <2>SysReadInv.
    ASSUME LockInv, NEW c \in setting.cpus, sys_read(c)
    PROVE  LockInv'
    <3> USE <2>SysReadInv
    <3> DEFINE g == [Top(c) EXCEPT !.on = "cons"]
               f == Acquiring(g, "cons", "loop")
    <3>1. PICK m \in setting.reads :
            /\ Call(c, f)
            /\ n' = [n EXCEPT ![cpu[c].proc] = m]
            /\ done' = [done EXCEPT ![cpu[c].proc] = 0]
      BY ZenonT(30) DEF sys_read
    <3>2. Top(c).pc = "user" /\ SetTop(c, f)
      BY <3>1, ZenonT(30) DEF Call, At
    <3>3. m \in Nat /\ 0 \in Nat
      BY InterruptsAssumption DEF LockInv, Types
    <3>4. /\ Top(c) \in FrameSet /\ Thread(c) \in Procs /\ HeldBy(Top(c)) = {}
          /\ n' \in [Procs -> Nat] /\ done' \in [Procs -> Nat]
      BY <3>1, <3>2, <3>3, <2>CallFacts
    <3>5. g \in FrameSet /\ g.on = "cons"
      BY <3>4, OnFields, ZenonT(30)
    <3>6. "cons" \in Locks /\ "loop" \in ProcThen
      BY DEF Locks, ProcThen
    <3> HIDE DEF g
    <3>7. f \in FrameSet /\ Base(Thread(c), f) /\ f.pc = "acquire" /\ HeldBy(f) = {}
      BY <3>4, <3>5, <3>6, <1>BaseAcquiring
    <3>8. f.pc # "spin" /\ Top(c).pc \in {"user", "loop", "start", "return"}
      BY <3>2, <3>7
    <3>9. UNCHANGED <<setting, intena, state, chan, killed, lock, cpu>>
      BY ZenonT(30) DEF sys_read
    <3> HIDE DEF f
    <3> QED
      BY <3>2, <3>4, <3>7, <3>8, <3>9, <1>BaseKeep, ZenonT(30)

  \* sleep: the process asks for tickslock.
  <2>SysSleepInv.
    ASSUME LockInv, NEW c \in setting.cpus, sys_sleep(c)
    PROVE  LockInv'
    <3> USE <2>SysSleepInv
    <3> DEFINE g == [Top(c) EXCEPT !.on = "tickslock"]
               f == Acquiring(g, "tickslock", "start")
    <3>1. PICK m \in setting.sleeps :
            /\ Call(c, f)
            /\ n' = [n EXCEPT ![cpu[c].proc] = m]
      BY ZenonT(30) DEF sys_sleep
    <3>2. Top(c).pc = "user" /\ SetTop(c, f) /\ done' = done
      BY <3>1, ZenonT(30) DEF Call, At, sys_sleep
    <3>3. m \in Nat
      BY InterruptsAssumption DEF LockInv, Types
    <3>4. /\ Top(c) \in FrameSet /\ Thread(c) \in Procs /\ HeldBy(Top(c)) = {}
          /\ n' \in [Procs -> Nat] /\ done' \in [Procs -> Nat]
      BY <3>1, <3>2, <3>3, <2>CallFacts
    <3>5. g \in FrameSet /\ g.on = "tickslock"
      BY <3>4, OnFields, ZenonT(30)
    <3>6. "tickslock" \in Locks /\ "start" \in ProcThen
      BY DEF Locks, ProcThen
    <3> HIDE DEF g
    <3>7. f \in FrameSet /\ Base(Thread(c), f) /\ f.pc = "acquire" /\ HeldBy(f) = {}
      BY <3>4, <3>5, <3>6, <1>BaseAcquiring
    <3>8. f.pc # "spin" /\ Top(c).pc \in {"user", "loop", "start", "return"}
      BY <3>2, <3>7
    <3>9. UNCHANGED <<setting, intena, state, chan, killed, lock, cpu>>
      BY ZenonT(30) DEF sys_sleep
    <3> HIDE DEF f
    <3> QED
      BY <3>2, <3>4, <3>7, <3>8, <3>9, <1>BaseKeep, ZenonT(30)

  \* write, kill and the exit of a process that was killed before its call.
  <2>SysCallInv.
    ASSUME LockInv, NEW c \in setting.cpus, sys_write(c) \/ sys_kill(c) \/ trap_killed(c)
    PROVE  LockInv'
    <3> USE <2>SysCallInv
    <3>1. /\ Top(c).pc = "user" /\ n' = n /\ done' = done
          /\ UNCHANGED <<setting, intena, state, chan, killed, lock, cpu>>
      BY ZenonT(30) DEF sys_write, sys_kill, trap_killed, Call, At, Procvars
    <3>2. /\ Top(c) \in FrameSet /\ Thread(c) \in Procs /\ HeldBy(Top(c)) = {}
          /\ n' \in [Procs -> Nat] /\ done' \in [Procs -> Nat]
      BY <3>1, <2>CallFacts
    <3>3. \E lk \in Locks, then \in {"put", "kill", "exit"} :
            /\ lk = IF then = "put" THEN "cons" ELSE "ptable"
            /\ SetTop(c, Acquiring(Top(c), lk, then))
      <4>1. CASE sys_write(c)
        BY <4>1, ZenonT(30) DEF sys_write, Call, Locks
      <4>2. CASE sys_kill(c)
        BY <4>2, ZenonT(30) DEF sys_kill, Call, Locks
      <4>3. CASE trap_killed(c)
        BY <4>3 DEF trap_killed, Locks
      <4> QED
        BY <4>1, <4>2, <4>3, ZenonT(30)
    <3>4. PICK lk \in Locks, then \in {"put", "kill", "exit"} :
            /\ lk = IF then = "put" THEN "cons" ELSE "ptable"
            /\ SetTop(c, Acquiring(Top(c), lk, then))
      BY <3>3, ZenonT(30)
    <3> DEFINE f == Acquiring(Top(c), lk, then)
    <3>5. then \in ProcThen /\ then # "sleep"
      BY DEF ProcThen
    <3>6. f \in FrameSet /\ Base(Thread(c), f) /\ f.pc = "acquire" /\ HeldBy(f) = {}
      BY <3>2, <3>4, <3>5, <1>BaseAcquiring
    <3>7. f.pc # "spin" /\ Top(c).pc \in {"user", "loop", "start", "return"}
      BY <3>1, <3>6, ZenonT(30)
    <3>8. SetTop(c, f)
      BY <3>4
    <3> HIDE DEF f
    <3> QED
      BY <3>1, <3>2, <3>6, <3>7, <3>8, <1>BaseKeep, ZenonT(30)

  \* trapret after a system call, or the exit of a process killed meanwhile.
  <2>SyscallReturnInv.
    ASSUME LockInv, NEW c \in setting.cpus, syscall_return(c)
    PROVE  LockInv'
    <3> USE <2>SyscallReturnInv
    <3>1. /\ Top(c).pc = "return" /\ lock' = lock
          /\ n' = [n EXCEPT ![cpu[c].proc] = 0] /\ done' = [done EXCEPT ![cpu[c].proc] = 0]
          /\ UNCHANGED <<setting, intena, state, chan, killed>>
      BY ZenonT(30) DEF syscall_return, At
    <3>2. /\ Top(c) \in FrameSet /\ Thread(c) \in Procs /\ HeldBy(Top(c)) = {} /\ 0 \in Nat
          /\ n' \in [Procs -> Nat] /\ done' \in [Procs -> Nat]
      BY <3>1, <2>CallFacts
    <3>3. CASE killed[cpu[c].proc]
      <4> DEFINE g == [Top(c) EXCEPT !.on = "none"]
                 f == Acquiring(g, "ptable", "exit")
      <4>1. g \in FrameSet
        BY <3>2, OnFields, ZenonT(30)
      <4>2. "ptable" \in Locks /\ "exit" \in ProcThen /\ "exit" \notin {"loop", "start", "put", "sleep"}
        BY DEF Locks, ProcThen
      <4>3. SetTop(c, f) /\ UNCHANGED <<setting, intena, state, chan, killed, lock, cpu>>
        BY <3>1, <3>3, ZenonT(30) DEF syscall_return
      <4> HIDE DEF g
      <4>4. f \in FrameSet /\ Base(Thread(c), f) /\ f.pc = "acquire" /\ HeldBy(f) = {}
        BY <3>2, <4>1, <4>2, <1>BaseAcquiring
      <4> HIDE DEF f
      <4>5. f.pc # "spin" /\ Top(c).pc \in {"user", "loop", "start", "return"}
        BY <3>1, <4>4
      <4> QED
        BY <3>2, <4>3, <4>4, <4>5, <1>BaseKeep, ZenonT(30)
    <3>4. CASE ~killed[cpu[c].proc]
      <4> DEFINE f == Frame("user")
                 cp == [cpu[c] EXCEPT !.if = TRUE]
                 new == [at[Thread(c)] EXCEPT ![1] = f]
      <4>1. SetTop(c, f) /\ cpu' = [cpu EXCEPT ![c].if = TRUE]
        BY <3>4, ZenonT(30) DEF syscall_return
      <4>2. /\ c \in CPUs /\ cpu \in [CPUs -> CpuSet] /\ cpu[c] \in CpuSet
            /\ lock \in [Locks -> CPUs \cup {None}]
            /\ Stack(Thread(c), at[Thread(c)]) /\ Top(c) = at[Thread(c)][1]
            /\ Balanced(at[Thread(c)], cpu[c], Held(c))
        BY ThreadFacts, ZenonT(30) DEF LockInv, Types
      <4>3. Len(at[Thread(c)]) = 1 /\ Len(at[Thread(c)]) # 2
        BY <3>1, WhereAt, OneNotTwo, ZenonT(30)
      <4>4. "user" \in Pcs /\ "user" \in ProcCode
        BY DEF Pcs, ProcCode
      <4>5. f \in FrameSet /\ f.pc = "user" /\ f.then = "none"
        BY <4>4, FrameFields, ZenonT(30)
      <4>6. cp \in CpuSet
        BY <4>2, ZenonT(30) DEF CpuSet
      <4>7. cp.if = TRUE /\ cp.ncli = cpu[c].ncli /\ cp.proc = cpu[c].proc
        BY <4>2 DEF CpuSet
      <4>8. cpu' = [cpu EXCEPT ![c] = cp]
        BY <4>1, <4>2
      <4>9. Len(new) = Len(at[Thread(c)]) /\ new[1] = f
        BY <4>2, <4>5, TopShape
      <4> HIDE DEF f, cp, new
      <4>10. Base(Thread(c), f)
        BY <3>2, <4>4, <4>5 DEF Base, Runs, Waiting
      <4>11. HeldBy(f) = {} /\ f.pc # "spin" /\ Top(c).pc # "spin"
        BY <3>1, <4>5, HeldByPc, ZenonT(30)
      <4>12. OwnLocks(c) /\ Held(c)' = Held(c) /\ Held(c) = {}
        BY <3>1, <3>2, <4>2, ZenonT(30) DEF OwnLocks, Held, holding, Balanced
      <4>13. Balanced(new, cp, Held(c)')
        <5>1. Balanced(at[Thread(c)], cpu[c], {}) /\ at[Thread(c)][1].pc # "spin" /\ Len(new) = 1
              /\ new[1].pc # "spin" /\ HeldBy(new[1]) = {}
          BY <4>2, <4>3, <4>9, <4>11, <4>12, ZenonT(30)
        <5>2. Balanced(new, cp, {})
          BY <4>2, <4>6, <4>7, <5>1, <1>EnableBalanced, ZenonT(30)
        <5> QED
          BY <4>12, <5>2, ZenonT(30)
      <4>14. OtherTypes' /\ NoSwitch
        BY <3>1, <3>2, ZenonT(30) DEF LockInv, Types, OtherTypes, NoSwitch
      <4> QED
        BY <3>1, <4>1, <4>3, <4>5, <4>6, <4>7, <4>8, <4>10, <4>12, <4>13, <4>14, <1>TopStep, ZenonT(30)
           DEF new
    <3> QED
      BY <3>3, <3>4, ZenonT(30)

  <2> QED
    BY <2>SysReadInv, <2>SysSleepInv, <2>SysCallInv, <2>SyscallReturnInv, ZenonT(30) DEF User

\* What system calls do under their locks.
<1>Bodies.
  \A c \in setting.cpus : LockInv /\ (consoleread(c) \/ sleep_start(c) \/ sleep_loop(c) \/ consolewrite(c) \/ kill(c)) => LockInv'
  \* sys_sleep has tickslock and reads the clock.
  <2>SleepStartInv.
    ASSUME LockInv, NEW c \in setting.cpus, sleep_start(c)
    PROVE  LockInv'
    <3> USE <2>SleepStartInv
    <3> DEFINE f == To(Top(c), "loop")
    <3>1. /\ Top(c).pc = "start" /\ SetTop(c, f) /\ n' = n
          /\ done' = [done EXCEPT ![cpu[c].proc] = 0]
          /\ UNCHANGED <<setting, intena, state, chan, killed, lock, cpu>>
      BY ZenonT(30) DEF sleep_start, At
    <3>2. Top(c) \in FrameSet /\ n \in [Procs -> Nat] /\ done \in [Procs -> Nat]
      BY ThreadFacts, ZenonT(30) DEF LockInv, Types
    <3>3. Thread(c) \in Procs /\ Top(c).on \in {"cons", "tickslock"}
      BY <3>1, WhereAt, ZenonT(30)
    <3>4. n' \in [Procs -> Nat] /\ done' \in [Procs -> Nat]
      <4>1. [done EXCEPT ![cpu[c].proc] = 0] \in [Procs -> Nat]
        BY <3>2, ZenonT(30)
      <4> QED
        BY <3>1, <3>2, <4>1, ZenonT(30)
    <3>5. "loop" \in ProcCode /\ "loop" \in Pcs
      BY DEF ProcCode, Pcs
    <3>6. f \in FrameSet /\ Base(Thread(c), f) /\ f.pc = "loop" /\ f.on = Top(c).on
      BY <3>2, <3>3, <3>5, <1>BaseTo, ToFields, ZenonT(30)
    <3>7. HeldBy(Top(c)) = {Top(c).on} /\ HeldBy(f) = {f.on}
      BY <3>1, <3>6, HeldByPc, ZenonT(30)
    <3>8. f.pc # "spin" /\ Top(c).pc \in {"user", "loop", "start", "return"}
      BY <3>1, <3>6
    <3> HIDE DEF f
    <3> QED
      BY <3>1, <3>4, <3>6, <3>7, <3>8, <1>BaseKeep, ZenonT(30)

  \* The loops of read and sleep: sleep asks for ptable.lock, with the lock of its
  \* channel.
  <2>SleepsInv.
    ASSUME LockInv, NEW c \in setting.cpus, Top(c).pc = "loop", Sleeps(c),
           n' \in [Procs -> Nat], done' \in [Procs -> Nat],
           UNCHANGED <<setting, intena, state, chan, killed>>
    PROVE  LockInv'
    <3> USE <2>SleepsInv
    <3> DEFINE f == Acquiring(Top(c), "ptable", "sleep")
    <3>1. SetTop(c, f) /\ UNCHANGED <<setting, intena, state, chan, killed, lock, cpu>>
      BY ZenonT(30) DEF Sleeps
    <3>2. Top(c) \in FrameSet
      BY ThreadFacts, ZenonT(30)
    <3>3. Thread(c) \in Procs /\ Top(c).on \in {"cons", "tickslock"}
      BY WhereAt, ZenonT(30)
    <3>4. "ptable" \in Locks /\ "sleep" \in ProcThen
      BY DEF Locks, ProcThen
    <3>5. f \in FrameSet /\ Base(Thread(c), f) /\ f.pc = "acquire" /\ HeldBy(f) = {Top(c).on}
      BY <3>2, <3>3, <3>4, <1>BaseAcquiring
    <3>6. HeldBy(Top(c)) = {Top(c).on}
      BY HeldByPc, ZenonT(30)
    <3>7. f.pc # "spin" /\ Top(c).pc \in {"user", "loop", "start", "return"}
      BY <3>5
    <3> HIDE DEF f
    <3> QED
      BY <3>1, <3>5, <3>6, <3>7, <1>BaseKeep, ZenonT(30)

  \* A system call lets its only lock go and returns.
  <2>ReturnsInv.
    ASSUME LockInv, NEW c \in setting.cpus, NEW lk, Top(c).pc \in {"loop", "put", "kill"},
           HeldBy(Top(c)) = {lk}, Returns(c, lk),
           OtherTypes', setting' = setting, intena' = intena, NoSwitch
    PROVE  LockInv'
    <3> USE <2>ReturnsInv
    <3> DEFINE f == To(Top(c), "return")
    <3>1. SetTop(c, f) /\ release(c, lk)
      BY ZenonT(30) DEF Returns
    <3>2. Top(c) \in FrameSet
      BY ThreadFacts, ZenonT(30)
    <3>3. Thread(c) \in Procs /\ Len(at[Thread(c)]) = 1
      BY WhereAt, ZenonT(30)
    <3>4. "return" \in ProcCode /\ Len(at[Thread(c)]) # 2 /\ Top(c).pc # "spin"
      BY <3>3 DEF ProcCode
    <3>5. f \in FrameSet /\ Base(Thread(c), f) /\ f.pc = "return"
      BY <3>2, <3>3, <3>4, <1>BaseTo
    <3>6. HeldBy(f) = {} /\ f.pc # "spin"
      BY <3>5, HeldByPc, ZenonT(30)
    <3>7. HeldBy(f) = HeldBy(Top(c)) \ {lk} /\ lk \in HeldBy(Top(c))
      BY <3>6, ZenonT(30)
    <3> HIDE DEF f
    <3> QED
      BY <3>1, <3>4, <3>5, <3>6, <3>7, <1>ReleaseStep, ZenonT(30)

  \* consoleread: it returns, sleeps or takes a character.
  <2>ConsolereadInv.
    ASSUME LockInv, NEW c \in setting.cpus, consoleread(c)
    PROVE  LockInv'
    <3> USE <2>ConsolereadInv
    <3>1. /\ Top(c).pc = "loop" /\ Top(c).on = "cons" /\ n' = n
          /\ UNCHANGED <<setting, intena, state, chan, killed>>
      BY ZenonT(30) DEF consoleread, At
    <3>2. HeldBy(Top(c)) = {"cons"} /\ Top(c).pc \in {"loop", "put", "kill"}
      BY <3>1, HeldByPc, ZenonT(30)
    <3>3. n \in [Procs -> Nat] /\ done \in [Procs -> Nat] /\ cpu[c].proc \in Procs
      BY <3>1, WhereAt, ZenonT(30) DEF LockInv, Types
    <3>4. \/ done' = done
          \/ done' = [done EXCEPT ![cpu[c].proc] = IF NextChar(input) = "eot" THEN @ ELSE @ + 1]
      BY ZenonT(30) DEF consoleread
    <3>5. n' \in [Procs -> Nat] /\ done' \in [Procs -> Nat]
      BY <3>1, <3>3, <3>4
    <3>6. OtherTypes' /\ NoSwitch
      BY <3>1, <3>5, ZenonT(30) DEF LockInv, Types, OtherTypes, NoSwitch
    <3>7. Returns(c, "cons") \/ Sleeps(c) \/ UNCHANGED <<cpu, lock, at>>
      BY ZenonT(30) DEF consoleread
    <3>8. CASE Returns(c, "cons")
      BY <3>1, <3>2, <3>6, <3>8, <2>ReturnsInv
    <3>9. CASE Sleeps(c)
      BY <3>1, <3>5, <3>9, <2>SleepsInv, ZenonT(30)
    <3>10. CASE UNCHANGED <<cpu, lock, at>>
      BY <3>1, <3>6, <3>10, StandStill, ZenonT(30)
    <3> QED
      BY <3>7, <3>8, <3>9, <3>10, ZenonT(30)

  \* The loop of sys_sleep.
  <2>SleepLoopInv.
    ASSUME LockInv, NEW c \in setting.cpus, sleep_loop(c)
    PROVE  LockInv'
    <3> USE <2>SleepLoopInv
    <3>1. /\ Top(c).pc = "loop" /\ Top(c).on = "tickslock" /\ n' = n /\ done' = done
          /\ UNCHANGED <<setting, intena, state, chan, killed>>
      BY ZenonT(30) DEF sleep_loop, At, Procvars
    <3>2. HeldBy(Top(c)) = {"tickslock"} /\ Top(c).pc \in {"loop", "put", "kill"}
      BY <3>1, HeldByPc, ZenonT(30)
    <3>3. OtherTypes' /\ NoSwitch /\ n' \in [Procs -> Nat] /\ done' \in [Procs -> Nat]
      BY <3>1, ZenonT(30) DEF LockInv, Types, OtherTypes, NoSwitch
    <3>4. Returns(c, "tickslock") \/ Sleeps(c)
      BY ZenonT(30) DEF sleep_loop
    <3>5. CASE Returns(c, "tickslock")
      BY <3>1, <3>2, <3>3, <3>5, <2>ReturnsInv
    <3>6. CASE Sleeps(c)
      BY <3>1, <3>3, <3>6, <2>SleepsInv, ZenonT(30)
    <3> QED
      BY <3>4, <3>5, <3>6, ZenonT(30)

  \* consolewrite lets cons.lock go.
  <2>ConsolewriteInv.
    ASSUME LockInv, NEW c \in setting.cpus, consolewrite(c)
    PROVE  LockInv'
    <3> USE <2>ConsolewriteInv
    <3>1. Top(c).pc = "put" /\ Returns(c, "cons") /\ setting' = setting
      BY ZenonT(30) DEF consolewrite, At
    <3>2. HeldBy(Top(c)) = {"cons"} /\ Top(c).pc \in {"loop", "put", "kill"}
      BY <3>1, HeldByPc, ZenonT(30)
    <3>3. OtherTypes' /\ intena' = intena /\ NoSwitch
      BY <3>1, <1>Quiet, ZenonT(30) DEF consolewrite
    <3> QED
      BY <3>1, <3>2, <3>3, <2>ReturnsInv

  \* kill: a sleeper becomes runnable.
  <2>KillInv.
    ASSUME LockInv, NEW c \in setting.cpus, kill(c)
    PROVE  LockInv'
    <3> USE <2>KillInv
    <3>1. /\ Top(c).pc = "kill" /\ Returns(c, "ptable")
          /\ UNCHANGED <<setting, intena, chan, n, done>>
      BY ZenonT(30) DEF kill, At
    <3>2. HeldBy(Top(c)) = {"ptable"} /\ Top(c).pc \in {"loop", "put", "kill"}
      BY <3>1, HeldByPc, ZenonT(30)
    <3>3. PICK q \in setting.procs :
            /\ killed' = [killed EXCEPT ![q] = TRUE]
            /\ state' = IF state[q] = "SLEEPING" THEN [state EXCEPT ![q] = "RUNNABLE"] ELSE state
      BY ZenonT(30) DEF kill
    <3>4. /\ state \in [Procs -> {"UNUSED", "RUNNABLE", "RUNNING", "SLEEPING", "ZOMBIE"}]
          /\ killed \in [Procs -> BOOLEAN] /\ setting \in Settings
      BY ZenonT(30) DEF LockInv, Types
    <3>5. q \in Procs
      BY <3>4, Numbers
    <3>6. killed' \in [Procs -> BOOLEAN]
      BY <3>3, <3>4, ZenonT(30)
    <3>7. /\ state' \in [Procs -> {"UNUSED", "RUNNABLE", "RUNNING", "SLEEPING", "ZOMBIE"}]
          /\ NoSwitch
      BY <3>3, <3>4, <3>5 DEF NoSwitch
    <3>8. OtherTypes'
      BY <3>1, <3>6, <3>7, ZenonT(30) DEF LockInv, Types, OtherTypes
    <3> QED
      BY <3>1, <3>2, <3>7, <3>8, <2>ReturnsInv

  <2> QED
    BY <2>SleepStartInv, <2>ConsolereadInv, <2>SleepLoopInv, <2>ConsolewriteInv, <2>KillInv, ZenonT(30)

\* Steps that let a lock go.
<1>Lets.
  \A c \in setting.cpus : LockInv /\ (\/ key_wakeup(c) \/ tick_wakeup(c) \/ woken(c)
                                      \/ key_end(c) \/ procdump(c) \/ yielded(c)) => LockInv'
  \* wakeup1 makes sleepers runnable and leaves the others.
  <2>Wakes.
    ASSUME LockInv, NEW ch, state' = wakeup1(ch), UNCHANGED <<setting, chan, killed, n>>,
           done' = done
    PROVE  OtherTypes' /\ NoSwitch
    <3> USE <2>Wakes
    <3>1. state \in [Procs -> {"UNUSED", "RUNNABLE", "RUNNING", "SLEEPING", "ZOMBIE"}]
      BY ZenonT(30) DEF LockInv, Types
    <3>2. /\ state' \in [Procs -> {"UNUSED", "RUNNABLE", "RUNNING", "SLEEPING", "ZOMBIE"}]
          /\ NoSwitch
      BY <3>1 DEF wakeup1, NoSwitch
    <3> QED
      BY <3>2, ZenonT(30) DEF LockInv, Types, OtherTypes

  \* A handler lets its only lock go.
  <2>HandlerReleases.
    ASSUME LockInv, NEW c \in setting.cpus, NEW lk, NEW f \in FrameSet,
           Top(c).pc \in {"key", "listed", "yielded", "key_wakeup"}, lk \in HeldBy(Top(c)),
           HeldBy(f) = HeldBy(Top(c)) \ {lk}, f.pc # "spin",
           Handler(Thread(c), f), release(c, lk), SetTop(c, f),
           OtherTypes', setting' = setting, intena' = intena, NoSwitch
    PROVE  LockInv'
    <3> USE <2>HandlerReleases
    <3>1. Len(at[Thread(c)]) = 2
      BY WhereAt, ZenonT(30) DEF TrapCode
    <3>2. Len(at[Thread(c)]) # 1 /\ Top(c).pc # "spin"
      BY <3>1
    <3> QED
      BY <3>1, <3>2, <1>ReleaseStep, ZenonT(30)

  \* key_wakeup: ptable.lock goes, cons.lock stays.
  <2>KeyWakeupInv.
    ASSUME LockInv, NEW c \in setting.cpus, key_wakeup(c)
    PROVE  LockInv'
    <3> USE <2>KeyWakeupInv
    <3> DEFINE f == To(Top(c), "key")
    <3>1. /\ Top(c).pc = "key_wakeup" /\ release(c, "ptable") /\ SetTop(c, f)
          /\ UNCHANGED <<setting, intena, chan, killed, n>> /\ done' = done
          /\ state' = wakeup1("cons")
      BY ZenonT(30) DEF key_wakeup, At, KeyWakes
    <3>2. Top(c) \in FrameSet
      BY ThreadFacts, ZenonT(30)
    <3>3. "key" \in TrapCode
      BY DEF TrapCode
    <3>4. f \in FrameSet /\ Handler(Thread(c), f) /\ f.pc = "key"
      BY <3>2, <3>3, <1>HandlerTo, ZenonT(30)
    <3>5. /\ HeldBy(f) = HeldBy(Top(c)) \ {"ptable"} /\ "ptable" \in HeldBy(Top(c))
          /\ f.pc # "spin" /\ Top(c).pc \in {"key", "listed", "yielded", "key_wakeup"}
      BY <3>1, <3>4, HeldByPc
    <3>6. OtherTypes' /\ NoSwitch
      BY <3>1, <2>Wakes, ZenonT(30)
    <3> HIDE DEF f
    <3> QED
      BY <3>1, <3>4, <3>5, <3>6, <2>HandlerReleases

  \* key_end, procdump and the end of yield let their only lock go.
  <2>HandlerEndInv.
    ASSUME LockInv, NEW c \in setting.cpus, key_end(c) \/ procdump(c) \/ yielded(c)
    PROVE  LockInv'
    <3> USE <2>HandlerEndInv
    <3> DEFINE lk == IF yielded(c) THEN "ptable" ELSE "cons"
    <3>1. setting' = setting /\ OtherTypes' /\ intena' = intena /\ NoSwitch
      BY <1>Quiet, ZenonT(30) DEF key_end, procdump, yielded
    <3>2. Top(c) \in FrameSet /\ Top(c).pc \in {"key", "listed", "yielded", "key_wakeup"}
      BY ThreadFacts DEF key_end, procdump, yielded, At
    <3>3. HeldBy(Top(c)) = {lk} /\ release(c, lk)
      <4>1. CASE yielded(c)
        BY <4>1, HeldByPc, ZenonT(30) DEF yielded, At
      <4>2. CASE ~yielded(c)
        BY <4>2, HeldByPc, ZenonT(30) DEF key_end, procdump, At
      <4> QED
        BY <4>1, <4>2, ZenonT(30)
    <3> HIDE DEF lk
    <3>4. ASSUME NEW f \in FrameSet, SetTop(c, f), Handler(Thread(c), f), f.pc # "spin", HeldBy(f) = {}
          PROVE  LockInv'
      <4>1. lk \in HeldBy(Top(c)) /\ HeldBy(f) = HeldBy(Top(c)) \ {lk}
        BY <3>3, <3>4, ZenonT(30)
      <4> QED
        BY <3>1, <3>2, <3>3, <3>4, <4>1, <2>HandlerReleases, ZenonT(30)
    <3> DEFINE listing == Acquiring([Top(c) EXCEPT !.dump = FALSE], "cons", "listed")
               ends == To(Top(c), "iret")
    <3>5. SetTop(c, listing) \/ SetTop(c, ends)
      BY ZenonT(30) DEF key_end, procdump, yielded
    <3>6. CASE SetTop(c, listing)
      <4>1. [Top(c) EXCEPT !.dump = FALSE] \in FrameSet
        BY <3>2, ZenonT(30) DEF FrameSet
      <4>2. "cons" \in Locks /\ "listed" \in TrapThen
        BY DEF Locks, TrapThen
      <4>3. /\ listing \in FrameSet /\ Handler(Thread(c), listing) /\ listing.pc = "acquire"
            /\ HeldBy(listing) = {}
        BY <4>1, <4>2, <1>HandlerAcquiring, ZenonT(30)
      <4> HIDE DEF listing
      <4>4. listing.pc # "spin"
        BY <4>3, ZenonT(30)
      <4> QED
        BY <3>4, <3>6, <4>3, <4>4, ZenonT(30)
    <3>7. CASE SetTop(c, ends)
      <4>1. "iret" \in TrapCode
        BY DEF TrapCode
      <4>2. ends \in FrameSet /\ Handler(Thread(c), ends) /\ ends.pc = "iret"
        BY <3>2, <4>1, <1>HandlerTo, ZenonT(30)
      <4> HIDE DEF ends
      <4>3. ends.pc # "spin" /\ HeldBy(ends) = {}
        BY <4>2, HeldByPc, ZenonT(30)
      <4> QED
        BY <3>4, <3>7, <4>2, <4>3, ZenonT(30)
    <3> QED
      BY <3>5, <3>6, <3>7, ZenonT(30)

  \* The end of sleep: ptable.lock goes, and the lock of the channel is asked for.
  <2>WokenInv.
    ASSUME LockInv, NEW c \in setting.cpus, woken(c)
    PROVE  LockInv'
    <3> USE <2>WokenInv
    <3> DEFINE f == Acquiring(Top(c), Top(c).on, "loop")
    <3>1. /\ Top(c).pc = "woken" /\ release(c, "ptable") /\ SetTop(c, f)
          /\ UNCHANGED <<setting, intena, state, killed, n>> /\ done' = done
          /\ chan' = [chan EXCEPT ![cpu[c].proc] = None]
      BY ZenonT(30) DEF woken, At
    <3>2. Top(c) \in FrameSet
      BY ThreadFacts, ZenonT(30)
    <3>3. /\ Thread(c) \in Procs /\ Len(at[Thread(c)]) = 1 /\ Top(c).on \in {"cons", "tickslock"}
      BY <3>1, WhereAt, ZenonT(30)
    <3>4. Top(c).on \in Locks /\ "loop" \in ProcThen /\ Len(at[Thread(c)]) # 2 /\ Top(c).pc # "spin"
      BY <3>1, <3>3 DEF Locks, ProcThen
    <3>5. f \in FrameSet /\ Base(Thread(c), f) /\ f.pc = "acquire" /\ HeldBy(f) = {}
      BY <3>2, <3>3, <3>4, <1>BaseAcquiring
    <3>6. HeldBy(f) = HeldBy(Top(c)) \ {"ptable"} /\ "ptable" \in HeldBy(Top(c)) /\ f.pc # "spin"
      BY <3>1, <3>5, HeldByPc, ZenonT(30)
    <3>7. chan \in [Procs -> {"cons", "tickslock", None}]
      BY ZenonT(30) DEF LockInv, Types
    <3>8. chan' \in [Procs -> {"cons", "tickslock", None}]
      <4>1. [chan EXCEPT ![cpu[c].proc] = None] \in [Procs -> {"cons", "tickslock", None}]
        BY <3>7, ZenonT(30)
      <4> QED
        BY <3>1, <4>1, ZenonT(30)
    <3>9. OtherTypes' /\ NoSwitch
      BY <3>1, <3>8, ZenonT(30) DEF LockInv, Types, OtherTypes, NoSwitch
    <3> HIDE DEF f
    <3> QED
      BY <3>1, <3>3, <3>4, <3>5, <3>6, <3>9, <1>ReleaseStep, ZenonT(30)

  \* Interrupts are turned on by popcli only in an interrupted thread's stead:
  \* tickslock is let go after ptable.lock, by the same handler.
  <2>TickWakeupInv.
    ASSUME LockInv, NEW c \in setting.cpus, tick_wakeup(c)
    PROVE  LockInv'
    <3> USE <2>TickWakeupInv
    <3> DEFINE f == To(Top(c), "clock")
               cp == popcli(popcli(cpu[c]))
    <3>1. /\ Top(c).pc = "tick_wakeup" /\ SetTop(c, f)
          /\ UNCHANGED <<setting, intena, chan, killed, n>> /\ done' = done
          /\ state' = wakeup1("tickslock")
          /\ lock' = [lock EXCEPT !["ptable"] = None, !["tickslock"] = None]
          /\ cpu' = [cpu EXCEPT ![c] = cp]
      BY ZenonT(30) DEF tick_wakeup, At
    <3>2. /\ c \in CPUs /\ cpu[c] \in CpuSet /\ lock \in [Locks -> CPUs \cup {None}]
          /\ Top(c) \in FrameSet /\ Stack(Thread(c), at[Thread(c)]) /\ Top(c) = at[Thread(c)][1]
          /\ Balanced(at[Thread(c)], cpu[c], Held(c))
      BY ThreadFacts, ZenonT(30) DEF LockInv, Types
    <3>3. Len(at[Thread(c)]) = 2 /\ Len(at[Thread(c)]) # 1 /\ Top(c).pc # "spin"
      BY <3>1, WhereAt DEF TrapCode
    <3>4. "clock" \in TrapCode
      BY DEF TrapCode
    <3>5. f \in FrameSet /\ Handler(Thread(c), f) /\ f.pc = "clock"
      BY <3>2, <3>4, <1>HandlerTo, ZenonT(30)
    <3>6. HeldBy(f) = {} /\ f.pc # "spin" /\ HeldBy(Top(c)) = {"tickslock", "ptable"}
      BY <3>1, <3>5, HeldByPc, ZenonT(30)
    <3>7. Held(c) = {"tickslock", "ptable"} /\ Held(c) \in SUBSET Locks
      BY <3>2, <3>6, ZenonT(30) DEF Balanced, Held
    <3>8. OwnLocks(c) /\ Held(c)' = {}
      <4>1. lock["ptable"] = c /\ lock["tickslock"] = c
        BY <3>7 DEF Held, holding
      <4> QED
        BY <3>1, <3>2, <3>7, <4>1, Numbers DEF OwnLocks, Held, holding
    <3>9. /\ popcli(cpu[c]) \in CpuSet /\ cp \in CpuSet /\ cp.proc = cpu[c].proc
      BY <3>2, PopFields, ZenonT(30)
    <3>10. OtherTypes' /\ NoSwitch
      BY <3>1, <2>Wakes, ZenonT(30)
    <3>11. Balanced([at[Thread(c)] EXCEPT ![1] = f], cp, {})
      <4> DEFINE half == [at[Thread(c)] EXCEPT ![1] = [Top(c) EXCEPT !.pc = "tick"]]
                 new == [at[Thread(c)] EXCEPT ![1] = f]
      <4>1. /\ [Top(c) EXCEPT !.pc = "tick"] \in FrameSet
            /\ [Top(c) EXCEPT !.pc = "tick"].pc = "tick"
        BY <3>2 DEF FrameSet, Pcs, TrapCode
      <4>2. /\ Len(half) = Len(at[Thread(c)]) /\ half[1].pc = "tick"
            /\ Len(new) = Len(at[Thread(c)]) /\ new[1] = f
        BY <3>2, <3>5, <4>1, TopShape
      <4>3. /\ HeldBy(half[1]) = {"tickslock"} /\ half[1].pc # "spin"
            /\ {"tickslock"} \in SUBSET Locks
        <5>1. {"tickslock"} \in SUBSET Locks
          BY DEF Locks
        <5> HIDE DEF half
        <5> QED
          BY <4>2, <5>1, HeldByPc, ZenonT(30)
      <4>4. /\ Held(c) \ {"ptable"} = {"tickslock"} /\ {"tickslock"} \ {"tickslock"} = {}
            /\ "ptable" \in Held(c) /\ "tickslock" \in {"tickslock"}
        BY <3>7
      <4> HIDE DEF half, new, f
      <4>5. Balanced(half, popcli(cpu[c]), Held(c) \ {"ptable"})
        <5>1. at[Thread(c)][1].pc # "spin" /\ HeldBy(half[1]) = Held(c) \ {"ptable"}
          BY <3>2, <3>3, <4>3, <4>4, ZenonT(30)
        <5> QED
          BY <3>2, <3>7, <4>2, <4>3, <4>4, <5>1, <1>PopBalanced, ZenonT(30)
      <4> DEFINE mid == popcli(cpu[c])
                 last == {"tickslock"}
      <4>6. /\ Balanced(half, mid, last) /\ mid \in CpuSet /\ "tickslock" \in last
            /\ last \in SUBSET Locks /\ half[1].pc # "spin" /\ new[1].pc # "spin"
            /\ Len(new) = Len(half) /\ HeldBy(new[1]) = last \ {"tickslock"}
        BY <3>6, <3>9, <4>2, <4>3, <4>4, <4>5, ZenonT(30)
      <4> HIDE DEF mid, last
      <4>7. Balanced(new, popcli(mid), last \ {"tickslock"})
        BY <4>6, <1>PopBalanced, ZenonT(30)
      <4> QED
        BY <4>4, <4>7, ZenonT(30) DEF new, mid, last
    <3> HIDE DEF f, cp
    <3>12. Balanced([at[Thread(c)] EXCEPT ![1] = f], cp, Held(c)')
      BY <3>8, <3>11, ZenonT(30)
    <3> QED
      BY <3>1, <3>3, <3>5, <3>8, <3>9, <3>10, <3>12, <1>TopStep, ZenonT(30)

  <2> QED
    BY <2>KeyWakeupInv, <2>HandlerEndInv, <2>WokenInv, <2>TickWakeupInv, ZenonT(30)

\* Steps that turn interrupts on.
<1>Enables.
  \A c \in setting.cpus : LockInv /\ (sti(c) \/ forkret(c) \/ iret(c)) => LockInv'
  \* sti() in scheduler().
  <2>StiInv.
    ASSUME LockInv, NEW c \in setting.cpus, sti(c)
    PROVE  LockInv'
    <3> USE <2>StiInv
    <3> DEFINE f == Acquiring(Top(c), "ptable", "pick")
               cp == [[cpu[c] EXCEPT !.if = TRUE] EXCEPT !.p = 1]
               new == [at[Thread(c)] EXCEPT ![1] = f]
    <3>1. /\ Top(c).pc = "sti" /\ SetTop(c, f) /\ lock' = lock
          /\ cpu' = [cpu EXCEPT ![c].if = TRUE, ![c].p = 1]
          /\ setting' = setting /\ OtherTypes' /\ intena' = intena /\ NoSwitch
      BY <1>Quiet, ZenonT(30) DEF sti, At
    <3>2. /\ c \in CPUs /\ cpu \in [CPUs -> CpuSet] /\ cpu[c] \in CpuSet
          /\ lock \in [Locks -> CPUs \cup {None}]
          /\ Top(c) \in FrameSet /\ Stack(Thread(c), at[Thread(c)]) /\ Top(c) = at[Thread(c)][1]
          /\ Balanced(at[Thread(c)], cpu[c], Held(c))
      BY ThreadFacts, ZenonT(30) DEF LockInv, Types
    <3>3. Len(at[Thread(c)]) = 1 /\ Len(at[Thread(c)]) # 2 /\ Thread(c) \notin Procs
      BY <3>1, WhereAt, OneNotTwo, ZenonT(30)
    <3>4. "ptable" \in Locks /\ "pick" \in Thens /\ "pick" \in SchedThen
      BY DEF Locks, Thens, SchedThen
    <3>5. f \in FrameSet /\ f.pc = "acquire" /\ f.lk = "ptable" /\ f.then = "pick"
      BY <3>2, <3>4, AcquiringFields
    <3>6. cpu' = [cpu EXCEPT ![c] = cp]
      BY <3>1, <3>2, ZenonT(30)
    <3>7. cp \in CpuSet
      <4>1. [cpu[c] EXCEPT !.if = TRUE] \in CpuSet
        BY <3>2, ZenonT(30) DEF CpuSet
      <4>2. 1 \in Int
        OBVIOUS
      <4> QED
        BY <4>1, <4>2, ZenonT(30) DEF CpuSet
    <3>8. cp.if = TRUE /\ cp.ncli = cpu[c].ncli /\ cp.proc = cpu[c].proc
      BY <3>2 DEF CpuSet
    <3>9. Len(new) = Len(at[Thread(c)]) /\ new[1] = f
      <4>1. Stack(Thread(c), at[Thread(c)]) /\ f \in FrameSet
        BY <3>2, <3>5, ZenonT(30)
      <4> HIDE DEF f
      <4> QED
        BY <4>1, TopShape
    <3> HIDE DEF f, cp, new
    <3>10. Base(Thread(c), f)
      BY <3>3, <3>4, <3>5 DEF Base, Runs, Waiting, Wanted
    <3>11. HeldBy(f) = {} /\ HeldBy(Top(c)) = {} /\ f.pc # "spin" /\ Top(c).pc # "spin"
      <4>1. f.pc \in Waiting /\ f.then \notin {"sleep", "tick_wakeup", "key_wakeup"}
        BY <3>5 DEF Waiting
      <4> QED
        BY <3>1, <3>5, <4>1, HeldByThen, HeldByPc, ZenonT(30)
    <3>12. OwnLocks(c) /\ Held(c)' = Held(c) /\ Held(c) = {}
      BY <3>1, <3>2, <3>11, ZenonT(30) DEF OwnLocks, Held, holding, Balanced
    <3>13. Balanced(new, cp, Held(c)')
      <4>1. Balanced(at[Thread(c)], cpu[c], {}) /\ at[Thread(c)][1].pc # "spin" /\ Len(new) = 1
            /\ new[1].pc # "spin" /\ HeldBy(new[1]) = {}
        BY <3>2, <3>3, <3>9, <3>11, <3>12, ZenonT(30)
      <4>2. Balanced(new, cp, {})
        BY <3>2, <3>7, <3>8, <4>1, <1>EnableBalanced, ZenonT(30)
      <4> QED
        BY <3>12, <4>2, ZenonT(30)
    <3> QED
      BY <3>1, <3>3, <3>5, <3>6, <3>7, <3>8, <3>10, <3>12, <3>13, <1>TopStep, ZenonT(30) DEF new

  \* forkret: the lock goes, and trapret turns interrupts on.
  <2>ForkretInv.
    ASSUME LockInv, NEW c \in setting.cpus, forkret(c)
    PROVE  LockInv'
    <3> USE <2>ForkretInv
    <3> DEFINE f == Frame("user")
               half == popcli(cpu[c])
               cp == [half EXCEPT !.if = TRUE]
               new == [at[Thread(c)] EXCEPT ![1] = f]
    <3>1. /\ Top(c).pc = "forkret" /\ SetTop(c, f) /\ lock' = [lock EXCEPT !["ptable"] = None]
          /\ cpu' = [cpu EXCEPT ![c] = cp]
          /\ setting' = setting /\ OtherTypes' /\ intena' = intena /\ NoSwitch
      BY <1>Quiet, ZenonT(30) DEF forkret, At
    <3>2. /\ c \in CPUs /\ cpu[c] \in CpuSet
          /\ lock \in [Locks -> CPUs \cup {None}]
          /\ Top(c) \in FrameSet /\ Stack(Thread(c), at[Thread(c)]) /\ Top(c) = at[Thread(c)][1]
          /\ Balanced(at[Thread(c)], cpu[c], Held(c))
      BY ThreadFacts, ZenonT(30) DEF LockInv, Types
    <3>3. Len(at[Thread(c)]) = 1 /\ Len(at[Thread(c)]) # 2 /\ Thread(c) \in Procs
      BY <3>1, WhereAt, OneNotTwo, ZenonT(30)
    <3>4. "user" \in Pcs /\ "user" \in ProcCode
      BY DEF Pcs, ProcCode
    <3>5. f \in FrameSet /\ f.pc = "user" /\ f.then = "none"
      BY <3>4, FrameFields, ZenonT(30)
    <3>6. half \in CpuSet /\ half.proc = cpu[c].proc
      BY <3>2, PopFields, ZenonT(30)
    <3>7. Len(new) = Len(at[Thread(c)]) /\ new[1] = f
      <4>1. Stack(Thread(c), at[Thread(c)]) /\ f \in FrameSet
        BY <3>2, <3>5, ZenonT(30)
      <4> HIDE DEF f
      <4> QED
        BY <4>1, TopShape
    <3> HIDE DEF f, half, new
    <3>8. cp \in CpuSet
      BY <3>6, ZenonT(30) DEF CpuSet
    <3>9. cp.if = TRUE /\ cp.ncli = half.ncli /\ cp.proc = cpu[c].proc
      BY <3>6 DEF CpuSet
    <3>10. Base(Thread(c), f)
      BY <3>3, <3>4, <3>5 DEF Base, Runs, Waiting
    <3>11. HeldBy(f) = {} /\ HeldBy(Top(c)) = {"ptable"} /\ f.pc # "spin" /\ Top(c).pc # "spin"
      BY <3>1, <3>5, HeldByPc, ZenonT(30)
    <3>12. Held(c) = {"ptable"} /\ Held(c) \in SUBSET Locks
      BY <3>2, <3>11, ZenonT(30) DEF Balanced, Held
    <3>13. OwnLocks(c) /\ Held(c)' = {} /\ Held(c) \ {"ptable"} = {} /\ "ptable" \in Held(c)
      BY <3>1, <3>2, <3>12, Numbers DEF OwnLocks, Held, holding
    <3>14. Balanced(new, cp, Held(c)')
      <4>1. /\ at[Thread(c)][1].pc # "spin" /\ Len(new) = Len(at[Thread(c)]) /\ new[1].pc # "spin"
            /\ HeldBy(new[1]) = Held(c) \ {"ptable"}
        BY <3>2, <3>7, <3>11, <3>13, ZenonT(30)
      <4>2. Balanced(new, half, Held(c) \ {"ptable"})
        BY <3>2, <3>12, <3>13, <4>1, <1>PopBalanced, ZenonT(30) DEF half
      <4>3. Balanced(new, half, {}) /\ Len(new) = 1 /\ HeldBy(new[1]) = {}
        BY <3>3, <3>7, <3>11, <3>13, <4>2, ZenonT(30)
      <4>4. Balanced(new, cp, {})
        BY <3>6, <3>8, <3>9, <4>1, <4>3, <1>EnableBalanced, ZenonT(30)
      <4> QED
        BY <3>13, <4>4, ZenonT(30)
    <3> HIDE DEF cp
    <3> QED
      BY <3>1, <3>3, <3>5, <3>8, <3>9, <3>10, <3>13, <3>14, <1>TopStep, ZenonT(30) DEF new

  \* iret: the interrupted code goes on, with interrupts on.
  <2>IretInv.
    ASSUME LockInv, NEW c \in setting.cpus, iret(c)
    PROVE  LockInv'
    <3> USE <2>IretInv
    <3>1. /\ Top(c).pc = "iret" /\ lock' = lock
          /\ setting' = setting /\ OtherTypes' /\ intena' = intena /\ NoSwitch
      BY <1>Quiet, ZenonT(30) DEF iret, At
    <3>2. /\ c \in CPUs /\ cpu \in [CPUs -> CpuSet] /\ cpu[c] \in CpuSet
          /\ lock \in [Locks -> CPUs \cup {None}] /\ Top(c) \in FrameSet
          /\ Stack(Thread(c), at[Thread(c)]) /\ Top(c) = at[Thread(c)][1]
          /\ Balanced(at[Thread(c)], cpu[c], Held(c))
          /\ cpu[c].proc # None => Thread(c) \in Procs
      BY ThreadFacts, ZenonT(30) DEF LockInv, Types
    <3>3. Len(at[Thread(c)]) = 2 /\ Len(at[Thread(c)]) # 1
      BY <3>1, WhereAt, OneNotTwo, ZenonT(30) DEF TrapCode
    <3>4. HeldBy(Top(c)) = {} /\ Top(c).pc # "spin"
      BY <3>1, HeldByPc, ZenonT(30)
    <3>5. CASE MustExit(c)
      <4> DEFINE f == Acquiring(Top(c), "ptable", "exit")
      <4>1. SetTop(c, f) /\ cpu' = cpu /\ Thread(c) \in Procs
        BY <3>2, <3>5, ZenonT(30) DEF iret, MustExit
      <4>2. "ptable" \in Locks /\ "exit" \in PreemptThen
        BY DEF Locks, PreemptThen
      <4>3. f \in FrameSet /\ Handler(Thread(c), f) /\ f.pc = "acquire" /\ HeldBy(f) = {}
        BY <3>2, <4>1, <4>2, <1>HandlerLeaves, ZenonT(30)
      <4> HIDE DEF f
      <4>4. f.pc # "spin"
        BY <4>3
      <4> QED
        BY <3>1, <3>3, <3>4, <4>1, <4>3, <4>4, <1>KeepStep, ZenonT(30)
    <3>6. CASE ~MustExit(c)
      <4> DEFINE new == Tail(at[Thread(c)])
                 cp == [cpu[c] EXCEPT !.if = TRUE]
      <4>1. at' = [at EXCEPT ![Thread(c)] = new] /\ cpu' = [cpu EXCEPT ![c].if = TRUE]
        BY <3>6, ZenonT(30) DEF iret
      <4>2. cp \in CpuSet
        BY <3>2, ZenonT(30) DEF CpuSet
      <4>3. cp.if = TRUE /\ cp.ncli = cpu[c].ncli /\ cp.proc = cpu[c].proc
        BY <3>2 DEF CpuSet
      <4>4. cpu' = [cpu EXCEPT ![c] = cp]
        BY <3>2, <4>1
      <4>5. /\ at[Thread(c)] \in Seq(FrameSet) /\ Base(Thread(c), at[Thread(c)][2])
            /\ HeldBy(at[Thread(c)][2]) = {} /\ at[Thread(c)][2].pc # "spin"
        BY <3>2, <3>3, ZenonT(30) DEF Stack
      <4>6. new \in Seq(FrameSet) /\ Len(new) = 1 /\ new[1] = at[Thread(c)][2]
        BY <3>3, <4>5
      <4> HIDE DEF new, cp
      <4>7. Stack(Thread(c), new)
        BY <4>5, <4>6, ZenonT(30) DEF Stack
      <4>8. OwnLocks(c) /\ Held(c)' = Held(c) /\ Held(c) = {}
        BY <3>1, <3>2, <3>4, ZenonT(30) DEF OwnLocks, Held, holding, Balanced
      <4>9. Balanced(new, cp, Held(c)')
        <5>1. Balanced(at[Thread(c)], cpu[c], {}) /\ at[Thread(c)][1].pc # "spin"
              /\ new[1].pc # "spin" /\ HeldBy(new[1]) = {}
          BY <3>2, <3>4, <4>5, <4>6, <4>8, ZenonT(30)
        <5>2. Balanced(new, cp, {})
          BY <3>2, <4>2, <4>3, <4>6, <5>1, <1>EnableBalanced, ZenonT(30)
        <5> QED
          BY <4>8, <5>2, ZenonT(30)
      <4> QED
        BY <3>1, <4>1, <4>2, <4>3, <4>4, <4>7, <4>8, <4>9, <1>StackStep, ZenonT(30)
    <3> QED
      BY <3>5, <3>6, ZenonT(30)

  <2> QED
    BY <2>StiInv, <2>ForkretInv, <2>IretInv, ZenonT(30)

\* An interrupt begins.
<1>Interrupts.
  \A c \in setting.cpus : LockInv /\ (timer(c) \/ kbdintr(c)) => LockInv'
  \* A stack on top of another.
  <2>Joined.
    ASSUME NEW S, NEW one \in Seq(S), NEW old \in Seq(S)
    PROVE  /\ one \o old \in Seq(S) /\ Len(one \o old) = Len(one) + Len(old)
           /\ \A i \in 1 .. Len(one) + Len(old) :
                (one \o old)[i] = IF i <= Len(one) THEN one[i] ELSE old[i - Len(one)]
    <3>1. one \o old \in Seq(S)
      OBVIOUS
    <3>2. Len(one \o old) = Len(one) + Len(old)
      OBVIOUS
    <3>3. \A i \in 1 .. Len(one) + Len(old) :
            (one \o old)[i] = IF i <= Len(one) THEN one[i] ELSE old[i - Len(one)]
      OBVIOUS
    <3> QED
      BY <3>1, <3>2, <3>3, ZenonT(30)

  \* A frame on top of one frame.
  <2>Pushed.
    ASSUME NEW S, NEW one \in Seq(S), NEW old \in Seq(S), Len(one) = 1, Len(old) = 1
    PROVE  /\ one \o old \in Seq(S) /\ Len(one \o old) = 2
           /\ (one \o old)[1] = one[1] /\ (one \o old)[2] = old[1]
    <3> USE <2>Pushed
    <3> DEFINE both == one \o old
    <3>1. /\ both \in Seq(S) /\ Len(both) = Len(one) + Len(old)
          /\ \A i \in 1 .. Len(one) + Len(old) :
               both[i] = IF i <= Len(one) THEN one[i] ELSE old[i - Len(one)]
      BY <2>Joined, ZenonT(30)
    <3> HIDE DEF both
    <3>2. 1 \in 1 .. Len(one) + Len(old) /\ 2 \in 1 .. Len(one) + Len(old)
      OBVIOUS
    <3>3. /\ both[1] = IF 1 <= Len(one) THEN one[1] ELSE old[1 - Len(one)]
          /\ both[2] = IF 2 <= Len(one) THEN one[2] ELSE old[2 - Len(one)]
      BY <3>1, <3>2, ZenonT(30)
    <3>4. 1 <= Len(one) /\ ~(2 <= Len(one)) /\ 2 - Len(one) = 1 /\ Len(one) + Len(old) = 2
      OBVIOUS
    <3>5. both[1] = one[1] /\ both[2] = old[1]
      BY <3>3, <3>4, ZenonT(30)
    <3> QED
      BY <3>1, <3>4, <3>5, ZenonT(30) DEF both

  \* An interrupt: only code without locks is interrupted, and it is not a handler.
  <2>InterruptInv.
    ASSUME LockInv, NEW c \in setting.cpus, NEW f \in FrameSet, Interrupt(c, f),
           Handler(Thread(c), f), HeldBy(f) = {}, f.pc # "spin"
    PROVE  LockInv'
    <3> USE <2>InterruptInv
    <3> DEFINE new == <<f>> \o at[Thread(c)]
               cp == [cpu[c] EXCEPT !.if = FALSE]
    <3>1. /\ cpu[c].if /\ cpu' = [cpu EXCEPT ![c] = cp] /\ at' = [at EXCEPT ![Thread(c)] = new]
          /\ lock' = lock /\ setting' = setting
      BY DEF Interrupt, Off
    <3>2. OtherTypes' /\ intena' = intena /\ NoSwitch
      BY <3>1, <1>Quiet, ZenonT(30) DEF Interrupt
    <3>3. /\ c \in CPUs /\ cpu[c] \in CpuSet
          /\ lock \in [Locks -> CPUs \cup {None}] /\ Top(c) \in FrameSet
          /\ Stack(Thread(c), at[Thread(c)]) /\ Top(c) = at[Thread(c)][1]
          /\ Balanced(at[Thread(c)], cpu[c], Held(c))
      BY ThreadFacts, ZenonT(30) DEF LockInv, Types
    <3>4. /\ Held(c) = HeldBy(at[Thread(c)][1]) /\ Held(c) \in SUBSET Locks
          /\ cpu[c].ncli = Cardinality(Held(c)) + IF at[Thread(c)][1].pc = "spin" THEN 1 ELSE 0
          /\ ~(cpu[c].ncli > 0) /\ Len(at[Thread(c)]) # 2
      BY <3>1, <3>3, ZenonT(30) DEF Balanced, Held
    <3>5. Cardinality(Held(c)) \in Nat /\ (Cardinality(Held(c)) = 0 => Held(c) = {})
      BY <3>4, LockCount
    <3>6. at[Thread(c)][1].pc # "spin" /\ Held(c) = {} /\ cpu[c].ncli = Cardinality({}) + 0
      <4> DEFINE held == Cardinality(Held(c))
                 spins == at[Thread(c)][1].pc = "spin"
                 ncli == cpu[c].ncli
      <4>1. held \in Nat /\ ncli = held + (IF spins THEN 1 ELSE 0) /\ ~(ncli > 0)
        BY <3>4, <3>5, ZenonT(30)
      <4> HIDE DEF held, spins, ncli
      <4>2. ~spins /\ held = 0 /\ ncli = held + 0
        BY <4>1
      <4> QED
        BY <3>5, <4>2, ZenonT(30) DEF held, spins, ncli
    <3>7. /\ at[Thread(c)] \in Seq(FrameSet) /\ Len(at[Thread(c)]) = 1
          /\ Base(Thread(c), at[Thread(c)][1])
      BY <3>3, <3>4, ZenonT(30) DEF Stack
    <3>8. /\ new \in Seq(FrameSet) /\ Len(new) = 2 /\ new[1] = f /\ new[2] = at[Thread(c)][1]
      <4> DEFINE one == <<f>>
      <4>1. one \in Seq(FrameSet) /\ Len(one) = 1 /\ one[1] = f
        OBVIOUS
      <4> HIDE DEF one
      <4> DEFINE old == at[Thread(c)]
      <4>2. old \in Seq(FrameSet) /\ Len(old) = 1
        BY <3>7, ZenonT(30)
      <4>3. new = one \o old
        BY DEF one
      <4> HIDE DEF new, old
      <4>4. /\ one \o old \in Seq(FrameSet) /\ Len(one \o old) = 2
            /\ (one \o old)[1] = one[1] /\ (one \o old)[2] = old[1]
        BY <4>1, <4>2, <2>Pushed
      <4> QED
        BY <4>1, <4>3, <4>4, ZenonT(30) DEF old
    <3>9. cp \in CpuSet
      BY <3>3, ZenonT(30) DEF CpuSet
    <3>10. ~cp.if /\ cp.ncli = cpu[c].ncli /\ cp.proc = cpu[c].proc
      BY <3>3 DEF CpuSet
    <3> HIDE DEF new, cp
    <3>11. Stack(Thread(c), new)
      BY <3>4, <3>6, <3>7, <3>8, ZenonT(30) DEF Stack
    <3>12. OwnLocks(c) /\ Held(c)' = Held(c)
      BY <3>1, <3>3, ZenonT(30) DEF OwnLocks, Held, holding
    <3>13. Balanced(new, cp, Held(c)')
      <4>1. Len(new) # 1 /\ new[1].pc # "spin" /\ HeldBy(new[1]) = Held(c)' /\ Held(c)' = {}
        BY <3>6, <3>8, <3>12
      <4> QED
        BY <3>4, <3>6, <3>10, <4>1, ZenonT(30) DEF Balanced
    <3> QED
      BY <3>1, <3>2, <3>9, <3>10, <3>11, <3>12, <3>13, <1>StackStep, ZenonT(30)

  \* The clock and the keyboard.
  <2>TimerInv.
    ASSUME LockInv, NEW c \in setting.cpus, timer(c) \/ kbdintr(c)
    PROVE  LockInv'
    <3> USE <2>TimerInv
    <3>1. "acquire" \in Pcs /\ "clock" \in Pcs /\ "clock" \in TrapCode
      BY DEF Pcs, Waiting, TrapCode
    <3>2. Frame("acquire") \in FrameSet /\ Frame("clock") \in FrameSet
          /\ Frame("clock").pc = "clock" /\ Frame("clock").then = "none"
      BY <3>1, FrameFields, ZenonT(30)
    <3>3. \E f \in FrameSet : Interrupt(c, f) /\ Handler(Thread(c), f) /\ HeldBy(f) = {} /\ f.pc # "spin"
      <4>1. CASE Interrupt(c, Frame("clock"))
        <5>1. Handler(Thread(c), Frame("clock"))
          BY <3>1, <3>2 DEF Handler, Runs, Waiting
        <5>2. HeldBy(Frame("clock")) = {} /\ Frame("clock").pc # "spin"
          BY <3>2, HeldByPc, ZenonT(30)
        <5> QED
          BY <3>2, <4>1, <5>1, <5>2, ZenonT(30)
      <4>2. ASSUME NEW lk \in Locks, NEW then \in {"tick", "key"},
                   lk = IF then = "tick" THEN "tickslock" ELSE "cons",
                   Interrupt(c, Acquiring(Frame("acquire"), lk, then))
            PROVE  \E f \in FrameSet : /\ Interrupt(c, f) /\ Handler(Thread(c), f)
                                       /\ HeldBy(f) = {} /\ f.pc # "spin"
        <5> DEFINE f == Acquiring(Frame("acquire"), lk, then)
        <5>1. f \in FrameSet /\ Handler(Thread(c), f) /\ f.pc = "acquire" /\ HeldBy(f) = {}
          BY <3>2, <4>2, <1>HandlerEnters, ZenonT(30)
        <5>2. f.pc # "spin"
          BY <5>1
        <5> HIDE DEF f
        <5>3. Interrupt(c, f)
          BY <4>2, ZenonT(30) DEF f
        <5> QED
          BY <5>1, <5>2, <5>3, ZenonT(30)
      <4>3. "tickslock" \in Locks /\ "cons" \in Locks
        BY DEF Locks
      <4>4. \/ Interrupt(c, Frame("clock"))
            \/ Interrupt(c, Acquiring(Frame("acquire"), "tickslock", "tick"))
            \/ Interrupt(c, Acquiring(Frame("acquire"), "cons", "key"))
        BY ZenonT(30) DEF timer, kbdintr
      <4> QED
        BY <4>1, <4>2, <4>3, <4>4
    <3> QED
      BY <3>3, <2>InterruptInv, ZenonT(30)

  <2> QED
    BY <2>TimerInv, ZenonT(30)

\* A process leaves its processor.
<1>Switches.
  \A c \in setting.cpus : LockInv /\ (sleep(c) \/ yield(c) \/ exit(c)) => LockInv'
  \* A process leaves its processor to the scheduler, with ptable.lock and that
  \* lock only.
  <2>LeaveStep.
    ASSUME LockInv, NEW c \in setting.cpus, NEW frames, NEW cp \in CpuSet, NEW s,
           cpu[c].proc # None, OtherTypes', setting' = setting,
           OwnLocks(c), Held(c)' = {"ptable"},
           at' = [at EXCEPT ![Thread(c)] = frames], Stack(Thread(c), frames),
           cpu' = [cpu EXCEPT ![c] = cp], cp.proc = None, cp.ncli = 1, ~cp.if,
           intena' = [intena EXCEPT ![Thread(c)] = cp.intena],
           state' = [state EXCEPT ![Thread(c)] = s],
           s \in {"RUNNABLE", "SLEEPING"} =>
             /\ frames[1].pc \in {"forkret", "woken", "yielded"}
             /\ s = "SLEEPING" => frames[1].pc = "woken"
             /\ cp.intena <=> Len(frames) = 1
    PROVE  LockInv'
    <3> USE <2>LeaveStep
    <3>1. /\ Types /\ Stacks /\ Placed /\ CpusBalanced
          /\ cpu \in [CPUs -> CpuSet] /\ DOMAIN at = Threads /\ intena \in [Procs -> BOOLEAN]
          /\ state \in [Procs -> {"UNUSED", "RUNNABLE", "RUNNING", "SLEEPING", "ZOMBIE"}]
      BY ZenonT(30) DEF LockInv, Types
    <3>2. /\ c \in CPUs /\ setting.cpus \subseteq CPUs /\ Thread(c) \in Threads
          /\ Thread(c) = cpu[c].proc /\ Thread(c) \in Procs
          /\ \A d \in CPUs : Thread(d) \in Threads /\ (d # c => Thread(d) # Thread(c))
      BY ThreadFacts, ZenonT(30)
    <3>3. /\ DOMAIN at' = Threads /\ at'[Thread(c)] = frames
          /\ \A t \in Threads : t # Thread(c) => at'[t] = at[t]
      BY <3>1, <3>2, ZenonT(30)
    <3>4. /\ cpu' \in [CPUs -> CpuSet] /\ cpu'[c] = cp
          /\ \A d \in CPUs : d # c => cpu'[d] = cpu[d]
      BY <3>1, <3>2
    <3>5. Thread(c)' = Sched(c) /\ \A d \in CPUs : d # c => Thread(d)' = Thread(d)
      BY <3>2, <3>4, ZenonT(30) DEF Thread, Sched
    <3>6. cp.intena \in BOOLEAN
      BY ZenonT(30) DEF CpuSet
    <3>7. /\ intena' \in [Procs -> BOOLEAN] /\ (intena'[Thread(c)] <=> cp.intena)
          /\ \A q \in Procs : q # Thread(c) => (intena'[q] <=> intena[q])
      BY <3>1, <3>2, <3>6, ZenonT(30)
    <3>8. state'[Thread(c)] = s /\ \A q \in Procs : q # Thread(c) => state'[q] = state[q]
      BY <3>1, <3>2, ZenonT(30)
    <3>9. Types'
      BY <3>1, <3>3, <3>4, <3>7, ZenonT(30) DEF Types, OtherTypes, OwnLocks
    <3>10. Stacks'
      BY <3>1, <3>3, ZenonT(30) DEF Stacks
    <3>11. \A d \in CPUs : Sched(d) # Thread(c) /\ Sched(d) \in Threads /\ at'[Sched(d)] = at[Sched(d)]
      <4>1. ASSUME NEW d \in CPUs PROVE Sched(d) \in Threads /\ Sched(d) \notin Procs
        BY Numbers, ZenonT(30)
      <4>2. \A t \in Threads : t \notin Procs => t # Thread(c) /\ at'[t] = at[t]
        BY <3>2, <3>3, ZenonT(30)
      <4> QED
        BY <4>1, <4>2, ZenonT(30)
    <3>12. Placed'
      <4>1. ASSUME NEW d \in CPUs, cpu'[d].proc # None
            PROVE  /\ state'[cpu'[d].proc] = "RUNNING"
                   /\ Len(at'[Sched(d)]) = 1 /\ at'[Sched(d)][1].pc = "pick"
        <5>1. d # c /\ cpu'[d] = cpu[d]
          BY <3>4, <4>1, ZenonT(30)
        <5>2. /\ cpu[d].proc # None /\ state[cpu[d].proc] = "RUNNING"
              /\ Len(at[Sched(d)]) = 1 /\ at[Sched(d)][1].pc = "pick"
          BY <3>1, <4>1, <5>1, ZenonT(30) DEF Placed
        <5>3. cpu[d].proc \in Procs
          BY <3>1, <5>2 DEF CpuSet
        <5>4. cpu[d].proc # Thread(c)
          <6>1. cpu[d].proc = cpu[c].proc => d = c
            BY <3>1, <3>2, <5>2, ZenonT(30) DEF Placed
          <6> QED
            BY <3>2, <5>1, <6>1, ZenonT(30)
        <5> QED
          BY <3>8, <3>11, <5>1, <5>2, <5>3, <5>4, ZenonT(30)
      <4>2. ASSUME NEW p \in Procs, state'[p] \in {"RUNNABLE", "SLEEPING"} PROVE Parked(p)'
        <5>1. CASE p = Thread(c)
          <6>1. at'[p] = frames /\ state'[p] = s /\ (intena'[p] <=> cp.intena)
            BY <3>3, <3>7, <3>8, <5>1, ZenonT(30)
          <6>2. s \in {"RUNNABLE", "SLEEPING"}
            BY <4>2, <6>1, ZenonT(30)
          <6> QED
            BY <6>1, <6>2, ZenonT(30) DEF Parked
        <5>2. CASE p # Thread(c)
          <6>1. Parked(p) /\ p \in Threads
            BY <3>1, <3>8, <4>2, <5>2, Numbers, ZenonT(30) DEF Placed
          <6>2. at'[p] = at[p] /\ state'[p] = state[p] /\ (intena'[p] <=> intena[p])
            BY <3>3, <3>7, <3>8, <5>2, <6>1, ZenonT(30)
          <6> QED
            BY <6>1, <6>2, ZenonT(30) DEF Parked
        <5> QED
          BY <5>1, <5>2, ZenonT(30)
      <4>3. ASSUME NEW d \in CPUs, NEW e \in CPUs, cpu'[d].proc # None, cpu'[d].proc = cpu'[e].proc
            PROVE  d = e
        <5>1. cpu'[d] = cpu[d] /\ cpu'[e] = cpu[e]
          BY <3>4, <4>3, ZenonT(30)
        <5> QED
          BY <3>1, <4>3, <5>1, ZenonT(30) DEF Placed
      <4> QED
        BY <4>1, <4>2, <4>3, ZenonT(30) DEF Placed
    <3>13. CpusBalanced'
      <4>1. Balanced(at'[Sched(c)], cpu'[c], Held(c)')
        <5>1. Len(at[Sched(c)]) = 1 /\ at[Sched(c)][1].pc = "pick"
          BY <3>1, <3>2, ZenonT(30) DEF Placed
        <5>2. HeldBy(at[Sched(c)][1]) = {"ptable"}
          BY <5>1, HeldByPc, ZenonT(30)
        <5>3. Cardinality({"ptable"}) = 1
          BY OneLock, ZenonT(30)
        <5>4. /\ at[Sched(c)][1].pc # "spin" /\ Len(at[Sched(c)]) # 2
              /\ cp.ncli = Cardinality({"ptable"}) + 0
          BY <5>1, <5>3
        <5>5. Balanced(at[Sched(c)], cp, {"ptable"})
          BY <5>2, <5>4, ZenonT(30) DEF Balanced
        <5> QED
          BY <3>2, <3>4, <3>11, <5>5, ZenonT(30)
      <4>2. ASSUME NEW d \in setting.cpus, d # c PROVE Balanced(at'[Thread(d)], cpu'[d], Held(d)')
        <5>1. Held(d)' = Held(d) /\ at'[Thread(d)] = at[Thread(d)] /\ cpu'[d] = cpu[d]
          BY <3>2, <3>3, <3>4, <4>2, <1>OthersHold, ZenonT(30)
        <5> QED
          BY <3>1, <5>1, ZenonT(30) DEF CpusBalanced
      <4>3. /\ at'[Thread(c)'] = at'[Sched(c)]
            /\ \A d \in setting.cpus : d # c => at'[Thread(d)'] = at'[Thread(d)]
        BY <3>2, <3>5, ZenonT(30)
      <4> QED
        BY <4>1, <4>2, <4>3, ZenonT(30) DEF CpusBalanced
    <3> QED
      BY <3>9, <3>10, <3>12, <3>13, ZenonT(30) DEF LockInv

  \* The facts sched() starts from.
  <2>LeaveFacts.
    ASSUME LockInv, NEW c \in setting.cpus, Top(c).pc \in {"sleep", "yield", "exit"}
    PROVE  /\ c \in CPUs /\ cpu[c] \in CpuSet /\ lock \in [Locks -> CPUs \cup {None}]
           /\ Top(c) \in FrameSet /\ Stack(Thread(c), at[Thread(c)]) /\ Top(c) = at[Thread(c)][1]
           /\ cpu[c].proc # None /\ Thread(c) = cpu[c].proc /\ Thread(c) \in Procs
           /\ Held(c) = HeldBy(Top(c)) /\ Held(c) \in SUBSET Locks
           /\ cpu[c].ncli = Cardinality(Held(c)) /\ ~cpu[c].if
           /\ cpu[c].intena <=> Len(at[Thread(c)]) = 1
    <3> USE <2>LeaveFacts
    <3>1. /\ c \in CPUs /\ cpu[c] \in CpuSet /\ lock \in [Locks -> CPUs \cup {None}]
          /\ Top(c) \in FrameSet /\ Stack(Thread(c), at[Thread(c)]) /\ Top(c) = at[Thread(c)][1]
          /\ Balanced(at[Thread(c)], cpu[c], Held(c))
      BY ThreadFacts, ZenonT(30) DEF LockInv, Types
    <3>2. Thread(c) \in Procs /\ Thread(c) = cpu[c].proc
      BY WhereAt, ZenonT(30)
    <3>3. cpu[c].proc # None
      BY <3>2, Numbers, ZenonT(30)
    <3>4. Held(c) = HeldBy(Top(c)) /\ Held(c) \in SUBSET Locks
      BY <3>1, ZenonT(30) DEF Balanced, Held
    <3>5. "ptable" \in HeldBy(Top(c)) /\ Top(c).pc # "spin"
      BY HeldByPc, ZenonT(30)
    <3>6. Cardinality(Held(c)) \in Nat /\ Cardinality(Held(c)) # 0
      BY <3>4, <3>5, LockCount
    <3>7. cpu[c].ncli = Cardinality(Held(c)) + 0
      BY <3>1, <3>5, ZenonT(30) DEF Balanced
    <3>8. cpu[c].ncli = Cardinality(Held(c)) /\ cpu[c].ncli > 0 /\ cpu[c].ncli # 0
      BY <3>6, <3>7
    <3>9. ~cpu[c].if
      BY <3>1, <3>8, ZenonT(30) DEF Balanced
    <3>10. Len(at[Thread(c)]) \in {1, 2}
      BY <3>1, Tops, ZenonT(30)
    <3>11. /\ Len(at[Thread(c)]) = 2 => ~cpu[c].intena
           /\ Len(at[Thread(c)]) = 1 => cpu[c].intena
      BY <3>1, <3>3, <3>8, ZenonT(30) DEF Balanced
    <3>12. (Len(at[Thread(c)]) = 1 \/ Len(at[Thread(c)]) = 2) /\ ~(Len(at[Thread(c)]) = 1 /\ Len(at[Thread(c)]) = 2)
      BY <3>10
    <3>13. cpu[c].intena <=> Len(at[Thread(c)]) = 1
      BY <3>11, <3>12, ZenonT(30)
    <3> QED
      BY <3>1, <3>2, <3>3, <3>4, <3>8, <3>9, <3>13, ZenonT(30)

  \* sleep: the channel's lock goes, and the process waits in sleep().
  <2>SleepInv.
    ASSUME LockInv, NEW c \in setting.cpus, sleep(c)
    PROVE  LockInv'
    <3> USE <2>SleepInv
    <3> DEFINE f == To(Top(c), "woken")
               lk == Top(c).on
               half == popcli(cpu[c])
               cp == [half EXCEPT !.proc = None]
               new == [at[Thread(c)] EXCEPT ![1] = f]
    <3>1. /\ Top(c).pc = "sleep" /\ lock' = [lock EXCEPT ![lk] = None]
          /\ chan' = [chan EXCEPT ![cpu[c].proc] = lk]
          /\ state' = [state EXCEPT ![cpu[c].proc] = "SLEEPING"]
          /\ Switch(c, half) /\ SetTop(c, f)
          /\ UNCHANGED <<setting, killed, n>> /\ done' = done
      BY ZenonT(30) DEF sleep, At
    <3>2. /\ c \in CPUs /\ cpu[c] \in CpuSet /\ lock \in [Locks -> CPUs \cup {None}]
          /\ Top(c) \in FrameSet /\ Stack(Thread(c), at[Thread(c)]) /\ Top(c) = at[Thread(c)][1]
          /\ cpu[c].proc # None /\ Thread(c) = cpu[c].proc /\ Thread(c) \in Procs
          /\ Held(c) = HeldBy(Top(c)) /\ Held(c) \in SUBSET Locks
          /\ cpu[c].ncli = Cardinality(Held(c)) /\ ~cpu[c].if
          /\ cpu[c].intena <=> Len(at[Thread(c)]) = 1
      <4>1. Top(c).pc \in {"sleep", "yield", "exit"}
        BY <3>1, ZenonT(30)
      <4> QED
        BY <4>1, <2>LeaveFacts, ZenonT(30)
    <3>3. Len(at[Thread(c)]) = 1 /\ Len(at[Thread(c)]) # 2 /\ lk \in {"cons", "tickslock"}
      BY <3>1, WhereAt, OneNotTwo, ZenonT(30)
    <3>4. Held(c) = {lk, "ptable"} /\ lk \in Held(c)
      <4>1. HeldBy(Top(c)) = {lk, "ptable"}
        BY <3>1, HeldByPc, ZenonT(30)
      <4>2. Held(c) = {lk, "ptable"}
        BY <3>2, <4>1, ZenonT(30)
      <4> QED
        BY <4>2, ZenonT(30)
    <3>5. cpu[c].ncli = 2
      <4>1. Held(c) \ {lk} = {"ptable"}
        BY <3>3, <3>4
      <4>2. Cardinality({"ptable"}) = 1
        BY OneLock
      <4>3. Cardinality(Held(c)) - 1 = 1 /\ Cardinality(Held(c)) \in Nat
        <5>1. Cardinality(Held(c)) \in Nat /\ Cardinality(Held(c) \ {lk}) = Cardinality(Held(c)) - 1
          BY <3>2, <3>4, LockCount, ZenonT(30)
        <5> QED
          BY <4>1, <4>2, <5>1
      <4> QED
        BY <3>2, <4>3
    <3>6. /\ half \in CpuSet /\ half.ncli = cpu[c].ncli - 1 /\ half.intena = cpu[c].intena
          /\ half.if <=> cpu[c].if \/ (cpu[c].ncli = 1 /\ cpu[c].intena)
      BY <3>2, PopFields, ZenonT(30)
    <3> HIDE DEF half
    <3>7. half.ncli = 1 /\ cpu[c].ncli # 1
      BY <3>5, <3>6
    <3>8. ~half.if
      BY <3>2, <3>6, <3>7, ZenonT(30)
    <3>9. /\ cp \in CpuSet /\ cp.proc = None /\ cp.ncli = 1 /\ ~cp.if /\ cp.intena = cpu[c].intena
          /\ cp.intena = half.intena
      BY <3>6, <3>7, <3>8, NoProcFields, ZenonT(30)
    <3>10. /\ intena' = [intena EXCEPT ![Thread(c)] = cp.intena] /\ cpu' = [cpu EXCEPT ![c] = cp]
      BY <3>1, <3>2, <3>9, ZenonT(30) DEF Switch
    <3>11. "woken" \in ProcCode
      BY DEF ProcCode
    <3>12. f \in FrameSet /\ f.pc = "woken" /\ Base(Thread(c), f)
      BY <3>2, <3>3, <3>11, <1>BaseTo, ZenonT(30)
    <3>13. Stack(Thread(c), new) /\ Len(new) = 1 /\ new[1] = f
      <4>1. Stack(Thread(c), new)
        BY <3>2, <3>3, <3>12, <1>NewTop, ZenonT(30)
      <4>2. Len(new) = Len(at[Thread(c)]) /\ new[1] = f
        <5>1. Stack(Thread(c), at[Thread(c)]) /\ f \in FrameSet
          BY <3>2, <3>12, ZenonT(30)
        <5> HIDE DEF f
        <5> QED
          BY <5>1, TopShape
      <4> QED
        BY <3>3, <4>1, <4>2, ZenonT(30)
    <3>14. at' = [at EXCEPT ![Thread(c)] = new]
      BY <3>1 DEF SetTop
    <3> HIDE DEF f, lk, cp, new
    <3>15. OwnLocks(c) /\ Held(c)' = {"ptable"}
      <4>1. lk \in Locks /\ lk # "ptable" /\ lock[lk] = c
        BY <3>3, <3>4 DEF Locks, Held, holding
      <4>2. OwnLocks(c) /\ Held(c)' = Held(c) \ {lk}
        BY <3>1, <3>2, <4>1, Numbers, ZenonT(30) DEF OwnLocks, Held, holding
      <4> QED
        BY <3>4, <4>1, <4>2
    <3>16. OtherTypes'
      <4>1. /\ chan \in [Procs -> {"cons", "tickslock", None}]
            /\ state \in [Procs -> {"UNUSED", "RUNNABLE", "RUNNING", "SLEEPING", "ZOMBIE"}]
        BY ZenonT(30) DEF LockInv, Types
      <4>2. lk \in {"cons", "tickslock", None}
        BY <3>3
      <4>3. chan' \in [Procs -> {"cons", "tickslock", None}]
        BY <3>1, <4>1, <4>2, ZenonT(30)
      <4>4. state' \in [Procs -> {"UNUSED", "RUNNABLE", "RUNNING", "SLEEPING", "ZOMBIE"}]
        <5>1. "SLEEPING" \in {"UNUSED", "RUNNABLE", "RUNNING", "SLEEPING", "ZOMBIE"}
          OBVIOUS
        <5> QED
          BY <3>1, <4>1, <5>1, ZenonT(30)
      <4> QED
        BY <3>1, <4>3, <4>4, ZenonT(30) DEF LockInv, Types, OtherTypes
    <3>17. /\ new[1].pc \in {"forkret", "woken", "yielded"} /\ new[1].pc = "woken"
           /\ cp.intena <=> Len(new) = 1
      BY <3>2, <3>3, <3>9, <3>12, <3>13, ZenonT(30)
    <3>18. setting' = setting /\ state' = [state EXCEPT ![Thread(c)] = "SLEEPING"]
      BY <3>1, <3>2, ZenonT(30)
    <3> QED
      BY <3>2, <3>9, <3>10, <3>13, <3>14, <3>15, <3>16, <3>17, <3>18, <2>LeaveStep, ZenonT(30)

  \* yield and exit keep only ptable.lock.
  <2>YieldInv.
    ASSUME LockInv, NEW c \in setting.cpus, yield(c) \/ exit(c)
    PROVE  LockInv'
    <3> USE <2>YieldInv
    <3> DEFINE cp == [cpu[c] EXCEPT !.proc = None]
    <3>1. /\ Top(c).pc \in {"yield", "exit"} /\ Top(c).pc \in {"sleep", "yield", "exit"}
          /\ setting' = setting
      BY ZenonT(30) DEF yield, exit, At
    <3>2. /\ Switch(c, cpu[c]) /\ lock' = lock /\ UNCHANGED <<chan, killed, n>> /\ done' = done
      BY ZenonT(30) DEF yield, exit
    <3>3. /\ c \in CPUs /\ cpu[c] \in CpuSet /\ lock \in [Locks -> CPUs \cup {None}]
          /\ Top(c) \in FrameSet /\ Stack(Thread(c), at[Thread(c)]) /\ Top(c) = at[Thread(c)][1]
          /\ cpu[c].proc # None /\ Thread(c) = cpu[c].proc /\ Thread(c) \in Procs
          /\ Held(c) = HeldBy(Top(c)) /\ Held(c) \in SUBSET Locks
          /\ cpu[c].ncli = Cardinality(Held(c)) /\ ~cpu[c].if
          /\ cpu[c].intena <=> Len(at[Thread(c)]) = 1
      BY <3>1, <2>LeaveFacts, ZenonT(30)
    <3>4. Held(c) = {"ptable"}
      BY <3>1, <3>3, HeldByPc, ZenonT(30)
    <3>5. Cardinality({"ptable"}) = 1
      BY OneLock
    <3>6. cpu[c].ncli = 1
      BY <3>3, <3>4, <3>5, ZenonT(30)
    <3>7. /\ cp \in CpuSet /\ cp.proc = None /\ cp.ncli = 1 /\ ~cp.if /\ cp.intena = cpu[c].intena
      BY <3>3, <3>6, NoProcFields, ZenonT(30)
    <3>8. /\ intena' = [intena EXCEPT ![Thread(c)] = cp.intena] /\ cpu' = [cpu EXCEPT ![c] = cp]
      BY <3>2, <3>3, <3>7, ZenonT(30) DEF Switch
    <3>9. OwnLocks(c) /\ Held(c)' = {"ptable"}
      BY <3>2, <3>3, <3>4, ZenonT(30) DEF OwnLocks, Held, holding
    <3>10. /\ state \in [Procs -> {"UNUSED", "RUNNABLE", "RUNNING", "SLEEPING", "ZOMBIE"}]
      BY ZenonT(30) DEF LockInv, Types
    <3> HIDE DEF cp
    <3>11. CASE yield(c)
      <4> DEFINE f == To(Top(c), "yielded")
                 new == [at[Thread(c)] EXCEPT ![1] = f]
      <4>1. /\ Top(c).pc = "yield" /\ SetTop(c, f)
            /\ state' = [state EXCEPT ![Thread(c)] = "RUNNABLE"]
        BY <3>3, <3>11, ZenonT(30) DEF yield, At
      <4>2. Len(at[Thread(c)]) = 2 /\ Len(at[Thread(c)]) # 1
        BY <4>1, WhereAt, OneNotTwo, ZenonT(30)
      <4>3. "yielded" \in PreemptCode
        BY DEF PreemptCode
      <4>4. f \in FrameSet /\ f.pc = "yielded" /\ Handler(Thread(c), f)
        <5>1. Thread(c) \in Procs /\ Top(c) \in FrameSet
          BY <3>3, ZenonT(30)
        <5> QED
          BY <4>3, <5>1, <1>HandlerTo, ZenonT(30)
      <4>5. Stack(Thread(c), new) /\ Len(new) = Len(at[Thread(c)]) /\ new[1] = f
        <5>1. Stack(Thread(c), new)
          BY <3>3, <4>2, <4>4, <1>NewTop, ZenonT(30)
        <5>2. Len(new) = Len(at[Thread(c)]) /\ new[1] = f
          <6>1. Stack(Thread(c), at[Thread(c)]) /\ f \in FrameSet
            BY <3>3, <4>4, ZenonT(30)
          <6> HIDE DEF f
          <6> QED
            BY <6>1, TopShape
        <5> QED
          BY <5>1, <5>2, ZenonT(30)
      <4>6. at' = [at EXCEPT ![Thread(c)] = new]
        BY <4>1 DEF SetTop
      <4> HIDE DEF f, new
      <4>7. OtherTypes'
        <5>1. state' \in [Procs -> {"UNUSED", "RUNNABLE", "RUNNING", "SLEEPING", "ZOMBIE"}]
          <6>1. "RUNNABLE" \in {"UNUSED", "RUNNABLE", "RUNNING", "SLEEPING", "ZOMBIE"}
            OBVIOUS
          <6> QED
            BY <3>10, <4>1, <6>1, ZenonT(30)
        <5> QED
          BY <3>1, <3>2, <5>1, ZenonT(30) DEF LockInv, Types, OtherTypes
      <4>8. /\ new[1].pc \in {"forkret", "woken", "yielded"} /\ "RUNNABLE" # "SLEEPING"
            /\ cp.intena <=> Len(new) = 1
        BY <3>3, <3>7, <4>4, <4>5, ZenonT(30)
      <4> QED
        BY <3>1, <3>3, <3>7, <3>8, <3>9, <4>1, <4>5, <4>6, <4>7, <4>8, <2>LeaveStep, ZenonT(30)
    <3>12. CASE exit(c)
      <4> DEFINE new == <<Frame("gone")>>
      <4>1. /\ at' = [at EXCEPT ![Thread(c)] = new]
            /\ state' = [state EXCEPT ![Thread(c)] = "ZOMBIE"]
        BY <3>3, <3>12, ZenonT(30) DEF exit
      <4>2. "gone" \in Pcs /\ "gone" \in ProcCode
        BY DEF Pcs, ProcCode
      <4>3. Frame("gone") \in FrameSet /\ Frame("gone").pc = "gone" /\ Frame("gone").then = "none"
        BY <4>2, FrameFields, ZenonT(30)
      <4>4. Base(Thread(c), Frame("gone"))
        BY <3>3, <4>2, <4>3, ZenonT(30) DEF Base, Runs, Waiting
      <4>5. new \in Seq(FrameSet) /\ Len(new) = 1 /\ new[1] = Frame("gone")
        BY <4>3
      <4> HIDE DEF new
      <4>6. Stack(Thread(c), new)
        BY <4>4, <4>5, ZenonT(30) DEF Stack
      <4>7. OtherTypes'
        <5>1. state' \in [Procs -> {"UNUSED", "RUNNABLE", "RUNNING", "SLEEPING", "ZOMBIE"}]
          <6>1. "ZOMBIE" \in {"UNUSED", "RUNNABLE", "RUNNING", "SLEEPING", "ZOMBIE"}
            OBVIOUS
          <6> QED
            BY <3>10, <4>1, <6>1, ZenonT(30)
        <5> QED
          BY <3>1, <3>2, <5>1, ZenonT(30) DEF LockInv, Types, OtherTypes
      <4>8. "ZOMBIE" \notin {"RUNNABLE", "SLEEPING"}
        OBVIOUS
      <4> QED
        BY <3>1, <3>3, <3>7, <3>8, <3>9, <4>1, <4>6, <4>7, <4>8, <2>LeaveStep, ZenonT(30)
    <3> QED
      BY <3>11, <3>12, ZenonT(30)

  <2> QED
    BY <2>SleepInv, <2>YieldInv, ZenonT(30)

\* scheduler(): the process picked goes on under ptable.lock where it stopped,
\* with the flag it had.
<1>SchedulerInv.
  ASSUME LockInv, NEW c \in setting.cpus, scheduler(c)
  PROVE  LockInv'
  <2> USE <1>SchedulerInv
  <2>1. /\ Top(c).pc = "pick" /\ setting' = setting /\ intena' = intena
        /\ UNCHANGED <<chan, killed, n>> /\ done' = done
    BY ZenonT(30) DEF scheduler, At
  <2>2. /\ c \in CPUs /\ cpu \in [CPUs -> CpuSet] /\ cpu[c] \in CpuSet
        /\ lock \in [Locks -> CPUs \cup {None}]
        /\ Top(c) \in FrameSet /\ Stack(Thread(c), at[Thread(c)]) /\ Top(c) = at[Thread(c)][1]
        /\ Balanced(at[Thread(c)], cpu[c], Held(c)) /\ setting.cpus \subseteq CPUs
        /\ \A d \in CPUs : Thread(d) \in Threads /\ (d # c => Thread(d) # Thread(c))
        /\ cpu[c].proc = None => Thread(c) = Sched(c)
    BY ThreadFacts, ZenonT(30) DEF LockInv, Types
  <2>3. /\ Len(at[Thread(c)]) = 1 /\ Len(at[Thread(c)]) # 2 /\ Thread(c) \notin Procs
        /\ cpu[c].proc = None
    BY <2>1, WhereAt
  <2>4. HeldBy(Top(c)) = {"ptable"} /\ Top(c).pc # "spin"
    BY <2>1, HeldByPc, ZenonT(30)
  <2>5. CASE Runnable(c) = {}
    <3> DEFINE f == To(Top(c), "sti")
    <3>1. release(c, "ptable") /\ SetTop(c, f) /\ state' = state
      BY <2>5, ZenonT(30) DEF scheduler
    <3>2. "sti" \in Pcs /\ "sti" \in SchedCode
      BY ZenonT(30) DEF Pcs, SchedCode
    <3>3. f \in FrameSet /\ f.pc = "sti" /\ f.then = "none"
      BY <2>2, <3>2, ToFields, ZenonT(30)
    <3> HIDE DEF f
    <3>4. Base(Thread(c), f)
      BY <2>3, <3>2, <3>3 DEF Base, Runs, Waiting
    <3>5. HeldBy(f) = HeldBy(Top(c)) \ {"ptable"} /\ "ptable" \in HeldBy(Top(c)) /\ f.pc # "spin"
      BY <2>4, <3>3, HeldByPc, ZenonT(30)
    <3>6. OtherTypes' /\ NoSwitch
      BY <2>1, <3>1, ZenonT(30) DEF LockInv, Types, OtherTypes, NoSwitch
    <3> QED
      BY <2>1, <2>3, <2>4, <3>1, <3>3, <3>4, <3>5, <3>6, <1>ReleaseStep, ZenonT(30)
  <2>6. CASE Runnable(c) # {}
    <3>1. PICK p \in Runnable(c) :
            /\ state' = [state EXCEPT ![p] = "RUNNING"] /\ lock' = lock /\ at' = at
            /\ cpu' = [cpu EXCEPT ![c].proc = p, ![c].p = p + 1, ![c].intena = intena[p]]
      BY <2>6, ZenonT(30) DEF scheduler, Restored
    <3>2. p \in Procs /\ state[p] = "RUNNABLE"
      BY ZenonT(30) DEF Runnable
    <3> DEFINE cp == [[[cpu[c] EXCEPT !.proc = p] EXCEPT !.p = p + 1] EXCEPT !.intena = intena[p]]
    <3>3. /\ Types /\ Stacks /\ Placed /\ CpusBalanced /\ intena \in [Procs -> BOOLEAN]
          /\ state \in [Procs -> {"UNUSED", "RUNNABLE", "RUNNING", "SLEEPING", "ZOMBIE"}]
      BY ZenonT(30) DEF LockInv, Types
    <3>4. cp \in CpuSet /\ cp.proc = p /\ cp.ncli = cpu[c].ncli /\ cp.if = cpu[c].if
          /\ cp.intena = intena[p]
      <4> DEFINE cp1 == [[cpu[c] EXCEPT !.proc = p] EXCEPT !.p = p + 1]
      <4>1. intena[p] \in BOOLEAN
        BY <3>2, <3>3, ZenonT(30)
      <4>2. p + 1 \in Int
        BY <3>2 DEF Procs
      <4>3. cp1 \in CpuSet /\ cp1.proc = p /\ cp1.ncli = cpu[c].ncli /\ cp1.if = cpu[c].if
        <5> DEFINE cp0 == cpu[c]
        <5>1. cp0 \in CpuSet /\ p \in Procs \cup {None}
          BY <2>2, <3>2
        <5> HIDE DEF cp0
        <5>2. [[cp0 EXCEPT !.proc = p] EXCEPT !.p = p + 1] \in CpuSet
          BY <4>2, <5>1, ZenonT(30) DEF CpuSet
        <5>3. /\ [[cp0 EXCEPT !.proc = p] EXCEPT !.p = p + 1].proc = p
              /\ [[cp0 EXCEPT !.proc = p] EXCEPT !.p = p + 1].ncli = cp0.ncli
              /\ [[cp0 EXCEPT !.proc = p] EXCEPT !.p = p + 1].if = cp0.if
          BY <5>1 DEF CpuSet
        <5> QED
          BY <5>2, <5>3, ZenonT(30) DEF cp0
      <4> HIDE DEF cp1
      <4>4. [cp1 EXCEPT !.intena = intena[p]] \in CpuSet
        BY <4>1, <4>3, ZenonT(30) DEF CpuSet
      <4>5. /\ [cp1 EXCEPT !.intena = intena[p]].proc = cp1.proc
            /\ [cp1 EXCEPT !.intena = intena[p]].ncli = cp1.ncli
            /\ [cp1 EXCEPT !.intena = intena[p]].if = cp1.if
            /\ [cp1 EXCEPT !.intena = intena[p]].intena = intena[p]
        BY <4>3 DEF CpuSet
      <4> QED
        BY <4>3, <4>4, <4>5, ZenonT(30) DEF cp1
    <3>5. cpu' = [cpu EXCEPT ![c] = cp]
      BY <2>2, <3>1, ZenonT(30)
    <3> HIDE DEF cp
    <3>6. /\ cpu' \in [CPUs -> CpuSet] /\ cpu'[c] = cp
          /\ \A d \in CPUs : d # c => cpu'[d] = cpu[d]
      BY <2>2, <3>4, <3>5, ZenonT(30)
    <3>7. p # None /\ p \in Threads
      BY <3>2, Numbers, ZenonT(30)
    <3>8. Thread(c)' = p /\ \A d \in CPUs : d # c => Thread(d)' = Thread(d)
      BY <2>2, <3>4, <3>6, <3>7, ZenonT(30) DEF Thread, Sched
    <3>9. state'[p] = "RUNNING" /\ \A q \in Procs : q # p => state'[q] = state[q]
      BY <3>1, <3>2, <3>3
    <3>10. OtherTypes'
      <4>1. state' \in [Procs -> {"UNUSED", "RUNNABLE", "RUNNING", "SLEEPING", "ZOMBIE"}]
        <5>1. "RUNNING" \in {"UNUSED", "RUNNABLE", "RUNNING", "SLEEPING", "ZOMBIE"}
          OBVIOUS
        <5> QED
          BY <3>1, <3>3, <5>1, ZenonT(30)
      <4> QED
        BY <2>1, <4>1, ZenonT(30) DEF LockInv, Types, OtherTypes
    <3>11. Types'
      BY <2>1, <3>1, <3>3, <3>6, <3>10, ZenonT(30) DEF Types, OtherTypes
    <3>12. Stacks'
      BY <3>1, <3>3, ZenonT(30) DEF Stacks
    <3>13. \A d \in CPUs : cpu[d].proc # None => cpu[d].proc # p
      <4>1. \A d \in CPUs : cpu[d].proc # None => state[cpu[d].proc] = "RUNNING"
        BY <3>3, ZenonT(30) DEF Placed
      <4>2. "RUNNING" # state[p]
        BY <3>2
      <4> QED
        BY <4>1, <4>2, ZenonT(30)
    <3>14. Placed'
      <4>1. ASSUME NEW d \in CPUs, cpu'[d].proc # None
            PROVE  /\ state'[cpu'[d].proc] = "RUNNING"
                   /\ Len(at'[Sched(d)]) = 1 /\ at'[Sched(d)][1].pc = "pick"
        <5>1. CASE d = c
          <6>1. cpu'[d].proc = p /\ state'[p] = "RUNNING"
            BY <3>4, <3>6, <3>9, <5>1, ZenonT(30)
          <6>2. at'[Sched(d)] = at[Thread(c)]
            BY <2>2, <2>3, <3>1, <5>1, ZenonT(30)
          <6> QED
            BY <2>1, <2>2, <2>3, <6>1, <6>2, ZenonT(30)
        <5>2. CASE d # c
          <6>1. /\ cpu'[d] = cpu[d] /\ cpu[d].proc # None /\ state[cpu[d].proc] = "RUNNING"
                /\ Len(at[Sched(d)]) = 1 /\ at[Sched(d)][1].pc = "pick"
            BY <3>3, <3>6, <4>1, <5>2, ZenonT(30) DEF Placed
          <6>2. cpu[d].proc \in Procs
            BY <2>2, <6>1, ZenonT(30) DEF CpuSet
          <6> QED
            BY <3>1, <3>9, <3>13, <6>1, <6>2, ZenonT(30)
        <5> QED
          BY <5>1, <5>2, ZenonT(30)
      <4>2. ASSUME NEW q \in Procs, state'[q] \in {"RUNNABLE", "SLEEPING"} PROVE Parked(q)'
        <5>1. q # p
          BY <3>9, <4>2
        <5>2. state'[q] = state[q] /\ Parked(q)
          BY <3>3, <3>9, <4>2, <5>1, ZenonT(30) DEF Placed
        <5> QED
          BY <2>1, <3>1, <5>2, ZenonT(30) DEF Parked
      <4>3. ASSUME NEW d \in CPUs, NEW e \in CPUs, cpu'[d].proc # None, cpu'[d].proc = cpu'[e].proc
            PROVE  d = e
        <5>1. CASE d # c /\ e # c
          <6>1. cpu'[d] = cpu[d] /\ cpu'[e] = cpu[e]
            BY <3>6, <5>1, ZenonT(30)
          <6> QED
            BY <3>3, <4>3, <6>1 DEF Placed
        <5>2. CASE d = c /\ e # c
          BY <3>4, <3>6, <3>7, <3>13, <4>3, <5>2, ZenonT(30)
        <5>3. CASE d # c /\ e = c
          BY <3>4, <3>6, <3>7, <3>13, <4>3, <5>3, ZenonT(30)
        <5> QED
          BY <5>1, <5>2, <5>3, ZenonT(30)
      <4> QED
        BY <4>1, <4>2, <4>3, ZenonT(30) DEF Placed
    <3>15. CpusBalanced'
      <4>1. \A d \in CPUs : Held(d)' = Held(d)
        BY <3>1, ZenonT(30) DEF Held, holding
      <4>2. Balanced(at[p], cp, Held(c))
        <5>1. Parked(p) /\ Stack(p, at[p])
          BY <3>2, <3>3, <3>7, ZenonT(30) DEF Placed, Stacks
        <5>2. at[p][1].pc \in {"forkret", "woken", "yielded"} /\ (intena[p] <=> Len(at[p]) = 1)
          BY <5>1, ZenonT(30) DEF Parked
        <5>3. HeldBy(at[p][1]) = {"ptable"} /\ at[p][1].pc # "spin"
          BY <5>2, HeldByPc, ZenonT(30)
        <5>4. /\ Held(c) = {"ptable"} /\ cpu[c].ncli = Cardinality(Held(c)) + 0
              /\ cpu[c].ncli > 0 => ~cpu[c].if
          BY <2>2, <2>4, ZenonT(30) DEF Balanced
        <5>5. cpu[c].ncli > 0 /\ cpu[c].ncli # 0
          BY <5>4, OneLock
        <5>6. ~(Len(at[p]) = 1 /\ Len(at[p]) = 2)
          OBVIOUS
        <5> QED
          BY <3>4, <5>2, <5>3, <5>4, <5>5, <5>6, ZenonT(30) DEF Balanced
      <4>3. ASSUME NEW d \in setting.cpus PROVE Balanced(at'[Thread(d)'], cpu'[d], Held(d)')
        <5>1. CASE d = c
          BY <2>2, <3>1, <3>6, <3>8, <4>1, <4>2, <5>1, ZenonT(30)
        <5>2. CASE d # c
          <6>1. Thread(d)' = Thread(d) /\ cpu'[d] = cpu[d] /\ Held(d)' = Held(d) /\ at' = at
            BY <2>2, <3>1, <3>6, <3>8, <4>1, <5>2, ZenonT(30)
          <6> QED
            BY <3>3, <6>1, ZenonT(30) DEF CpusBalanced
        <5> QED
          BY <5>1, <5>2, ZenonT(30)
      <4> QED
        BY <2>1, <4>3, ZenonT(30) DEF CpusBalanced
    <3> QED
      BY <3>11, <3>12, <3>14, <3>15, ZenonT(30) DEF LockInv
  <2> QED
    BY <2>5, <2>6, ZenonT(30)

<1> SUFFICES ASSUME LockInv, Next
             PROVE  LockInv'
  BY ZenonT(30)
<1>1. PICK c \in CPUs : \/ Kernel(c) \/ spin(c) \/ User(c) \/ timer(c) \/ kbdintr(c)
                        \/ \E k \in setting.keys : Key(c, k)
  BY ZenonT(30) DEF Next
<1>2. CASE timer(c) \/ kbdintr(c)
  <2>1. c \in setting.cpus
    BY <1>2, ZenonT(30) DEF timer, kbdintr, Interrupt
  <2> QED
    BY <1>2, <2>1, <1>Interrupts, ZenonT(30)
<1>3. CASE \E k \in setting.keys : Key(c, k)
  <2>1. c \in setting.cpus
    BY <1>3, ZenonT(30) DEF Key, At
  <2> QED
    BY <1>3, <2>1, <1>Handles, ZenonT(30)
<1>4. CASE User(c)
  <2>1. c \in setting.cpus
    BY <1>4, ZenonT(30) DEF User, sys_read, sys_sleep, sys_write, sys_kill, trap_killed, Call, At
  <2> QED
    BY <1>4, <2>1, <1>Calls, ZenonT(30)
<1>5. CASE spin(c)
  <2>1. c \in setting.cpus
    BY <1>5, ZenonT(30) DEF spin, At
  <2> QED
    BY <1>5, <2>1, <1>Acquires, ZenonT(30)
<1>6. CASE Kernel(c)
  <2>1. c \in setting.cpus
    BY <1>6, ZenonT(30) DEF Kernel, acquire, sti, scheduler, forkret, sleep, woken, tick, tick_wakeup,
       trap_clock, yield, yielded, iret, exit, key_wakeup, key_end, procdump, consoleread,
       sleep_start, sleep_loop, consolewrite, kill, syscall_return, At
  <2>2. CASE acquire(c) \/ sti(c) \/ scheduler(c) \/ forkret(c) \/ sleep(c) \/ woken(c)
    BY <2>1, <2>2, <1>Acquires, <1>Enables, <1>SchedulerInv, <1>Switches, <1>Lets, ZenonT(30)
  <2>3. CASE \/ tick(c) \/ tick_wakeup(c) \/ trap_clock(c) \/ yield(c) \/ yielded(c) \/ iret(c)
             \/ exit(c)
    BY <2>1, <2>3, <1>Handles, <1>Lets, <1>Switches, <1>Enables, ZenonT(30)
  <2>4. CASE key_wakeup(c) \/ key_end(c) \/ procdump(c) \/ syscall_return(c)
    BY <2>1, <2>4, <1>Lets, <1>Calls, ZenonT(30)
  <2>5. CASE consoleread(c) \/ sleep_start(c) \/ sleep_loop(c) \/ consolewrite(c) \/ kill(c)
    BY <2>1, <2>5, <1>Bodies, ZenonT(30)
  <2> QED
    BY <1>6, <2>2, <2>3, <2>4, <2>5, ZenonT(30) DEF Kernel
<1> QED
  BY <1>1, <1>2, <1>3, <1>4, <1>5, <1>6, ZenonT(30)

-----------------------------------------------------------------------------
(* The theorems.                                                           *)

\* Processors start in scheduler(), processes in forkret.
LEMMA LockInit ==
  ASSUME Init
  PROVE  LockInv
<1>1. "forkret" \in Pcs /\ "sti" \in Pcs /\ "forkret" \in ProcCode /\ "sti" \in SchedCode
  BY DEF Pcs, ProcCode, SchedCode
<1>2. /\ Frame("forkret") \in FrameSet /\ Frame("forkret").pc = "forkret"
      /\ Frame("forkret").then = "none"
      /\ Frame("sti") \in FrameSet /\ Frame("sti").pc = "sti" /\ Frame("sti").then = "none"
  BY <1>1, FrameFields, ZenonT(30)
<1>3. \A t \in Threads : at[t] = <<IF t \in Procs THEN Frame("forkret") ELSE Frame("sti")>>
  BY ZenonT(30) DEF Init
<1>4. /\ setting \in Settings /\ setting.cpus \subseteq CPUs
      /\ cpu = [c \in CPUs |-> [if |-> FALSE, ncli |-> 0, intena |-> FALSE, proc |-> None, p |-> 1]]
      /\ lock = [lk \in Locks |-> None]
  BY Numbers, ZenonT(30) DEF Init
<1>5. Types
  <2>1. cpu \in [CPUs -> CpuSet]
    BY <1>4 DEF CpuSet
  <2>2. lock \in [Locks -> CPUs \cup {None}]
    BY <1>4
  <2>3. DOMAIN at = Threads
    BY ZenonT(30) DEF Init
  <2>4. state \in [Procs -> {"UNUSED", "RUNNABLE", "RUNNING", "SLEEPING", "ZOMBIE"}]
    BY ZenonT(30) DEF Init
  <2>5. chan \in [Procs -> {"cons", "tickslock", None}]
    BY ZenonT(30) DEF Init
  <2>6. killed \in [Procs -> BOOLEAN] /\ intena \in [Procs -> BOOLEAN]
    BY ZenonT(30) DEF Init
  <2>7. n \in [Procs -> Nat] /\ done \in [Procs -> Nat]
    BY ZenonT(30) DEF Init
  <2> QED
    BY <1>4, <2>1, <2>2, <2>3, <2>4, <2>5, <2>6, <2>7, ZenonT(30) DEF Types
<1>6. \A t \in Threads : /\ at[t] \in Seq(FrameSet) /\ Len(at[t]) = 1
                         /\ at[t][1] = IF t \in Procs THEN Frame("forkret") ELSE Frame("sti")
  <2> SUFFICES ASSUME NEW t \in Threads
               PROVE  /\ at[t] \in Seq(FrameSet) /\ Len(at[t]) = 1
                      /\ at[t][1] = IF t \in Procs THEN Frame("forkret") ELSE Frame("sti")
    OBVIOUS
  <2> DEFINE f == IF t \in Procs THEN Frame("forkret") ELSE Frame("sti")
  <2>1. f \in FrameSet /\ at[t] = <<f>>
    BY <1>2, <1>3, ZenonT(30)
  <2> HIDE DEF f
  <2>2. at[t] \in Seq(FrameSet) /\ Len(at[t]) = 1 /\ at[t][1] = f
    BY <2>1
  <2> QED
    BY <2>2, ZenonT(30) DEF f
<1>7. Stacks
  <2>1. ASSUME NEW t \in Threads PROVE Base(t, at[t][1])
    <3>1. CASE t \in Procs
      BY <1>1, <1>2, <1>6, <3>1 DEF Base, Runs, Waiting
    <3>2. CASE t \notin Procs
      BY <1>1, <1>2, <1>6, <3>2 DEF Base, Runs, Waiting
    <3> QED
      BY <3>1, <3>2, ZenonT(30)
  <2> QED
    BY <1>6, <2>1, ZenonT(30) DEF Stacks, Stack
<1>8. \A c \in CPUs : /\ cpu[c].proc = None /\ cpu[c].ncli = 0 /\ cpu[c].if = FALSE
                      /\ Thread(c) = Sched(c) /\ Thread(c) \in Threads /\ Thread(c) \notin Procs
  <2>1. \A c \in CPUs : cpu[c].proc = None /\ cpu[c].ncli = 0 /\ cpu[c].if = FALSE
    BY <1>4
  <2> QED
    BY <2>1, Numbers, ZenonT(30) DEF Thread
<1>9. Placed
  <2>1. ASSUME NEW p \in Procs, state[p] \in {"RUNNABLE", "SLEEPING"} PROVE Parked(p)
    <3>1. at[p][1].pc = "forkret" /\ Len(at[p]) = 1
      BY <1>2, <1>6, Numbers, ZenonT(30)
    <3>2. intena[p] /\ state[p] # "SLEEPING"
      BY ZenonT(30) DEF Init
    <3> QED
      BY <3>1, <3>2, ZenonT(30) DEF Parked
  <2> QED
    BY <1>8, <2>1, ZenonT(30) DEF Placed
<1>10. CpusBalanced
  <2>1. ASSUME NEW c \in setting.cpus PROVE Balanced(at[Thread(c)], cpu[c], Held(c))
    <3>1. /\ c \in CPUs /\ at[Thread(c)][1] = Frame("sti") /\ Len(at[Thread(c)]) = 1
          /\ at[Thread(c)][1].pc = "sti"
      BY <1>2, <1>4, <1>6, <1>8, ZenonT(30)
    <3>2. HeldBy(at[Thread(c)][1]) = {} /\ at[Thread(c)][1].pc # "spin" /\ Len(at[Thread(c)]) # 2
      BY <3>1, HeldByPc, OneNotTwo, ZenonT(30)
    <3>3. Held(c) = {}
      BY <1>4, <3>1, Numbers, ZenonT(30) DEF Held, holding
    <3>4. cpu[c].ncli = Cardinality({}) + 0 /\ ~(cpu[c].ncli > 0)
      BY <1>8, <3>1, OneLock
    <3> QED
      BY <1>8, <3>1, <3>2, <3>3, <3>4, ZenonT(30) DEF Balanced
  <2> QED
    BY <2>1, ZenonT(30) DEF CpusBalanced
<1> QED
  BY <1>5, <1>7, <1>9, <1>10, ZenonT(30) DEF LockInv

\* The invariant says that locks and interrupts go together.
LEMMA LockInvImplies ==
  ASSUME LockInv
  PROVE  LocksAndInterrupts
<1> SUFFICES ASSUME NEW c \in setting.cpus
             PROVE  /\ Held(c) = HeldBy(at[Thread(c)][1])
                    /\ cpu[c].ncli = Cardinality(Held(c))
                                       + IF at[Thread(c)][1].pc = "spin" THEN 1 ELSE 0
                    /\ cpu[c].ncli > 0 => ~cpu[c].if
                    /\ at[Thread(c)][1].pc = "acquire" => at[Thread(c)][1].lk \notin Held(c)
                    /\ Len(at[Thread(c)]) = 2 => ~cpu[c].if /\ HeldBy(at[Thread(c)][2]) = {}
                    /\ Len(at[Thread(c)]) < 3
                    /\ cpu[c].proc # None /\ Len(at[Thread(c)]) = 1 /\ cpu[c].ncli = 0 => cpu[c].if
  BY ZenonT(30) DEF LocksAndInterrupts, Held
<1>1. /\ Stack(Thread(c), at[Thread(c)]) /\ Balanced(at[Thread(c)], cpu[c], Held(c))
      /\ Top(c) \in FrameSet /\ Top(c) = at[Thread(c)][1]
  BY ThreadFacts, ZenonT(30)
<1>2. /\ Held(c) = HeldBy(at[Thread(c)][1])
      /\ cpu[c].ncli = Cardinality(Held(c)) + IF at[Thread(c)][1].pc = "spin" THEN 1 ELSE 0
      /\ cpu[c].ncli > 0 => ~cpu[c].if
      /\ Len(at[Thread(c)]) = 2 => ~cpu[c].if
      /\ cpu[c].proc # None /\ Len(at[Thread(c)]) = 1 /\ cpu[c].ncli = 0 => cpu[c].if
  BY <1>1, ZenonT(30) DEF Balanced
<1>3. /\ Len(at[Thread(c)]) \in {1, 2}
      /\ Len(at[Thread(c)]) = 1 => Base(Thread(c), Top(c))
      /\ Len(at[Thread(c)]) = 2 => Handler(Thread(c), Top(c))
  BY <1>1, Tops, ZenonT(30)
<1>4. Len(at[Thread(c)]) < 3 /\ ~(Len(at[Thread(c)]) = 1 /\ Len(at[Thread(c)]) = 2)
  <2> DEFINE k == Len(at[Thread(c)])
  <2>1. k \in {1, 2}
    BY <1>3, ZenonT(30)
  <2> HIDE DEF k
  <2>2. k < 3 /\ ~(k = 1 /\ k = 2)
    BY <2>1
  <2> QED
    BY <2>2, ZenonT(30) DEF k
<1>5. Len(at[Thread(c)]) = 2 => HeldBy(at[Thread(c)][2]) = {}
  BY <1>1, <1>4, ZenonT(30) DEF Stack
<1>6. Base(Thread(c), Top(c)) \/ Handler(Thread(c), Top(c))
  BY <1>3
<1>7. ASSUME Top(c).pc = "acquire" PROVE Top(c).lk \notin HeldBy(Top(c))
  <2>1. Top(c).pc \in Waiting
    BY <1>7 DEF Waiting
  <2> QED
    BY <1>1, <1>6, <2>1, Acquired, ZenonT(30)
<1> QED
  BY <1>1, <1>2, <1>4, <1>5, <1>7, ZenonT(30)

\* Locks, stacks and processors fit together, on every step of any number of
\* processors and processes (spinlock.c, proc.c, trap.c).
THEOREM LockInvariant == Spec => []LockInv
<1>1. Init => LockInv
  BY LockInit
<1>2. LockInv /\ [Next]_vars => LockInv'
  <2>1. ASSUME LockInv, UNCHANGED vars PROVE LockInv'
    <3>1. OtherTypes' /\ UNCHANGED <<setting, intena, state, lock, cpu, at>>
      BY <2>1, ZenonT(30) DEF vars, LockInv, Types, OtherTypes
    <3> QED
      BY <2>1, <3>1, StandStill, ZenonT(30)
  <2> QED
    BY <2>1, LockNext, ZenonT(30)
<1> QED
  BY <1>1, <1>2, PTL DEF Spec

\* A processor with a spinlock takes no interrupt and asks for no lock it has,
\* and a process without locks can be interrupted (spinlock.c 27, proc.c 528),
\* for any number of processors and processes, keys and system calls.
THEOREM LocksSafe == Spec => []LocksAndInterrupts
<1>1. LockInv => LocksAndInterrupts
  BY LockInvImplies
<1> QED
  BY <1>1, LockInvariant, PTL

=============================================================================
