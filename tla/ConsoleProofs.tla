--------------------------- MODULE ConsoleProofs ---------------------------
(***************************************************************************)
(* Nobody oversleeps: nobody sleeps on what is there, unless the wakeup for *)
(* it is on its way.  And for every INPUT_BUF, every width of the indices   *)
(* and any number of processors, processes and keys: the ring of the        *)
(* console is a terminal.                                                   *)
(***************************************************************************)
EXTENDS ConsoleTerminal, InterruptsProofs

\* Time limits that do not depend on the load of the machine.
USE SMTT(20)

-----------------------------------------------------------------------------
(* The inductive invariant.                                                *)

Wakers == {"key_wakeup", "tick_wakeup"}

\* The condition of a sleeper, and of a process about to sleep: it has found
\* nothing to do, and still has the lock that says so.
Rests(p) ==
  state[p] = "SLEEPING" =>
    \/ chan[p] = "cons" /\ (input.r # input.w => WakeupDue("key_wakeup"))
    \/ chan[p] = "tickslock" /\ (done[p] = n[p] => WakeupDue("tick_wakeup"))

ToSleep(f) == f.pc = "sleep" \/ f.then = "sleep"

Tested(c) ==
  ToSleep(Top(c)) =>
    \/ Top(c).on = "cons" /\ input.r = input.w
    \/ Top(c).on = "tickslock" /\ done[Thread(c)] # n[Thread(c)]

RestInv == (\A p \in Procs : Rests(p)) /\ (\A c \in setting.cpus : Tested(c))

\* What the other processors run stays as it is.
Elsewhere(c) ==
  /\ setting' = setting
  /\ \A d \in CPUs : d # c => cpu'[d] = cpu[d]
  /\ \A t \in Threads : t # Thread(c) => at'[t] = at[t]

\* No process falls asleep.
NoSleepers ==
  \A p \in Procs : state'[p] = "SLEEPING" => state[p] = "SLEEPING" /\ chan'[p] = chan[p]

\* The counts of the other processes stay.
OwnCounts(c) == \A p \in Procs : p # Thread(c) => n'[p] = n[p] /\ done'[p] = done[p]

\* The ring has its indices.
Indices == {"r", "w"} \subseteq DOMAIN input

\* Frames that are not about to sleep.
LEMMA Awake ==
  /\ \A f \in FrameSet, pc \in Pcs : pc # "sleep" => To(f, pc) \in FrameSet /\ ~ToSleep(To(f, pc))
  /\ \A f \in FrameSet, lk \in Locks, then \in Thens : then # "sleep" =>
       Acquiring(f, lk, then) \in FrameSet /\ ~ToSleep(Acquiring(f, lk, then))
  /\ \A pc \in Pcs : pc # "sleep" => Frame(pc) \in FrameSet /\ ~ToSleep(Frame(pc))
<1>1. ASSUME NEW f \in FrameSet, NEW pc \in Pcs, pc # "sleep"
      PROVE  To(f, pc) \in FrameSet /\ ~ToSleep(To(f, pc))
  <2>1. To(f, pc) \in FrameSet /\ To(f, pc).pc = pc /\ To(f, pc).then = "none"
    BY ToFields
  <2> QED
    BY <1>1, <2>1 DEF ToSleep
<1>2. ASSUME NEW f \in FrameSet, NEW lk \in Locks, NEW then \in Thens, then # "sleep"
      PROVE  Acquiring(f, lk, then) \in FrameSet /\ ~ToSleep(Acquiring(f, lk, then))
  <2>1. /\ Acquiring(f, lk, then) \in FrameSet /\ Acquiring(f, lk, then).pc = "acquire"
        /\ Acquiring(f, lk, then).then = then
    BY AcquiringFields
  <2> QED
    BY <1>2, <2>1 DEF ToSleep
<1>3. ASSUME NEW pc \in Pcs, pc # "sleep" PROVE Frame(pc) \in FrameSet /\ ~ToSleep(Frame(pc))
  <2>1. Frame(pc) \in FrameSet /\ Frame(pc).pc = pc /\ Frame(pc).then = "none"
    BY FrameFields, ZenonT(30)
  <2> QED
    BY <1>3, <2>1 DEF ToSleep
<1> QED
  BY <1>1, <1>2, <1>3

\* The names of the frames.
LEMMA Names ==
  /\ {"sti", "user", "iret", "return", "loop", "clock", "key", "acquire", "gone", "yielded",
      "woken"} \subseteq Pcs
  /\ {"pick", "exit", "yield", "listed", "put", "kill", "loop", "start", "tick_wakeup",
      "key_wakeup", "tick", "key"} \subseteq Thens
  /\ {"cons", "tickslock", "ptable"} \subseteq Locks
BY DEF Pcs, Thens, Waiting, ProcCode, SchedCode, TrapCode, PreemptCode, ProcThen, SchedThen,
       TrapThen, PreemptThen, Locks

\* Every step keeps it.
LEMMA RestNext == LockInv /\ RestInv /\ Indices /\ Next => RestInv'
\* Steps that change the running frame of one processor, or its whole stack.
<1>ElsewhereTop.
  ASSUME LockInv, NEW c \in setting.cpus, setting' = setting, NEW frames,
         at' = [at EXCEPT ![Thread(c)] = frames] \/ at' = at,
         NEW cp, cpu' = [cpu EXCEPT ![c] = cp] \/ cpu' = cpu
  PROVE  Elsewhere(c)
  <2> USE <1>ElsewhereTop
  <2>1. DOMAIN at = Threads /\ DOMAIN cpu = CPUs
    BY ZenonT(30) DEF LockInv, Types
  <2>2. \A t \in Threads : t # Thread(c) => at'[t] = at[t]
    BY <2>1
  <2>3. \A d \in CPUs : d # c => cpu'[d] = cpu[d]
    BY <2>1
  <2> QED
    BY <2>2, <2>3, ZenonT(30) DEF Elsewhere

\* The running frame of a processor that stays with its thread.
<1>TopAfter.
  ASSUME LockInv, NEW c \in setting.cpus, NEW f \in FrameSet, SetTop(c, f),
         cpu'[c].proc = cpu[c].proc
  PROVE  Thread(c)' = Thread(c) /\ Top(c)' = f
  <2> USE <1>TopAfter
  <2>1. Thread(c) \in Threads /\ Stack(Thread(c), at[Thread(c)]) /\ DOMAIN at = Threads
    BY ThreadFacts, ZenonT(30) DEF LockInv, Types
  <2>2. [at[Thread(c)] EXCEPT ![1] = f][1] = f
    BY <2>1, TopShape
  <2>3. at'[Thread(c)] = [at[Thread(c)] EXCEPT ![1] = f]
    BY <2>1 DEF SetTop
  <2>4. Thread(c)' = Thread(c)
    BY ZenonT(30) DEF Thread, Sched
  <2> QED
    BY <2>2, <2>3, <2>4, ZenonT(30) DEF Top

\* A process that runs does not sleep.
<1>RunnerAwake.
  ASSUME LockInv, NEW c \in setting.cpus, NEW p \in Procs, state[p] = "SLEEPING"
  PROVE  p # Thread(c)
  <2> USE <1>RunnerAwake
  <2>1. c \in CPUs /\ (cpu[c].proc = None => Thread(c) \notin Procs)
        /\ (cpu[c].proc # None => Thread(c) = cpu[c].proc)
    BY ThreadFacts, ZenonT(30)
  <2>2. cpu[c].proc # None => state[cpu[c].proc] = "RUNNING"
    BY <2>1, ZenonT(30) DEF LockInv, Placed
  <2>3. "SLEEPING" # "RUNNING"
    OBVIOUS
  <2> QED
    BY <2>1, <2>2, <2>3, ZenonT(30)

\* They go on where they were.
<1>OtherTops.
  ASSUME LockInv, NEW c \in setting.cpus, Elsewhere(c), NEW d \in setting.cpus, d # c
  PROVE  Thread(d)' = Thread(d) /\ Top(d)' = Top(d)
  <2> USE <1>OtherTops
  <2>1. /\ setting.cpus \subseteq CPUs
        /\ \A e \in CPUs : Thread(e) \in Threads /\ (e # c => Thread(e) # Thread(c))
    BY ThreadFacts, ZenonT(30)
  <2>2. cpu'[d] = cpu[d] /\ at'[Thread(d)] = at[Thread(d)]
    BY <2>1, ZenonT(30) DEF Elsewhere
  <2>3. Thread(d)' = Thread(d)
    BY <2>2, ZenonT(30) DEF Thread, Sched
  <2> QED
    BY <2>2, <2>3, ZenonT(30) DEF Top

\* Only a process in its own code is about to sleep, and it has a lock.
<1>ToSleepHolds.
  ASSUME LockInv, NEW c \in setting.cpus, ToSleep(Top(c))
  PROVE  /\ Top(c).on \in HeldBy(Top(c)) /\ Len(at[Thread(c)]) = 1 /\ Thread(c) \in Procs
         /\ Top(c).on \in {"cons", "tickslock"}
  <2> USE <1>ToSleepHolds
  <2> DEFINE f == Top(c)
             k == Len(at[Thread(c)])
             t == Thread(c)
  <2>1. /\ k \in {1, 2} /\ (k = 1 => Base(t, f)) /\ (k = 2 => Handler(t, f))
    BY ThreadFacts, Tops, ZenonT(30)
  <2>2. ToSleep(f)
    OBVIOUS
  <2> HIDE DEF f, k, t
  <2>3. k = 1 /\ t \in Procs
    BY <2>1, <2>2 DEF Base, Handler, Runs, Waiting, ProcCode, SchedCode, TrapCode, PreemptCode,
                      ProcThen, SchedThen, TrapThen, PreemptThen, ToSleep
  <2>4. f.on \in {"cons", "tickslock"} /\ (f.pc # "sleep" => f.pc \in Waiting /\ f.then = "sleep")
    BY <2>1, <2>2, <2>3 DEF Base, Runs, ToSleep
  <2>5. f.on \in HeldBy(f)
    BY <2>4, HeldByPc, HeldByThen
  <2> QED
    BY <2>3, <2>4, <2>5, ZenonT(30) DEF f, k, t

\* Two processors have no lock in common.
<1>OneHolder.
  ASSUME LockInv, NEW c \in setting.cpus, NEW d \in setting.cpus, d # c,
         NEW lk \in HeldBy(Top(c))
  PROVE  lk \notin HeldBy(Top(d))
  <2> USE <1>OneHolder
  <2>1. Held(c) = HeldBy(Top(c)) /\ Held(d) = HeldBy(Top(d))
    BY ThreadFacts, ZenonT(30) DEF Balanced
  <2>2. lk \in Held(d) => lock[lk] = d /\ lock[lk] = c
    BY <2>1, ZenonT(30) DEF Held, holding
  <2> QED
    BY <2>1, <2>2, ZenonT(30)

\* A wakeup that is due stays due until the handler makes it.
<1>DueKept.
  ASSUME LockInv, NEW c \in setting.cpus, Elsewhere(c), NEW w, WakeupDue(w), NEW g, Top(c)' = g,
         Top(c).pc = w \/ Top(c).then = w => g.pc = w \/ g.then = w
  PROVE  WakeupDue(w)'
  <2> USE <1>DueKept
  <2>1. PICK d \in setting.cpus : Top(d).pc = w \/ Top(d).then = w
    BY ZenonT(30) DEF WakeupDue
  <2>2. setting' = setting
    BY ZenonT(30) DEF Elsewhere
  <2>3. Top(d)'.pc = w \/ Top(d)'.then = w
    <3>1. CASE d = c
      BY <2>1, <3>1, ZenonT(30)
    <3>2. CASE d # c
      BY <2>1, <3>2, <1>OtherTops, ZenonT(30)
    <3> QED
      BY <3>1, <3>2, ZenonT(30)
  <2> QED
    BY <2>2, <2>3, ZenonT(30) DEF WakeupDue

\* A sleeper may go on sleeping: what it waits for has not come, or the step
\* leaves it a wakeup.
<1>RestKept.
  ASSUME LockInv, RestInv, NEW c \in setting.cpus, Elsewhere(c), NEW g, Top(c)' = g,
         NEW p \in Procs, state'[p] = "SLEEPING" => state[p] = "SLEEPING" /\ chan'[p] = chan[p],
         (input'.r # input'.w => input.r # input.w) \/ g.then = "key_wakeup",
         (n'[p] = n[p] /\ done'[p] = done[p]) \/ g.then = "tick_wakeup",
         \A w \in Wakers : Top(c).pc = w \/ Top(c).then = w =>
            \/ g.pc = w \/ g.then = w
            \/ state'[p] # "SLEEPING"
            \/ w = "key_wakeup" /\ chan[p] # "cons"
            \/ w = "tick_wakeup" /\ chan[p] # "tickslock"
  PROVE  Rests(p)'
  <2> USE <1>RestKept
  <2> SUFFICES ASSUME state'[p] = "SLEEPING"
               PROVE  \/ chan[p] = "cons" /\ (input'.r # input'.w => WakeupDue("key_wakeup")')
                      \/ chan[p] = "tickslock" /\ (done'[p] = n'[p] => WakeupDue("tick_wakeup")')
    BY ZenonT(30) DEF Rests
  <2>1. \/ chan[p] = "cons" /\ (input.r # input.w => WakeupDue("key_wakeup"))
        \/ chan[p] = "tickslock" /\ (done[p] = n[p] => WakeupDue("tick_wakeup"))
    BY ZenonT(30) DEF RestInv, Rests
  <2>2. ASSUME NEW w, WakeupDue(w), Top(c).pc = w \/ Top(c).then = w => g.pc = w \/ g.then = w
        PROVE  WakeupDue(w)'
    BY <2>2, <1>DueKept, ZenonT(30)
  <2>3. ASSUME NEW w, g.then = w PROVE WakeupDue(w)'
    <3>1. setting' = setting
      BY ZenonT(30) DEF Elsewhere
    <3> QED
      BY <2>3, <3>1, ZenonT(30) DEF WakeupDue
  <2>4. "key_wakeup" \in Wakers /\ "tick_wakeup" \in Wakers /\ "key_wakeup" # "tick_wakeup"
    BY DEF Wakers
  <2>5. CASE chan[p] = "cons" /\ (input.r # input.w => WakeupDue("key_wakeup"))
    <3>1. Top(c).pc = "key_wakeup" \/ Top(c).then = "key_wakeup" =>
            g.pc = "key_wakeup" \/ g.then = "key_wakeup"
      BY <2>4, <2>5, ZenonT(30)
    <3> QED
      BY <2>2, <2>3, <2>5, <3>1, ZenonT(30)
  <2>6. CASE chan[p] = "tickslock" /\ (done[p] = n[p] => WakeupDue("tick_wakeup"))
    <3>1. Top(c).pc = "tick_wakeup" \/ Top(c).then = "tick_wakeup" =>
            g.pc = "tick_wakeup" \/ g.then = "tick_wakeup"
      BY <2>4, <2>6, ZenonT(30)
    <3> QED
      BY <2>2, <2>3, <2>6, <3>1, ZenonT(30)
  <2> QED
    BY <2>1, <2>5, <2>6, ZenonT(30)

\* All of them, where no wakeup is made.
<1>RestsKept.
  ASSUME LockInv, RestInv, NEW c \in setting.cpus, Elsewhere(c), NoSleepers, OwnCounts(c),
         input'.r # input'.w => input.r # input.w, NEW g, Top(c)' = g,
         \A w \in Wakers : Top(c).pc = w \/ Top(c).then = w => g.pc = w \/ g.then = w
  PROVE  \A p \in Procs : Rests(p)'
  <2> USE <1>RestsKept
  <2> SUFFICES ASSUME NEW p \in Procs, state'[p] = "SLEEPING" PROVE Rests(p)'
    BY ZenonT(30) DEF Rests
  <2>1. state[p] = "SLEEPING" /\ chan'[p] = chan[p]
    BY ZenonT(30) DEF NoSleepers
  <2>2. p # Thread(c)
    BY <2>1, <1>RunnerAwake, ZenonT(30)
  <2>3. n'[p] = n[p] /\ done'[p] = done[p]
    BY <2>2, ZenonT(30) DEF OwnCounts
  <2> QED
    BY <2>1, <2>3, <1>RestKept, ZenonT(30)

\* Another processor whose process is about to sleep keeps what it has found:
\* it has the lock that guards it.
<1>TestedKept.
  ASSUME LockInv, RestInv, NEW c \in setting.cpus, Elsewhere(c), Tested(c)',
         (input'.r = input.r /\ input'.w = input.w) \/ "cons" \in HeldBy(Top(c)),
         OwnCounts(c) \/ ("tickslock" \in HeldBy(Top(c)) /\ n' = n)
  PROVE  \A d \in setting.cpus : Tested(d)'
  <2> USE <1>TestedKept
  <2> SUFFICES ASSUME NEW d \in setting.cpus, d # c PROVE Tested(d)'
    BY ZenonT(30)
  <2>1. Thread(d)' = Thread(d) /\ Top(d)' = Top(d)
    BY <1>OtherTops, ZenonT(30)
  <2> SUFFICES ASSUME ToSleep(Top(d))
               PROVE  \/ Top(d).on = "cons" /\ input'.r = input'.w
                      \/ Top(d).on = "tickslock" /\ done'[Thread(d)] # n'[Thread(d)]
    BY <2>1, ZenonT(30) DEF Tested, ToSleep
  <2>2. /\ Top(d).on \in HeldBy(Top(d)) /\ Thread(d) \in Procs
    BY <1>ToSleepHolds, ZenonT(30)
  <2>3. Top(d).on \notin HeldBy(Top(c))
    BY <2>2, <1>OneHolder, ZenonT(30)
  <2>4. Thread(d) # Thread(c)
    BY ThreadFacts, ZenonT(30)
  <2>5. Tested(d)
    BY ZenonT(30) DEF RestInv
  <2>6. CASE Top(d).on = "cons" /\ input.r = input.w
    BY <2>3, <2>6, ZenonT(30)
  <2>7. CASE Top(d).on = "tickslock" /\ done[Thread(d)] # n[Thread(d)]
    BY <2>2, <2>3, <2>4, <2>7, ZenonT(30) DEF OwnCounts
  <2> QED
    BY <2>5, <2>6, <2>7, ZenonT(30) DEF Tested

\* Code that does not wait for a lock has no other step in mind.
<1>NoThen.
  ASSUME LockInv, NEW c \in setting.cpus, Top(c).pc \notin Waiting
  PROVE  Top(c).then = "none"
  <2> USE <1>NoThen
  <2>1. Base(Thread(c), Top(c)) \/ Handler(Thread(c), Top(c))
    <3>1. Stack(Thread(c), at[Thread(c)]) /\ Top(c) = at[Thread(c)][1]
      BY ThreadFacts, ZenonT(30)
    <3> QED
      BY <3>1, Tops, ZenonT(30)
  <2> QED
    BY <2>1, ZenonT(30) DEF Base, Handler, Runs

\* A step that neither puts anybody to sleep nor changes what sleepers wait for.
<1>FreeStep.
  ASSUME LockInv, RestInv, NEW c \in setting.cpus, Elsewhere(c), NoSleepers, OwnCounts(c),
         input'.r = input.r, input'.w = input.w,
         \A w \in Wakers : Top(c).pc # w /\ Top(c).then # w, NEW g, Top(c)' = g, ~ToSleep(g)
  PROVE  RestInv'
  <2> USE <1>FreeStep
  <2>1. \A w \in Wakers : ~(Top(c).pc = w \/ Top(c).then = w)
    BY ZenonT(30)
  <2>2. \A p \in Procs : Rests(p)'
    BY <2>1, <1>RestsKept, ZenonT(30)
  <2>3. Tested(c)'
    BY ZenonT(30) DEF Tested, ToSleep
  <2>4. setting' = setting
    BY ZenonT(30) DEF Elsewhere
  <2>5. \A d \in setting.cpus : Tested(d)'
    BY <2>3, <1>TestedKept, ZenonT(30)
  <2> QED
    BY <2>2, <2>4, <2>5, ZenonT(30) DEF RestInv

\* The same for code that does not wait for a lock.
<1>PlainStep.
  ASSUME LockInv, RestInv, NEW c \in setting.cpus, Elsewhere(c), NoSleepers, OwnCounts(c),
         input'.r = input.r, input'.w = input.w,
         Top(c).pc \notin Waiting \cup Wakers, NEW g, Top(c)' = g, ~ToSleep(g)
  PROVE  RestInv'
  <2> USE <1>PlainStep
  <2>1. Top(c).then = "none"
    BY <1>NoThen, ZenonT(30)
  <2>2. \A w \in Wakers : Top(c).pc # w /\ Top(c).then # w
    BY <2>1 DEF Wakers
  <2> QED
    BY <2>2, <1>FreeStep, ZenonT(30)

\* The same where only the running frame changes.
<1>PlainTop.
  ASSUME LockInv, RestInv, NEW c \in setting.cpus, NEW f \in FrameSet, ~ToSleep(f), SetTop(c, f),
         NEW cp, cpu' = [cpu EXCEPT ![c] = cp] \/ cpu' = cpu, cp.proc = cpu[c].proc,
         setting' = setting, input'.r = input.r, input'.w = input.w, NoSleepers, OwnCounts(c),
         Top(c).pc \notin Waiting \cup Wakers
  PROVE  RestInv'
  <2> USE <1>PlainTop
  <2> DEFINE frames == [at[Thread(c)] EXCEPT ![1] = f]
  <2>1. at' = [at EXCEPT ![Thread(c)] = frames]
    BY DEF SetTop
  <2> HIDE DEF frames
  <2>2. Elsewhere(c)
    BY <2>1, <1>ElsewhereTop, ZenonT(30)
  <2>3. c \in CPUs /\ cpu \in [CPUs -> CpuSet]
    BY ThreadFacts, ZenonT(30) DEF LockInv, Types
  <2>4. cpu'[c].proc = cpu[c].proc
    BY <2>3
  <2>5. Top(c)' = f
    BY <2>4, <1>TopAfter, ZenonT(30)
  <2> QED
    BY <2>2, <2>5, <1>PlainStep, ZenonT(30)

\* A step that changes nothing of the processes, and no index of the ring.
<1>QuietPlain.
  ASSUME UNCHANGED Procvars, NEW c
  PROVE  NoSleepers /\ OwnCounts(c)
  BY <1>QuietPlain, ZenonT(30) DEF Procvars, NoSleepers, OwnCounts

\* release leaves the process with its processor.
<1>ReleaseCpu.
  ASSUME LockInv, NEW c \in setting.cpus, NEW lk, release(c, lk)
  PROVE  \E cp : (cpu' = [cpu EXCEPT ![c] = cp] \/ cpu' = cpu) /\ cp.proc = cpu[c].proc
  <2> USE <1>ReleaseCpu
  <2>1. cpu' = [cpu EXCEPT ![c] = popcli(cpu[c])]
    BY DEF release
  <2>2. cpu[c] \in CpuSet
    BY ThreadFacts, ZenonT(30)
  <2>3. popcli(cpu[c]).proc = cpu[c].proc
    BY <2>2, PopFields, ZenonT(30)
  <2> QED
    BY <2>1, <2>3, ZenonT(30)

\* Steps of the scheduler, of handlers and of system calls that go on elsewhere.
<1>QuietRest.
  ASSUME LockInv, RestInv, NEW c \in setting.cpus,
         \/ sti(c) \/ forkret(c) \/ trap_clock(c) \/ yielded(c) \/ key_end(c) \/ procdump(c)
         \/ consolewrite(c) \/ sys_write(c) \/ sys_kill(c) \/ trap_killed(c)
  PROVE  RestInv'
  <2> USE <1>QuietRest
  <2>1. UNCHANGED Procvars /\ setting' = setting /\ input' = input
    BY ZenonT(30) DEF sti, forkret, trap_clock, yielded, key_end, procdump, consolewrite, sys_write,
       sys_kill, trap_killed
  <2>2. NoSleepers /\ OwnCounts(c)
    BY <2>1, <1>QuietPlain, ZenonT(30)
  <2>3. Top(c).pc \in {"sti", "forkret", "clock", "yielded", "key", "listed", "put", "user"}
    BY ZenonT(30) DEF sti, forkret, trap_clock, yielded, key_end, procdump, consolewrite, sys_write,
       sys_kill, trap_killed, Call, At
  <2>4. Top(c).pc \notin Waiting \cup Wakers
    BY <2>3 DEF Waiting, Wakers
  <2>5. Top(c) \in FrameSet /\ cpu[c] \in CpuSet /\ c \in CPUs /\ cpu \in [CPUs -> CpuSet]
    BY ThreadFacts, ZenonT(30) DEF LockInv, Types
  <2>6. \E cp : (cpu' = [cpu EXCEPT ![c] = cp] \/ cpu' = cpu) /\ cp.proc = cpu[c].proc
    <3>1. CASE sti(c)
      <4>0. cpu' = [cpu EXCEPT ![c].if = TRUE, ![c].p = 1]
        BY <3>1, ZenonT(30) DEF sti
      <4>1. cpu' = [cpu EXCEPT ![c] = [[cpu[c] EXCEPT !.if = TRUE] EXCEPT !.p = 1]]
        BY <2>5, <4>0, ZenonT(30)
      <4>2. [[cpu[c] EXCEPT !.if = TRUE] EXCEPT !.p = 1].proc = cpu[c].proc
        BY <2>5 DEF CpuSet
      <4> QED
        BY <4>1, <4>2, ZenonT(30)
    <3>2. CASE forkret(c)
      <4> DEFINE half == popcli(cpu[c])
      <4>1. cpu' = [cpu EXCEPT ![c] = [half EXCEPT !.if = TRUE]]
        BY <3>2, ZenonT(30) DEF forkret
      <4>2. half \in CpuSet /\ half.proc = cpu[c].proc
        BY <2>5, PopFields, ZenonT(30)
      <4> HIDE DEF half
      <4>3. [half EXCEPT !.if = TRUE].proc = cpu[c].proc
        BY <4>2 DEF CpuSet
      <4> QED
        BY <4>1, <4>3, ZenonT(30)
    <3>3. CASE yielded(c) \/ key_end(c) \/ procdump(c) \/ consolewrite(c)
      <4>1. \E lk : release(c, lk)
        BY <3>3, ZenonT(30) DEF yielded, key_end, procdump, consolewrite, Returns
      <4> QED
        BY <4>1, <1>ReleaseCpu, ZenonT(30)
    <3>4. CASE trap_clock(c) \/ sys_write(c) \/ sys_kill(c) \/ trap_killed(c)
      <4>1. cpu' = cpu
        BY <3>4, ZenonT(30) DEF trap_clock, sys_write, sys_kill, trap_killed
      <4> QED
        BY <4>1, ZenonT(30)
    <3> QED
      BY <3>1, <3>2, <3>3, <3>4, ZenonT(30)
  <2>7. \E f \in FrameSet : ~ToSleep(f) /\ SetTop(c, f)
    <3>1. \/ \E pc \in {"iret", "return"} : SetTop(c, To(Top(c), pc))
          \/ \E lk \in {"cons", "ptable"}, then \in {"pick", "exit", "yield", "put", "kill"} :
               SetTop(c, Acquiring(Top(c), lk, then))
          \/ SetTop(c, Acquiring([Top(c) EXCEPT !.dump = FALSE], "cons", "listed"))
          \/ SetTop(c, Frame("user"))
      BY ZenonT(30) DEF sti, forkret, trap_clock, yielded, key_end, procdump, consolewrite, sys_write,
         sys_kill, trap_killed, Returns, Call
    <3>2. ASSUME NEW pc \in {"iret", "return"}
          PROVE  To(Top(c), pc) \in FrameSet /\ ~ToSleep(To(Top(c), pc))
      <4>1. pc \in Pcs /\ pc # "sleep"
        BY Names
      <4> QED
        BY <2>5, <4>1, Awake, ZenonT(30)
    <3>3. ASSUME NEW lk \in {"cons", "ptable"}, NEW then \in {"pick", "exit", "yield", "put", "kill"}
          PROVE  Acquiring(Top(c), lk, then) \in FrameSet /\ ~ToSleep(Acquiring(Top(c), lk, then))
      <4>1. then \in Thens /\ then # "sleep" /\ lk \in Locks
        BY Names
      <4> QED
        BY <2>5, <4>1, Awake, ZenonT(30)
    <3>4. /\ Acquiring([Top(c) EXCEPT !.dump = FALSE], "cons", "listed") \in FrameSet
          /\ ~ToSleep(Acquiring([Top(c) EXCEPT !.dump = FALSE], "cons", "listed"))
      <4> DEFINE g == [Top(c) EXCEPT !.dump = FALSE]
      <4>1. g \in FrameSet
        BY <2>5, ZenonT(30) DEF FrameSet
      <4> HIDE DEF g
      <4>2. "listed" \in Thens /\ "listed" # "sleep" /\ "cons" \in Locks
        BY Names, ZenonT(30)
      <4>3. Acquiring(g, "cons", "listed") \in FrameSet /\ ~ToSleep(Acquiring(g, "cons", "listed"))
        BY <4>1, <4>2, Awake, ZenonT(30)
      <4> QED
        BY <4>3 DEF g
    <3>5. Frame("user") \in FrameSet /\ ~ToSleep(Frame("user"))
      BY Awake, Names, ZenonT(30)
    <3> QED
      BY <3>1, <3>2, <3>3, <3>4, <3>5, ZenonT(30)
  <2> QED
    BY <2>1, <2>2, <2>4, <2>6, <2>7, <1>PlainTop, ZenonT(30)

\* A processor's own process, in the table.
<1>Own.
  ASSUME LockInv, NEW c \in setting.cpus
  PROVE  \A p \in Procs : p # Thread(c) => p # cpu[c].proc
  <2> USE <1>Own
  <2>1. cpu[c].proc # None => Thread(c) = cpu[c].proc
    BY ThreadFacts, ZenonT(30)
  <2>2. None \notin Procs
    BY Numbers, ZenonT(30)
  <2> QED
    BY <2>1, <2>2, ZenonT(30)

\* An entry of the process' own is changed in its counts.
<1>OwnEntry.
  ASSUME LockInv, NEW c \in setting.cpus, NEW x, NEW y,
         n' = n \/ n' = [n EXCEPT ![cpu[c].proc] = x],
         done' = done \/ done' = [done EXCEPT ![cpu[c].proc] = y]
  PROVE  OwnCounts(c)
  <2> USE <1>OwnEntry
  <2>1. \A p \in Procs : p # Thread(c) => p # cpu[c].proc
    BY <1>Own, ZenonT(30)
  <2>2. DOMAIN n = Procs /\ DOMAIN done = Procs
    BY ZenonT(30) DEF LockInv, Types
  <2>3. \A p \in Procs : p # cpu[c].proc => n'[p] = n[p]
    BY <2>2
  <2>4. \A p \in Procs : p # cpu[c].proc => done'[p] = done[p]
    BY <2>2
  <2> QED
    BY <2>1, <2>3, <2>4, ZenonT(30) DEF OwnCounts

\* Steps of a process in its own system call.
<1>WokenRest.
  ASSUME LockInv, RestInv, NEW c \in setting.cpus, woken(c)
  PROVE  RestInv'
  <2> USE <1>WokenRest
  <2> DEFINE f == Acquiring(Top(c), Top(c).on, "loop")
  <2>1. /\ Top(c).pc = "woken" /\ release(c, "ptable") /\ SetTop(c, f)
        /\ setting' = setting /\ state' = state /\ n' = n /\ done' = done /\ input' = input
        /\ chan' = [chan EXCEPT ![cpu[c].proc] = None]
    BY ZenonT(30) DEF woken, At
  <2>2. Top(c) \in FrameSet /\ DOMAIN chan = Procs
    BY ThreadFacts, ZenonT(30) DEF LockInv, Types
  <2>3. Top(c).on \in {"cons", "tickslock"}
    BY <2>1, WhereAt, ZenonT(30)
  <2>4. Top(c).on \in Locks /\ "loop" \in Thens /\ "loop" # "sleep"
    BY <2>3, Names
  <2>5. f \in FrameSet /\ ~ToSleep(f)
    BY <2>2, <2>4, Awake, ZenonT(30)
  <2> HIDE DEF f
  <2>6. Top(c).pc \notin Waiting \cup Wakers
    BY <2>1 DEF Waiting, Wakers
  <2>7. NoSleepers
    <3> SUFFICES ASSUME NEW p \in Procs, state[p] = "SLEEPING" PROVE chan'[p] = chan[p]
      BY <2>1, ZenonT(30) DEF NoSleepers
    <3>1. p # Thread(c)
      BY <1>RunnerAwake, ZenonT(30)
    <3>2. p # cpu[c].proc
      BY <3>1, <1>Own, ZenonT(30)
    <3> QED
      BY <2>1, <2>2, <3>2
  <2>8. OwnCounts(c)
    BY <2>1, <1>OwnEntry, ZenonT(30)
  <2>9. \E cp : (cpu' = [cpu EXCEPT ![c] = cp] \/ cpu' = cpu) /\ cp.proc = cpu[c].proc
    BY <2>1, <1>ReleaseCpu, ZenonT(30)
  <2> QED
    BY <2>1, <2>5, <2>6, <2>7, <2>8, <2>9, <1>PlainTop, ZenonT(30)

\* The same for the start and the end of system calls.
<1>CallRest.
  ASSUME LockInv, RestInv, NEW c \in setting.cpus,
         sys_read(c) \/ sys_sleep(c) \/ sleep_start(c) \/ syscall_return(c)
  PROVE  RestInv'
  <2> USE <1>CallRest
  <2>1. /\ Top(c).pc \in {"user", "start", "return"}
        /\ setting' = setting /\ state' = state /\ chan' = chan /\ input' = input
    BY ZenonT(30) DEF sys_read, sys_sleep, sleep_start, syscall_return, Call, At
  <2>2. Top(c).pc \notin Waiting \cup Wakers
    BY <2>1 DEF Waiting, Wakers
  <2>3. NoSleepers
    BY <2>1, ZenonT(30) DEF NoSleepers
  <2>4. \E x, y : /\ n' = n \/ n' = [n EXCEPT ![cpu[c].proc] = x]
                  /\ done' = done \/ done' = [done EXCEPT ![cpu[c].proc] = y]
    BY ZenonT(30) DEF sys_read, sys_sleep, sleep_start, syscall_return
  <2>5. OwnCounts(c)
    BY <2>4, <1>OwnEntry, ZenonT(30)
  <2>6. Top(c) \in FrameSet /\ cpu[c] \in CpuSet
    BY ThreadFacts, ZenonT(30)
  <2>7. \E cp : (cpu' = [cpu EXCEPT ![c] = cp] \/ cpu' = cpu) /\ cp.proc = cpu[c].proc
    <3>1. cpu' = cpu \/ cpu' = [cpu EXCEPT ![c].if = TRUE]
      BY ZenonT(30) DEF sys_read, sys_sleep, sleep_start, syscall_return
    <3>2. cpu' = cpu \/ cpu' = [cpu EXCEPT ![c] = [cpu[c] EXCEPT !.if = TRUE]]
      BY <3>1
    <3>3. [cpu[c] EXCEPT !.if = TRUE].proc = cpu[c].proc
      BY <2>6 DEF CpuSet
    <3> QED
      BY <3>2, <3>3, ZenonT(30)
  <2>8. \E f \in FrameSet : ~ToSleep(f) /\ SetTop(c, f)
    <3>1. \/ SetTop(c, To(Top(c), "loop")) \/ SetTop(c, Frame("user"))
          \/ \E on \in {"cons", "tickslock", "none"}, lk \in {"cons", "tickslock", "ptable"},
                then \in {"loop", "start", "exit"} :
               SetTop(c, Acquiring([Top(c) EXCEPT !.on = on], lk, then))
      BY ZenonT(30) DEF sys_read, sys_sleep, sleep_start, syscall_return, Call
    <3>2. ASSUME NEW on \in {"cons", "tickslock", "none"}, NEW lk \in {"cons", "tickslock", "ptable"},
                 NEW then \in {"loop", "start", "exit"}
          PROVE  /\ Acquiring([Top(c) EXCEPT !.on = on], lk, then) \in FrameSet
                 /\ ~ToSleep(Acquiring([Top(c) EXCEPT !.on = on], lk, then))
      <4> DEFINE g == [Top(c) EXCEPT !.on = on]
      <4>1. g \in FrameSet
        BY <2>6, OnFields, ZenonT(30)
      <4> HIDE DEF g
      <4>2. then \in Thens /\ then # "sleep" /\ lk \in Locks
        BY Names
      <4>3. Acquiring(g, lk, then) \in FrameSet /\ ~ToSleep(Acquiring(g, lk, then))
        BY <4>1, <4>2, Awake, ZenonT(30)
      <4> QED
        BY <4>3 DEF g
    <3>3. "loop" \in Pcs /\ "user" \in Pcs /\ "loop" # "sleep" /\ "user" # "sleep"
      BY Names
    <3>4. To(Top(c), "loop") \in FrameSet /\ ~ToSleep(To(Top(c), "loop"))
      BY <2>6, <3>3, Awake, ZenonT(30)
    <3>5. Frame("user") \in FrameSet /\ ~ToSleep(Frame("user"))
      BY <3>3, Awake, ZenonT(30)
    <3> QED
      BY <3>1, <3>2, <3>4, <3>5, ZenonT(30)
  <2> QED
    BY <2>1, <2>2, <2>3, <2>5, <2>7, <2>8, <1>PlainTop, ZenonT(30)

\* What system calls do under their locks, and the keys that they read.
<1>Bodies.
  \A c \in setting.cpus : LockInv /\ RestInv /\ (\/ consoleread(c) \/ sleep_loop(c) \/ kill(c)
                                                 \/ Indices /\ \E k \in setting.keys : Key(c, k)) => RestInv'
  \* A step under cons.lock that changes the ring, or leaves a wakeup for it.
  <2>RingRest.
    ASSUME LockInv, RestInv, NEW c \in setting.cpus, Elsewhere(c), NoSleepers, OwnCounts(c),
           "cons" \in HeldBy(Top(c)), Top(c).pc \notin Waiting \cup Wakers,
           NEW g, Top(c)' = g, ~ToSleep(g),
           (input'.r # input'.w => input.r # input.w) \/ g.then = "key_wakeup"
    PROVE  RestInv'
    <3> USE <2>RingRest
    <3>1. Top(c).then = "none"
      BY <1>NoThen, ZenonT(30)
    <3>2. \A w \in Wakers : ~(Top(c).pc = w \/ Top(c).then = w)
      BY <3>1, ZenonT(30) DEF Wakers
    <3>3. ASSUME NEW p \in Procs, state'[p] = "SLEEPING" PROVE Rests(p)'
      <4>1. state[p] = "SLEEPING" /\ chan'[p] = chan[p]
        BY <3>3, ZenonT(30) DEF NoSleepers
      <4>2. p # Thread(c)
        BY <4>1, <1>RunnerAwake, ZenonT(30)
      <4>3. n'[p] = n[p] /\ done'[p] = done[p]
        BY <4>2, ZenonT(30) DEF OwnCounts
      <4> QED
        BY <3>2, <4>1, <4>3, <1>RestKept, ZenonT(30)
    <3>4. \A p \in Procs : Rests(p)'
      BY <3>3, ZenonT(30) DEF Rests
    <3>5. Tested(c)'
      BY ZenonT(30) DEF Tested, ToSleep
    <3>6. setting' = setting
      BY ZenonT(30) DEF Elsewhere
    <3>7. \A d \in setting.cpus : Tested(d)'
      BY <3>5, <1>TestedKept, ZenonT(30)
    <3> QED
      BY <3>4, <3>6, <3>7, ZenonT(30) DEF RestInv

  \* A call that returns.
  <2>ReturnsRest.
    ASSUME LockInv, RestInv, NEW c \in setting.cpus, Top(c).pc \in {"loop", "put", "kill"},
           NEW lk, Returns(c, lk), setting' = setting, NoSleepers, OwnCounts(c),
           input'.r = input.r, input'.w = input.w
    PROVE  RestInv'
    <3> USE <2>ReturnsRest
    <3> DEFINE f == To(Top(c), "return")
    <3>1. SetTop(c, f) /\ release(c, lk)
      BY ZenonT(30) DEF Returns
    <3>2. "return" \in Pcs /\ "return" # "sleep"
      BY Names
    <3>3. Top(c) \in FrameSet
      BY ThreadFacts, ZenonT(30)
    <3>4. f \in FrameSet /\ ~ToSleep(f)
      BY <3>2, <3>3, Awake, ZenonT(30)
    <3> HIDE DEF f
    <3>5. Top(c).pc \notin Waiting \cup Wakers
      BY DEF Waiting, Wakers
    <3>6. \E cp : (cpu' = [cpu EXCEPT ![c] = cp] \/ cpu' = cpu) /\ cp.proc = cpu[c].proc
      BY <3>1, <1>ReleaseCpu, ZenonT(30)
    <3> QED
      BY <3>1, <3>4, <3>5, <3>6, <1>PlainTop, ZenonT(30)

  \* kill at most wakes a sleeper.
  <2>KillRest.
    ASSUME LockInv, RestInv, NEW c \in setting.cpus, kill(c)
    PROVE  RestInv'
    <3> USE <2>KillRest
    <3>1. /\ Top(c).pc = "kill" /\ Returns(c, "ptable") /\ setting' = setting /\ input' = input
          /\ chan' = chan /\ n' = n /\ done' = done
          /\ \E q : state' = [state EXCEPT ![q] = "RUNNABLE"] \/ state' = state
      BY ZenonT(30) DEF kill, At
    <3>2. DOMAIN state = Procs
      BY ZenonT(30) DEF LockInv, Types
    <3>3. \A p \in Procs : state'[p] = "SLEEPING" => state[p] = "SLEEPING"
      BY <3>1, <3>2, ZenonT(30)
    <3>4. NoSleepers
      BY <3>1, <3>3, ZenonT(30) DEF NoSleepers
    <3>5. OwnCounts(c)
      BY <3>1, <1>OwnEntry, ZenonT(30)
    <3>6. Top(c).pc \in {"loop", "put", "kill"}
      BY <3>1, ZenonT(30)
    <3> QED
      BY <3>1, <3>4, <3>5, <3>6, <2>ReturnsRest, ZenonT(30)

  \* A process goes to sleep(): it has just found nothing to do.
  <2>SleepsRest.
    ASSUME LockInv, RestInv, NEW c \in setting.cpus, Top(c).pc = "loop", Sleeps(c),
           UNCHANGED <<setting, state, chan, n, input>>, done' = done,
           \/ Top(c).on = "cons" /\ input.r = input.w
           \/ Top(c).on = "tickslock" /\ done[Thread(c)] # n[Thread(c)]
    PROVE  RestInv'
    <3> USE <2>SleepsRest
    <3> DEFINE f == Acquiring(Top(c), "ptable", "sleep")
               frames == [at[Thread(c)] EXCEPT ![1] = f]
    <3>1. SetTop(c, f) /\ cpu' = cpu
      BY ZenonT(30) DEF Sleeps
    <3>2. at' = [at EXCEPT ![Thread(c)] = frames]
      BY <3>1 DEF SetTop
    <3>3. Top(c) \in FrameSet /\ "ptable" \in Locks /\ "sleep" \in Thens
      <4>1. "sleep" \in Thens
        BY ZenonT(30) DEF Thens, ProcThen
      <4> QED
        BY <4>1, Names, ThreadFacts, ZenonT(30)
    <3>4. f \in FrameSet /\ f.on = Top(c).on
      BY <3>3, AcquiringFields
    <3> HIDE DEF f, frames
    <3>5. Elsewhere(c)
      BY <3>1, <3>2, <1>ElsewhereTop, ZenonT(30)
    <3>6. Thread(c)' = Thread(c) /\ Top(c)' = f
      BY <3>1, <3>4, <1>TopAfter, ZenonT(30)
    <3>7. NoSleepers
      BY ZenonT(30) DEF NoSleepers
    <3>8. OwnCounts(c)
      BY <1>OwnEntry, ZenonT(30)
    <3>9. \A w \in Wakers : ~(Top(c).pc = w \/ Top(c).then = w)
      <4>1. Top(c).pc \notin Waiting
        BY ZenonT(30) DEF Waiting
      <4>2. Top(c).then = "none"
        BY <4>1, <1>NoThen, ZenonT(30)
      <4> QED
        BY <4>2, ZenonT(30) DEF Wakers
    <3>10. \A p \in Procs : Rests(p)'
      BY <3>5, <3>6, <3>7, <3>8, <3>9, <1>RestsKept, ZenonT(30)
    <3>11. Tested(c)'
      BY <3>4, <3>6, ZenonT(30) DEF Tested
    <3>12. \A d \in setting.cpus : Tested(d)'
      BY <3>5, <3>8, <3>11, <1>TestedKept, ZenonT(30)
    <3> QED
      BY <3>10, <3>12, ZenonT(30) DEF RestInv

  \* consoleread takes what is there, returns, or sleeps when there is nothing.
  <2>ConsolereadRest.
    ASSUME LockInv, RestInv, NEW c \in setting.cpus, consoleread(c)
    PROVE  RestInv'
    <3> USE <2>ConsolereadRest
    <3>1. /\ Top(c).pc = "loop" /\ Top(c).on = "cons"
          /\ setting' = setting /\ state' = state /\ chan' = chan /\ n' = n
      BY ZenonT(30) DEF consoleread, At
    <3>2. Top(c).pc \in {"loop", "put", "kill"} /\ Top(c).pc \notin Waiting \cup Wakers
      BY <3>1, ZenonT(30) DEF Waiting, Wakers
    <3>3. NoSleepers
      BY <3>1, ZenonT(30) DEF NoSleepers
    <3>4. \E y : done' = done \/ done' = [done EXCEPT ![cpu[c].proc] = y]
      <4>1. \/ done' = done
            \/ done' = [done EXCEPT ![cpu[c].proc] =
                          IF NextChar(input) = "eot" THEN done[cpu[c].proc] ELSE done[cpu[c].proc] + 1]
        BY DEF consoleread
      <4> QED
        BY <4>1, ZenonT(30)
    <3>5. OwnCounts(c)
      BY <3>1, <3>4, <1>OwnEntry, ZenonT(30)
    <3>6. \/ Returns(c, "cons") /\ done' = done /\ input' = input
          \/ Sleeps(c) /\ done' = done /\ input' = input /\ input.r = input.w
          \/ input.r # input.w /\ (Returns(c, "cons") \/ UNCHANGED <<cpu, at>>)
      BY ZenonT(30) DEF consoleread
    <3>7. CASE Returns(c, "cons") /\ done' = done /\ input' = input
      BY <3>1, <3>2, <3>3, <3>5, <3>7, <2>ReturnsRest, ZenonT(30)
    <3>8. CASE Sleeps(c) /\ done' = done /\ input' = input /\ input.r = input.w
      BY <3>1, <3>8, <2>SleepsRest, ZenonT(30)
    <3>9. CASE input.r # input.w /\ (Returns(c, "cons") \/ UNCHANGED <<cpu, at>>)
      <4>1. "cons" \in HeldBy(Top(c))
        BY <3>1, HeldByPc
      <4>2. Top(c) \in FrameSet /\ cpu \in [CPUs -> CpuSet] /\ c \in CPUs
        BY ThreadFacts, ZenonT(30) DEF LockInv, Types
      <4>3. CASE Returns(c, "cons")
        <5> DEFINE f == To(Top(c), "return")
                   frames == [at[Thread(c)] EXCEPT ![1] = f]
        <5>1. SetTop(c, f) /\ release(c, "cons")
          BY <4>3, ZenonT(30) DEF Returns
        <5>2. at' = [at EXCEPT ![Thread(c)] = frames]
          BY <5>1 DEF SetTop
        <5>3. "return" \in Pcs /\ "return" # "sleep"
          BY Names
        <5>4. f \in FrameSet /\ ~ToSleep(f)
          BY <4>2, <5>3, Awake, ZenonT(30)
        <5> HIDE DEF f, frames
        <5>5. PICK cp : (cpu' = [cpu EXCEPT ![c] = cp] \/ cpu' = cpu) /\ cp.proc = cpu[c].proc
          BY <5>1, <1>ReleaseCpu, ZenonT(30)
        <5>6. Elsewhere(c)
          BY <3>1, <5>2, <5>5, <1>ElsewhereTop, ZenonT(30)
        <5>7. cpu'[c].proc = cpu[c].proc
          BY <4>2, <5>5
        <5>8. Top(c)' = f
          BY <5>1, <5>4, <5>7, <1>TopAfter, ZenonT(30)
        <5> QED
          BY <3>2, <3>3, <3>5, <3>9, <4>1, <5>4, <5>6, <5>8, <2>RingRest, ZenonT(30)
      <4>4. CASE UNCHANGED <<cpu, at>>
        <5>1. Elsewhere(c)
          BY <3>1, <4>4, ZenonT(30) DEF Elsewhere
        <5>2. Top(c)' = Top(c)
          BY <4>4, ZenonT(30) DEF Top, Thread, Sched
        <5>3. ~ToSleep(Top(c))
          <6>1. Top(c).then = "none"
            BY <3>2, <1>NoThen, ZenonT(30)
          <6> QED
            BY <3>1, <6>1 DEF ToSleep
        <5> QED
          BY <3>2, <3>3, <3>5, <3>9, <4>1, <5>1, <5>2, <5>3, <2>RingRest, ZenonT(30)
      <4> QED
        BY <3>9, <4>3, <4>4, ZenonT(30)
    <3> QED
      BY <3>6, <3>7, <3>8, <3>9, ZenonT(30)

  \* The loop of sys_sleep returns, or sleeps for ticks that are still to come.
  <2>SleepLoopRest.
    ASSUME LockInv, RestInv, NEW c \in setting.cpus, sleep_loop(c)
    PROVE  RestInv'
    <3> USE <2>SleepLoopRest
    <3>1. /\ Top(c).pc = "loop" /\ Top(c).on = "tickslock" /\ UNCHANGED Procvars
          /\ setting' = setting /\ input' = input
          /\ \/ Returns(c, "tickslock")
             \/ Sleeps(c) /\ done[cpu[c].proc] # n[cpu[c].proc]
      BY ZenonT(30) DEF sleep_loop, At
    <3>2. Top(c).pc \in {"loop", "put", "kill"} /\ Thread(c) = cpu[c].proc
      BY <3>1, WhereAt, ZenonT(30)
    <3>3. NoSleepers /\ OwnCounts(c)
      BY <3>1, <1>QuietPlain, ZenonT(30)
    <3>4. CASE Returns(c, "tickslock")
      BY <3>1, <3>2, <3>3, <3>4, <2>ReturnsRest, ZenonT(30)
    <3>5. CASE Sleeps(c) /\ done[cpu[c].proc] # n[cpu[c].proc]
      <4>1. state' = state /\ chan' = chan /\ n' = n /\ done' = done
        BY <3>1, ZenonT(30) DEF Procvars
      <4> QED
        BY <3>1, <3>2, <3>5, <4>1, <2>SleepsRest, ZenonT(30)
    <3> QED
      BY <3>1, <3>4, <3>5, ZenonT(30)

  \* What a key may do to them.
  <2>RingFields.
    ASSUME NEW in, {"r", "w"} \subseteq DOMAIN in
    PROVE  /\ KillLine(in).r = in.r /\ KillLine(in).w = in.w
           /\ Backspace(in).r = in.r /\ Backspace(in).w = in.w
           /\ \A ch : ~EntersLine(in, ch) => Stored(in, ch).r = in.r /\ Stored(in, ch).w = in.w
    <3> USE <2>RingFields
    <3>1. "r" # "e" /\ "w" # "e" /\ "r" # "buf" /\ "w" # "buf" /\ "r" # "w"
      OBVIOUS
    <3>2. KillLine(in).r = in.r /\ KillLine(in).w = in.w
      BY <3>1 DEF KillLine
    <3>3. Backspace(in).r = in.r /\ Backspace(in).w = in.w
      BY <3>1 DEF Backspace
    <3>4. ASSUME NEW ch, ~EntersLine(in, ch)
          PROVE  Stored(in, ch).r = in.r /\ Stored(in, ch).w = in.w
      BY <3>1, <3>4 DEF Stored
    <3> QED
      BY <3>2, <3>3, <3>4, ZenonT(30)

  \* A key: the wakeup for what it enters comes after it.
  <2>KeyRest.
    ASSUME LockInv, RestInv, Indices, NEW c \in setting.cpus, NEW k, Key(c, k)
    PROVE  RestInv'
    <3> USE <2>KeyRest
    <3> DEFINE f == Top(c)
               dumps == [f EXCEPT !.dump = TRUE]
               wakes == Acquiring(f, "ptable", "key_wakeup")
    <3>1. /\ f.pc = "key" /\ UNCHANGED Procvars /\ setting' = setting /\ cpu' = cpu
      BY ZenonT(30) DEF Key, At
    <3>2. NoSleepers /\ OwnCounts(c)
      BY <3>1, <1>QuietPlain, ZenonT(30)
    <3>3. f \in FrameSet /\ "key_wakeup" \in Thens /\ "ptable" \in Locks /\ "key_wakeup" # "sleep"
      BY ThreadFacts, Names, ZenonT(30)
    <3>4. f.pc \notin Waiting \cup Wakers /\ "cons" \in HeldBy(f)
      BY <3>1, HeldByPc, ZenonT(30) DEF Waiting, Wakers
    <3>5. f.then = "none"
      BY <3>4, <1>NoThen, ZenonT(30)
    <3>6. ~ToSleep(f)
      BY <3>1, <3>5 DEF ToSleep
    <3>7. dumps \in FrameSet /\ ~ToSleep(dumps)
      <4>1. dumps \in FrameSet /\ dumps.pc = f.pc /\ dumps.then = f.then
        BY <3>3, ZenonT(30) DEF FrameSet
      <4> QED
        BY <3>6, <4>1, ZenonT(30) DEF ToSleep
    <3>8. wakes \in FrameSet /\ ~ToSleep(wakes)
      BY <3>3, Awake, ZenonT(30)
    <3>9. wakes.then = "key_wakeup"
      BY <3>3, AcquiringFields
    <3>10. \/ SetTop(c, wakes)
           \/ (SetTop(c, f) \/ SetTop(c, dumps)) /\ input'.r = input.r /\ input'.w = input.w
      <4> DEFINE ch == IF k = "cr" THEN "nl" ELSE k
      <4>1. \/ SetTop(c, wakes)
            \/ /\ SetTop(c, f) \/ SetTop(c, dumps)
               /\ \/ input' \in {input, KillLine(input), Backspace(input)}
                  \/ input' = Stored(input, ch) /\ ~EntersLine(input, ch)
        <5> HIDE DEF f, dumps, wakes
        <5> QED
          BY DEF Key, f, dumps, wakes
      <4>2. {"r", "w"} \subseteq DOMAIN input
        BY ZenonT(30) DEF Indices
      <4> HIDE DEF ch
      <4>3. \A x \in {input, KillLine(input), Backspace(input)} : x.r = input.r /\ x.w = input.w
        BY <4>2, <2>RingFields, ZenonT(30)
      <4>4. ~EntersLine(input, ch) =>
              Stored(input, ch).r = input.r /\ Stored(input, ch).w = input.w
        BY <4>2, <2>RingFields, ZenonT(30)
      <4> QED
        BY <4>1, <4>3, <4>4, ZenonT(30)
    <3> HIDE DEF f, dumps, wakes
    <3>11. ASSUME NEW g \in FrameSet, SetTop(c, g) PROVE Elsewhere(c) /\ Top(c)' = g
      <4> DEFINE frames == [at[Thread(c)] EXCEPT ![1] = g]
      <4>1. at' = [at EXCEPT ![Thread(c)] = frames]
        BY <3>11 DEF SetTop
      <4> HIDE DEF frames
      <4>2. Elsewhere(c)
        BY <3>1, <4>1, <1>ElsewhereTop, ZenonT(30)
      <4>3. Top(c)' = g
        BY <3>1, <3>11, <1>TopAfter, ZenonT(30)
      <4> QED
        BY <4>2, <4>3, ZenonT(30)
    <3>12. CASE SetTop(c, wakes)
      BY <3>2, <3>4, <3>8, <3>9, <3>11, <3>12, <2>RingRest, ZenonT(30) DEF f
    <3>13. CASE (SetTop(c, f) \/ SetTop(c, dumps)) /\ input'.r = input.r /\ input'.w = input.w
      <4>1. PICK g \in FrameSet : SetTop(c, g) /\ ~ToSleep(g)
        BY <3>3, <3>6, <3>7, <3>13, ZenonT(30)
      <4>2. Elsewhere(c) /\ Top(c)' = g
        BY <3>11, <4>1, ZenonT(30)
      <4> QED
        BY <3>2, <3>4, <3>13, <4>1, <4>2, <1>PlainStep, ZenonT(30) DEF f
    <3> QED
      BY <3>10, <3>12, <3>13, ZenonT(30)

  <2> QED
    BY <2>KillRest, <2>ConsolereadRest, <2>SleepLoopRest, <2>KeyRest, ZenonT(30)

\* Interrupts begin and end.
<1>Traps.
  \A c \in setting.cpus : LockInv /\ RestInv /\ (timer(c) \/ kbdintr(c) \/ iret(c)) => RestInv'
  \* A process about to sleep has a lock, and a handler never is.
  <2>SleepyFrames.
    ASSUME NEW t, NEW f, ToSleep(f)
    PROVE  ~Handler(t, f) /\ (Base(t, f) => HeldBy(f) # {})
    <3> USE <2>SleepyFrames
    <3>1. ~Handler(t, f)
      BY DEF Handler, Runs, Waiting, TrapCode, PreemptCode, TrapThen, PreemptThen, ToSleep
    <3>2. ASSUME Base(t, f) PROVE f.pc = "sleep" \/ (f.pc \in Waiting /\ f.then = "sleep")
      BY <3>2 DEF Base, Runs, ToSleep
    <3>3. f.pc = "sleep" => HeldBy(f) # {}
      BY HeldByPc
    <3>4. f.pc \in Waiting /\ f.then = "sleep" => HeldBy(f) # {}
      BY HeldByThen
    <3> QED
      BY <3>1, <3>2, <3>3, <3>4, ZenonT(30)

  \* iret goes back to code without a lock.
  <2>IretRest.
    ASSUME LockInv, RestInv, NEW c \in setting.cpus, iret(c)
    PROVE  RestInv'
    <3> USE <2>IretRest
    <3>1. /\ Top(c).pc = "iret" /\ UNCHANGED Procvars /\ setting' = setting /\ input' = input
      BY ZenonT(30) DEF iret, At
    <3>2. NoSleepers /\ OwnCounts(c)
      BY <3>1, <1>QuietPlain, ZenonT(30)
    <3>3. Top(c).pc \notin Waiting \cup Wakers
      BY <3>1 DEF Waiting, Wakers
    <3>4. Top(c) \in FrameSet /\ cpu[c] \in CpuSet /\ c \in CPUs /\ cpu \in [CPUs -> CpuSet]
      BY ThreadFacts, ZenonT(30) DEF LockInv, Types
    <3>5. CASE SetTop(c, Acquiring(Top(c), "ptable", "exit")) /\ cpu' = cpu
      <4>1. "exit" \in Thens /\ "exit" # "sleep" /\ "ptable" \in Locks
        BY Names
      <4> DEFINE f == Acquiring(Top(c), "ptable", "exit")
      <4>2. f \in FrameSet /\ ~ToSleep(f)
        BY <3>4, <4>1, Awake, ZenonT(30)
      <4> HIDE DEF f
      <4>3. SetTop(c, f)
        BY <3>5 DEF f
      <4> QED
        BY <3>1, <3>2, <3>3, <3>5, <4>2, <4>3, <1>PlainTop, ZenonT(30)
    <3>6. CASE at' = [at EXCEPT ![Thread(c)] = Tail(@)] /\ cpu' = [cpu EXCEPT ![c].if = TRUE]
      <4> DEFINE t == Thread(c)
                 cp == [cpu[c] EXCEPT !.if = TRUE]
                 frames == Tail(at[t])
      <4>1. at' = [at EXCEPT ![t] = frames] /\ cpu' = [cpu EXCEPT ![c] = cp]
        BY <3>6
      <4>2. cp.proc = cpu[c].proc
        BY <3>4 DEF CpuSet
      <4>3. /\ t \in Threads /\ DOMAIN at = Threads /\ Stack(t, at[t])
        BY ThreadFacts, ZenonT(30) DEF LockInv, Types
      <4>4. Len(at[t]) = 2
        <5>1. Top(c).pc \in TrapCode
          BY <3>1 DEF TrapCode
        <5> QED
          BY <5>1, WhereAt, ZenonT(30)
      <4>5. at[t] \in Seq(FrameSet) /\ Base(t, at[t][2]) /\ HeldBy(at[t][2]) = {}
        BY <4>3, <4>4 DEF Stack
      <4> HIDE DEF t, cp
      <4>6. frames[1] = at[t][2]
        BY <4>4, <4>5
      <4>7. ~ToSleep(at[t][2])
        BY <4>5, <2>SleepyFrames, ZenonT(30)
      <4> HIDE DEF frames
      <4>8. Elsewhere(c)
        BY <3>1, <4>1, <1>ElsewhereTop, ZenonT(30) DEF t
      <4>9. at'[t] = frames /\ cpu'[c] = cp
        BY <3>4, <4>1, <4>3
      <4>10. Thread(c)' = t
        BY <4>2, <4>9, ZenonT(30) DEF Thread, Sched, t
      <4>11. Top(c)' = at[t][2]
        BY <4>6, <4>9, <4>10, ZenonT(30) DEF Top
      <4> QED
        BY <3>1, <3>2, <3>3, <4>7, <4>8, <4>11, <1>PlainStep, ZenonT(30)
    <3> QED
      BY <3>5, <3>6, ZenonT(30) DEF iret

  \* Code that may be interrupted has no wakeup to make.
  <2>InterruptRest.
    ASSUME LockInv, RestInv, NEW c \in setting.cpus, NEW f \in FrameSet, ~ToSleep(f),
           Interrupt(c, f)
    PROVE  RestInv'
    <3> USE <2>InterruptRest
    <3> DEFINE t == Thread(c)
               cp == Off(cpu[c])
               frames == <<f>> \o at[t]
    <3>1. /\ cpu[c].if /\ UNCHANGED Procvars /\ setting' = setting /\ input' = input
      BY ZenonT(30) DEF Interrupt
    <3>2. at' = [at EXCEPT ![t] = frames] /\ cpu' = [cpu EXCEPT ![c] = cp]
      BY DEF Interrupt
    <3>3. NoSleepers /\ OwnCounts(c)
      BY <3>1, <1>QuietPlain, ZenonT(30)
    <3>4. /\ cpu[c] \in CpuSet /\ c \in CPUs /\ cpu \in [CPUs -> CpuSet] /\ DOMAIN at = Threads
          /\ t \in Threads /\ Stack(t, at[t]) /\ Balanced(at[t], cpu[c], Held(c))
          /\ Top(c) = at[t][1]
      BY ThreadFacts, ZenonT(30) DEF LockInv, Types
    <3>5. cp.proc = cpu[c].proc
      BY <3>4 DEF Off, CpuSet
    <3>6. at[t] \in Seq(FrameSet)
      BY <3>4, ZenonT(30) DEF Stack
    <3>7. HeldBy(Top(c)) = {}
      <4>1. /\ Held(c) = HeldBy(Top(c)) /\ ~(cpu[c].ncli > 0)
            /\ cpu[c].ncli = Cardinality(Held(c)) + IF Top(c).pc = "spin" THEN 1 ELSE 0
        BY <3>1, <3>4, ZenonT(30) DEF Balanced
      <4>2. Cardinality(Held(c)) \in Nat /\ (Cardinality(Held(c)) = 0 => Held(c) = {})
        <5>1. Held(c) \in SUBSET Locks
          BY DEF Held
        <5> QED
          BY <5>1, LockCount, ZenonT(30)
      <4>3. cpu[c].ncli \in Int
        BY <3>4, ZenonT(30) DEF CpuSet
      <4>4. Cardinality(Held(c)) = 0
        BY <4>1, <4>2, <4>3
      <4> QED
        BY <4>1, <4>2, <4>4, ZenonT(30)
    <3>8. \A w \in Wakers : Top(c).pc # w /\ Top(c).then # w
      <4>1. Top(c).pc \notin Wakers
        BY <3>7, HeldByPc DEF Wakers
      <4>2. CASE Top(c).pc \in Waiting
        <5>1. Top(c).then \notin Wakers
          BY <3>7, <4>2, HeldByThen DEF Wakers
        <5> QED
          BY <4>1, <5>1, ZenonT(30)
      <4>3. CASE Top(c).pc \notin Waiting
        <5>1. Top(c).then = "none"
          BY <4>3, <1>NoThen, ZenonT(30)
        <5>2. "none" \notin Wakers
          BY DEF Wakers
        <5> QED
          BY <4>1, <5>1, <5>2, ZenonT(30)
      <4> QED
        BY <4>2, <4>3, ZenonT(30)
    <3> HIDE DEF t, cp
    <3>9. frames[1] = f
      BY <3>6
    <3> HIDE DEF frames
    <3>10. Elsewhere(c)
      BY <3>1, <3>2, <1>ElsewhereTop, ZenonT(30) DEF t
    <3>11. at'[t] = frames /\ cpu'[c] = cp
      BY <3>2, <3>4, ZenonT(30)
    <3>12. Thread(c)' = t
      BY <3>5, <3>11, ZenonT(30) DEF Thread, Sched, t
    <3>13. Top(c)' = f
      BY <3>9, <3>11, <3>12, ZenonT(30) DEF Top
    <3> QED
      BY <3>1, <3>3, <3>8, <3>10, <3>13, <1>FreeStep, ZenonT(30)

  \* The clock and the keyboard.
  <2>TimerRest.
    ASSUME LockInv, RestInv, NEW c \in setting.cpus, timer(c) \/ kbdintr(c)
    PROVE  RestInv'
    <3> USE <2>TimerRest
    <3> DEFINE g == Frame("acquire")
    <3>1. "acquire" \in Pcs /\ "clock" \in Pcs /\ "acquire" # "sleep" /\ "clock" # "sleep"
      BY Names
    <3>2. g \in FrameSet /\ Frame("clock") \in FrameSet /\ ~ToSleep(Frame("clock"))
      BY <3>1, Awake, ZenonT(30)
    <3>3. \/ \E lk \in {"cons", "tickslock"}, then \in {"tick", "key"} : Interrupt(c, Acquiring(g, lk, then))
          \/ Interrupt(c, Frame("clock"))
      BY ZenonT(30) DEF timer, kbdintr
    <3> HIDE DEF g
    <3>4. ASSUME NEW lk \in {"cons", "tickslock"}, NEW then \in {"tick", "key"},
                 Interrupt(c, Acquiring(g, lk, then))
          PROVE  RestInv'
      <4>1. lk \in Locks /\ then \in Thens /\ then # "sleep"
        BY Names
      <4>2. Acquiring(g, lk, then) \in FrameSet /\ ~ToSleep(Acquiring(g, lk, then))
        BY <3>2, <4>1, Awake, ZenonT(30)
      <4> QED
        BY <3>4, <4>2, <2>InterruptRest, ZenonT(30)
    <3> QED
      BY <3>2, <3>3, <3>4, <2>InterruptRest, ZenonT(30)

  <2> QED
    BY <2>IretRest, <2>TimerRest, ZenonT(30)

\* The process finds its lock: it goes on as it was about to.
<1>AcquireRest.
  ASSUME LockInv, RestInv, NEW c \in setting.cpus, acquire(c) \/ spin(c)
  PROVE  RestInv'
  <2> USE <1>AcquireRest
  <2> DEFINE f == Top(c)
             wait == [f EXCEPT !.pc = "spin"]
             go == To(f, f.then)
  <2>1. /\ f.pc \in Waiting /\ UNCHANGED Procvars /\ setting' = setting /\ input' = input
        /\ SetTop(c, go) \/ SetTop(c, wait)
    BY ZenonT(30) DEF acquire, spin, At, Waiting
  <2>2. /\ f \in FrameSet /\ Stack(Thread(c), at[Thread(c)]) /\ f = at[Thread(c)][1]
        /\ c \in CPUs /\ cpu[c] \in CpuSet /\ cpu \in [CPUs -> CpuSet]
    BY ThreadFacts, ZenonT(30) DEF LockInv, Types
  <2>3. f.then \in Pcs /\ f.then \notin Waiting
    <3>1. Base(Thread(c), f) \/ Handler(Thread(c), f)
      BY <2>2, Tops, ZenonT(30)
    <3> QED
      BY <2>1, <2>2, <3>1, Acquired, ZenonT(30)
  <2>4. go \in FrameSet /\ go.pc = f.then /\ go.then = "none" /\ go.on = f.on
    BY <2>2, <2>3, ToFields, ZenonT(30)
  <2>5. wait \in FrameSet /\ wait.pc = "spin" /\ wait.then = f.then /\ wait.on = f.on
    BY <2>2 DEF FrameSet, Pcs, Waiting
  <2>6. \E cp : (cpu' = [cpu EXCEPT ![c] = cp] \/ cpu' = cpu) /\ cp.proc = cpu[c].proc
    <3>1. pushcli(cpu[c]).proc = cpu[c].proc
      BY <2>2, PushFields, ZenonT(30)
    <3>2. cpu' = [cpu EXCEPT ![c] = pushcli(cpu[c])] \/ cpu' = cpu
      BY DEF acquire, spin
    <3> QED
      BY <3>1, <3>2, ZenonT(30)
  <2>7. "spin" \notin Wakers /\ f.pc \notin Wakers /\ "none" \notin Wakers
        /\ "spin" # "sleep" /\ "none" # "sleep" /\ f.pc # "sleep"
    BY <2>1 DEF Wakers, Waiting
  <2> HIDE DEF f, wait, go
  <2>8. PICK g \in FrameSet :
          /\ SetTop(c, g) /\ g.on = f.on
          /\ g.pc = f.then \/ (g.then = f.then /\ g.pc = "spin")
          /\ g.then \in {f.then, "none"}
    BY <2>1, <2>4, <2>5
  <2>9. Elsewhere(c)
    <3> DEFINE frames == [at[Thread(c)] EXCEPT ![1] = g]
    <3>1. at' = [at EXCEPT ![Thread(c)] = frames]
      BY <2>8 DEF SetTop
    <3> HIDE DEF frames
    <3> QED
      BY <2>1, <2>6, <3>1, <1>ElsewhereTop, ZenonT(30)
  <2>10. cpu'[c].proc = cpu[c].proc
    BY <2>2, <2>6
  <2>11. Thread(c)' = Thread(c) /\ Top(c)' = g
    BY <2>8, <2>10, <1>TopAfter, ZenonT(30)
  <2>12. NoSleepers /\ OwnCounts(c)
    BY <2>1, <1>QuietPlain, ZenonT(30)
  <2>13. \A w \in Wakers : f.pc = w \/ f.then = w => g.pc = w \/ g.then = w
    BY <2>7, <2>8, ZenonT(30)
  <2>14. ToSleep(g) => ToSleep(f)
    BY <2>7, <2>8 DEF ToSleep
  <2>15. \A p \in Procs : Rests(p)'
    BY <2>1, <2>9, <2>11, <2>12, <2>13, <1>RestsKept, ZenonT(30) DEF f
  <2>16. Tested(c)
    BY ZenonT(30) DEF RestInv
  <2>17. n' = n /\ done' = done
    BY <2>1, ZenonT(30) DEF Procvars
  <2>18. Tested(c)'
    BY <2>1, <2>8, <2>11, <2>14, <2>16, <2>17, ZenonT(30) DEF Tested, f, ToSleep
  <2>19. \A d \in setting.cpus : Tested(d)'
    BY <2>1, <2>9, <2>12, <2>18, <1>TestedKept, ZenonT(30)
  <2> QED
    BY <2>1, <2>15, <2>19, ZenonT(30) DEF RestInv

\* A process leaves its processor.
<1>Switches.
  \A c \in setting.cpus : LockInv /\ RestInv /\ (sleep(c) \/ yield(c) \/ exit(c)) => RestInv'
  \* Back to the scheduler of a processor, in the middle of its loop.
  <2>SwitchTop.
    ASSUME LockInv, NEW c \in setting.cpus, cpu[c].proc # None, setting' = setting,
           NEW frames, at' = [at EXCEPT ![Thread(c)] = frames],
           NEW cp, cpu' = [cpu EXCEPT ![c] = cp], cp.proc = None
    PROVE  /\ Elsewhere(c) /\ Top(c)' = at[Sched(c)][1] /\ ~ToSleep(at[Sched(c)][1])
           /\ at[Sched(c)][1].pc = "pick" /\ at[Sched(c)][1].then = "none"
    <3> USE <2>SwitchTop
    <3>1. /\ c \in CPUs /\ cpu \in [CPUs -> CpuSet] /\ DOMAIN at = Threads /\ Placed /\ Stacks
          /\ Thread(c) = cpu[c].proc /\ Thread(c) \in Procs
      BY ThreadFacts, ZenonT(30) DEF LockInv, Types
    <3>2. Elsewhere(c)
      BY <1>ElsewhereTop, ZenonT(30)
    <3>3. cpu'[c].proc = None
      BY <3>1
    <3>4. Sched(c) \in Threads /\ Sched(c) \notin Procs
      BY <3>1, Numbers, ZenonT(30)
    <3>5. Thread(c)' = Sched(c)
      BY <3>3, ZenonT(30) DEF Thread, Sched
    <3>6. at'[Sched(c)] = at[Sched(c)]
      BY <3>1, <3>2, <3>4, ZenonT(30) DEF Elsewhere
    <3>7. Top(c)' = at[Sched(c)][1]
      BY <3>5, <3>6, ZenonT(30) DEF Top
    <3>8. at[Sched(c)][1].pc = "pick" /\ Len(at[Sched(c)]) = 1
      BY <3>1, ZenonT(30) DEF Placed
    <3>9. Base(Sched(c), at[Sched(c)][1])
      <4>1. Stack(Sched(c), at[Sched(c)])
        BY <3>1, <3>4, ZenonT(30) DEF Stacks
      <4> QED
        BY <3>8, <4>1, Tops, ZenonT(30)
    <3>10. at[Sched(c)][1].then = "none"
      BY <3>8, <3>9, ZenonT(30) DEF Base, Runs, Waiting
    <3>11. ~ToSleep(at[Sched(c)][1])
      BY <3>8, <3>10 DEF ToSleep
    <3> QED
      BY <3>2, <3>7, <3>8, <3>10, <3>11, ZenonT(30)

  \* yield and exit put nobody to sleep.
  <2>LeaveRest.
    ASSUME LockInv, RestInv, NEW c \in setting.cpus, yield(c) \/ exit(c)
    PROVE  RestInv'
    <3> USE <2>LeaveRest
    <3> DEFINE cp == [cpu[c] EXCEPT !.proc = None]
    <3>1. /\ Top(c).pc \in {"yield", "exit"} /\ setting' = setting /\ input' = input
          /\ chan' = chan /\ n' = n /\ done' = done
          /\ \E x \in {"RUNNABLE", "ZOMBIE"} : state' = [state EXCEPT ![cpu[c].proc] = x]
      BY ZenonT(30) DEF yield, exit, At
    <3>2. cpu' = [cpu EXCEPT ![c] = cp]
      BY DEF yield, exit, Switch
    <3>3. \E frames : at' = [at EXCEPT ![Thread(c)] = frames]
      <4>1. CASE yield(c)
        <5>1. at' = [at EXCEPT ![Thread(c)] = [at[Thread(c)] EXCEPT ![1] = To(Top(c), "yielded")]]
          BY <4>1 DEF yield, SetTop
        <5> QED
          BY <5>1, ZenonT(30)
      <4>2. CASE exit(c)
        BY <4>2, ZenonT(30) DEF exit
      <4> QED
        BY <4>1, <4>2, ZenonT(30)
    <3>4. cpu[c] \in CpuSet /\ DOMAIN state = Procs /\ None \notin Procs
      BY ThreadFacts, Numbers, ZenonT(30) DEF LockInv, Types
    <3>5. cpu[c].proc # None
      BY <3>1, <3>4, WhereAt
    <3>6. cp.proc = None
      BY <3>4 DEF CpuSet
    <3> HIDE DEF cp
    <3>7. PICK g : Elsewhere(c) /\ Top(c)' = g /\ ~ToSleep(g)
      BY <3>1, <3>2, <3>3, <3>5, <3>6, <2>SwitchTop, ZenonT(30)
    <3>8. \A p \in Procs : state'[p] = "SLEEPING" => state[p] = "SLEEPING"
      BY <3>1, <3>4, ZenonT(30)
    <3>9. NoSleepers
      BY <3>1, <3>8, ZenonT(30) DEF NoSleepers
    <3>10. OwnCounts(c)
      BY <3>1, <1>OwnEntry, ZenonT(30)
    <3>11. Top(c).pc \notin Waiting \cup Wakers
      BY <3>1 DEF Waiting, Wakers
    <3> QED
      BY <3>1, <3>7, <3>9, <3>10, <3>11, <1>PlainStep, ZenonT(30)

  \* sleep(): what the process has found is still so, as it has had the lock.
  <2>SleepRest.
    ASSUME LockInv, RestInv, NEW c \in setting.cpus, sleep(c)
    PROVE  RestInv'
    <3> USE <2>SleepRest
    <3> DEFINE cp == [popcli(cpu[c]) EXCEPT !.proc = None]
               frames == [at[Thread(c)] EXCEPT ![1] = To(Top(c), "woken")]
    <3>1. /\ Top(c).pc = "sleep" /\ setting' = setting /\ input' = input /\ n' = n /\ done' = done
          /\ chan' = [chan EXCEPT ![cpu[c].proc] = Top(c).on]
          /\ state' = [state EXCEPT ![cpu[c].proc] = "SLEEPING"]
      BY ZenonT(30) DEF sleep, At
    <3>2. cpu' = [cpu EXCEPT ![c] = cp]
      BY DEF sleep, Switch
    <3>3. at' = [at EXCEPT ![Thread(c)] = frames]
      BY DEF sleep, SetTop
    <3>4. cpu[c] \in CpuSet /\ DOMAIN state = Procs /\ DOMAIN chan = Procs /\ None \notin Procs
      BY ThreadFacts, Numbers, ZenonT(30) DEF LockInv, Types
    <3>5. PICK p \in Procs : p = Thread(c) /\ cpu[c].proc = p
      BY <3>1, WhereAt, ZenonT(30)
    <3>6. cp.proc = None
      <4>1. popcli(cpu[c]) \in CpuSet
        BY <3>4, PopFields, ZenonT(30)
      <4> QED
        BY <4>1, NoProcFields, ZenonT(30)
    <3> HIDE DEF cp, frames
    <3>7. cpu[c].proc # None
      BY <3>4, <3>5, ZenonT(30)
    <3>8. PICK g : /\ Elsewhere(c) /\ Top(c)' = g /\ ~ToSleep(g)
                   /\ g.pc = "pick" /\ g.then = "none"
      BY <3>1, <3>2, <3>3, <3>6, <3>7, <2>SwitchTop, ZenonT(30)
    <3>9. Top(c).then = "none"
      <4>1. Top(c).pc \notin Waiting
        BY <3>1, ZenonT(30) DEF Waiting
      <4> QED
        BY <4>1, <1>NoThen, ZenonT(30)
    <3>10. \A w \in Wakers : Top(c).pc # w /\ Top(c).then # w
      BY <3>1, <3>9 DEF Wakers
    <3>11. ASSUME NEW q \in Procs, q # p PROVE Rests(q)'
      <4>1. state'[q] = state[q] /\ chan'[q] = chan[q]
        BY <3>1, <3>4, <3>5, <3>11
      <4> QED
        BY <3>1, <3>8, <3>10, <4>1, <1>RestKept, ZenonT(30)
    <3>12. Rests(p)'
      <4>1. \/ Top(c).on = "cons" /\ input.r = input.w
            \/ Top(c).on = "tickslock" /\ done[p] # n[p]
        BY <3>1, <3>5, ZenonT(30) DEF RestInv, Tested, ToSleep
      <4>2. chan'[p] = Top(c).on
        BY <3>1, <3>4, <3>5
      <4> QED
        BY <3>1, <4>1, <4>2, ZenonT(30) DEF Rests
    <3>13. OwnCounts(c)
      BY <3>1, <1>OwnEntry, ZenonT(30)
    <3>14. Tested(c)'
      BY <3>8, ZenonT(30) DEF Tested, ToSleep
    <3>15. \A d \in setting.cpus : Tested(d)'
      BY <3>1, <3>8, <3>13, <3>14, <1>TestedKept, ZenonT(30)
    <3> QED
      BY <3>1, <3>11, <3>12, <3>15, ZenonT(30) DEF RestInv

  <2> QED
    BY <2>LeaveRest, <2>SleepRest, ZenonT(30)

\* scheduler(): the process picked has not yet come back from sleep.
<1>SchedulerRest.
  ASSUME LockInv, RestInv, NEW c \in setting.cpus, scheduler(c)
  PROVE  RestInv'
  <2> USE <1>SchedulerRest
  <2>1. /\ Top(c).pc = "pick" /\ setting' = setting /\ input' = input
        /\ chan' = chan /\ n' = n /\ done' = done
    BY ZenonT(30) DEF scheduler, At
  <2>2. /\ c \in CPUs /\ cpu \in [CPUs -> CpuSet] /\ cpu[c] \in CpuSet /\ Top(c) \in FrameSet
        /\ Placed /\ Stacks /\ DOMAIN state = Procs /\ Procs \subseteq Threads /\ None \notin Procs
    BY ThreadFacts, Numbers, ZenonT(30) DEF LockInv, Types
  <2>3. OwnCounts(c)
    BY <2>1, <1>OwnEntry, ZenonT(30)
  <2>4. Top(c).pc \notin Waiting \cup Wakers
    BY <2>1 DEF Waiting, Wakers
  <2>5. CASE Runnable(c) = {}
    <3> DEFINE f == To(Top(c), "sti")
    <3>1. release(c, "ptable") /\ SetTop(c, f) /\ state' = state
      BY <2>5, ZenonT(30) DEF scheduler
    <3>2. "sti" \in Pcs /\ "sti" # "sleep"
      BY Names
    <3>3. f \in FrameSet /\ ~ToSleep(f)
      BY <2>2, <3>2, Awake, ZenonT(30)
    <3> HIDE DEF f
    <3>4. NoSleepers
      BY <2>1, <3>1, ZenonT(30) DEF NoSleepers
    <3> QED
      BY <2>1, <2>3, <2>4, <3>1, <3>3, <3>4, <1>ReleaseCpu, <1>PlainTop, ZenonT(30)
  <2>6. CASE Runnable(c) # {}
    <3>1. PICK p \in Runnable(c) :
            /\ state' = [state EXCEPT ![p] = "RUNNING"] /\ at' = at
            /\ cpu' = [cpu EXCEPT ![c].proc = p, ![c].p = p + 1,
                                  ![c].intena = Restored(cpu[c], p)]
      BY <2>6, ZenonT(30) DEF scheduler
    <3>2. p \in Procs /\ state[p] = "RUNNABLE"
      BY ZenonT(30) DEF Runnable
    <3>3. /\ cpu'[c].proc = p
          /\ \A d \in CPUs : d # c => cpu'[d] = cpu[d]
      BY <2>2, <3>1 DEF CpuSet
    <3>4. Elsewhere(c)
      BY <2>1, <3>1, <3>3, ZenonT(30) DEF Elsewhere
    <3>5. Top(c)' = at[p][1]
      <4>1. Thread(c)' = p
        BY <2>2, <3>2, <3>3, ZenonT(30) DEF Thread
      <4> QED
        BY <3>1, <4>1, ZenonT(30) DEF Top
    <3>6. at[p][1].pc \in {"forkret", "woken", "yielded"}
      <4>1. state[p] \in {"RUNNABLE", "SLEEPING"}
        BY <3>2
      <4> QED
        BY <2>2, <3>2, <4>1, ZenonT(30) DEF Placed, Parked
    <3>7. Base(p, at[p][1]) \/ Handler(p, at[p][1])
      <4>1. Stack(p, at[p])
        BY <2>2, <3>2, ZenonT(30) DEF Stacks
      <4> QED
        BY <4>1, Tops
    <3>8. ~ToSleep(at[p][1])
      BY <3>6, <3>7, ZenonT(30) DEF Base, Handler, Runs, Waiting, ToSleep
    <3>9. \A q \in Procs : state'[q] = "SLEEPING" => state[q] = "SLEEPING"
      BY <2>2, <3>1
    <3>10. NoSleepers
      BY <2>1, <3>9, ZenonT(30) DEF NoSleepers
    <3> QED
      BY <2>1, <2>3, <2>4, <3>4, <3>5, <3>8, <3>10, <1>PlainStep, ZenonT(30)
  <2> QED
    BY <2>5, <2>6, ZenonT(30)

\* A tick: the wakeup for it comes after it.
<1>TickRest.
  ASSUME LockInv, RestInv, NEW c \in setting.cpus, tick(c)
  PROVE  RestInv'
  <2> USE <1>TickRest
  <2> DEFINE f == Acquiring(Top(c), "ptable", "tick_wakeup")
             frames == [at[Thread(c)] EXCEPT ![1] = f]
  <2>1. /\ Top(c).pc = "tick" /\ SetTop(c, f) /\ setting' = setting /\ input' = input /\ cpu' = cpu
        /\ state' = state /\ chan' = chan /\ n' = n
    BY ZenonT(30) DEF tick, At
  <2>2. at' = [at EXCEPT ![Thread(c)] = frames]
    BY <2>1 DEF SetTop
  <2>3. Top(c) \in FrameSet /\ "ptable" \in Locks /\ "tick_wakeup" \in Thens /\ "tick_wakeup" # "sleep"
    BY ThreadFacts, Names, ZenonT(30)
  <2>4. f \in FrameSet /\ ~ToSleep(f)
    BY <2>3, Awake, ZenonT(30)
  <2>5. f.then = "tick_wakeup"
    BY <2>3, AcquiringFields
  <2>6. Top(c).pc \notin Waiting \cup Wakers /\ "tickslock" \in HeldBy(Top(c))
    BY <2>1, HeldByPc, ZenonT(30) DEF Waiting, Wakers
  <2>7. Top(c).then = "none"
    BY <2>6, <1>NoThen, ZenonT(30)
  <2>8. \A w \in Wakers : ~(Top(c).pc = w \/ Top(c).then = w)
    BY <2>6, <2>7 DEF Wakers
  <2> HIDE DEF f, frames
  <2>9. Elsewhere(c)
    BY <2>1, <2>2, <1>ElsewhereTop, ZenonT(30)
  <2>10. Top(c)' = f
    BY <2>1, <2>4, <1>TopAfter, ZenonT(30)
  <2>11. \A p \in Procs : Rests(p)'
    BY <2>1, <2>5, <2>8, <2>9, <2>10, <1>RestKept, ZenonT(30)
  <2>12. Tested(c)'
    BY <2>4, <2>10, ZenonT(30) DEF Tested, ToSleep
  <2>13. \A d \in setting.cpus : Tested(d)'
    BY <2>1, <2>6, <2>9, <2>12, <1>TestedKept, ZenonT(30)
  <2> QED
    BY <2>1, <2>11, <2>13, ZenonT(30) DEF RestInv

\* A wakeup leaves no sleeper on its channel, and the other one due.
<1>WakeupRest.
  ASSUME LockInv, RestInv, NEW c \in setting.cpus, tick_wakeup(c) \/ key_wakeup(c)
  PROVE  RestInv'
  <2> USE <1>WakeupRest
  <2>1. /\ setting' = setting /\ input' = input /\ chan' = chan /\ n' = n /\ done' = done
        /\ Top(c).pc \in Wakers
        /\ Top(c).pc = "tick_wakeup" => state' = wakeup1("tickslock")
        /\ Top(c).pc = "key_wakeup" => state' = wakeup1("cons")
    <3>1. "tick_wakeup" # "key_wakeup" /\ "tick_wakeup" \in Wakers /\ "key_wakeup" \in Wakers
      BY DEF Wakers
    <3> QED
      BY <3>1, ZenonT(30) DEF tick_wakeup, key_wakeup, At, KeyWakes
  <2>2. PICK f \in FrameSet : SetTop(c, f) /\ ~ToSleep(f)
    <3>1. Top(c) \in FrameSet /\ "clock" \in Pcs /\ "key" \in Pcs /\ "clock" # "sleep" /\ "key" # "sleep"
      BY ThreadFacts, Names, ZenonT(30)
    <3>2. SetTop(c, To(Top(c), "clock")) \/ SetTop(c, To(Top(c), "key"))
      BY ZenonT(30) DEF tick_wakeup, key_wakeup
    <3> QED
      BY <3>1, <3>2, Awake, ZenonT(30)
  <2>3. cpu \in [CPUs -> CpuSet] /\ c \in CPUs /\ cpu[c] \in CpuSet
    BY ThreadFacts, ZenonT(30) DEF LockInv, Types
  <2>4. PICK cp : cpu' = [cpu EXCEPT ![c] = cp] /\ cp.proc = cpu[c].proc
    <3>1. popcli(cpu[c]) \in CpuSet /\ popcli(cpu[c]).proc = cpu[c].proc
      BY <2>3, PopFields, ZenonT(30)
    <3>2. popcli(popcli(cpu[c])).proc = cpu[c].proc
      BY <3>1, PopFields, ZenonT(30)
    <3>3. \/ cpu' = [cpu EXCEPT ![c] = popcli(cpu[c])]
          \/ cpu' = [cpu EXCEPT ![c] = popcli(popcli(cpu[c]))]
      BY ZenonT(30) DEF tick_wakeup, key_wakeup, release
    <3> QED
      BY <3>1, <3>2, <3>3, ZenonT(30)
  <2>5. Elsewhere(c)
    <3> DEFINE frames == [at[Thread(c)] EXCEPT ![1] = f]
    <3>1. at' = [at EXCEPT ![Thread(c)] = frames]
      BY <2>2 DEF SetTop
    <3> HIDE DEF frames
    <3> QED
      BY <2>1, <2>4, <3>1, <1>ElsewhereTop, ZenonT(30)
  <2>6. Top(c)' = f
    <3>1. cpu'[c].proc = cpu[c].proc
      BY <2>3, <2>4
    <3> QED
      BY <2>2, <3>1, <1>TopAfter, ZenonT(30)
  <2>7. Top(c).then = "none"
    <3>1. Top(c).pc \notin Waiting
      BY <2>1 DEF Waiting, Wakers
    <3> QED
      BY <3>1, <1>NoThen, ZenonT(30)
  <2>8. ASSUME NEW p \in Procs, state'[p] = "SLEEPING"
        PROVE  /\ state[p] = "SLEEPING"
               /\ Top(c).pc = "tick_wakeup" => chan[p] # "tickslock"
               /\ Top(c).pc = "key_wakeup" => chan[p] # "cons"
    <3>1. ASSUME NEW ch, state' = wakeup1(ch)
          PROVE  state[p] = "SLEEPING" /\ chan[p] # ch
      <4>1. state'[p] = IF state[p] = "SLEEPING" /\ chan[p] = ch THEN "RUNNABLE" ELSE state[p]
        BY <3>1, ZenonT(30) DEF wakeup1
      <4>2. "RUNNABLE" # "SLEEPING"
        OBVIOUS
      <4> QED
        BY <2>8, <4>1, <4>2, ZenonT(30)
    <3>2. Top(c).pc = "tick_wakeup" \/ Top(c).pc = "key_wakeup"
      BY <2>1 DEF Wakers
    <3> QED
      BY <2>1, <3>1, <3>2, ZenonT(30)
  <2>9. ASSUME NEW p \in Procs, state'[p] = "SLEEPING" PROVE Rests(p)'
    <3>1. \A w \in Wakers : Top(c).pc = w \/ Top(c).then = w =>
            \/ w = "key_wakeup" /\ chan[p] # "cons"
            \/ w = "tick_wakeup" /\ chan[p] # "tickslock"
      BY <2>7, <2>8, <2>9 DEF Wakers
    <3> QED
      BY <2>1, <2>5, <2>6, <2>8, <2>9, <3>1, <1>RestKept, ZenonT(30)
  <2>10. \A p \in Procs : Rests(p)'
    BY <2>9, ZenonT(30) DEF Rests
  <2>11. OwnCounts(c)
    BY <2>1, <1>OwnEntry, ZenonT(30)
  <2>12. Tested(c)'
    BY <2>2, <2>6, ZenonT(30) DEF Tested, ToSleep
  <2>13. \A d \in setting.cpus : Tested(d)'
    BY <2>1, <2>5, <2>11, <2>12, <1>TestedKept, ZenonT(30)
  <2> QED
    BY <2>1, <2>10, <2>13, ZenonT(30) DEF RestInv

<1> SUFFICES ASSUME LockInv, RestInv, Indices, Next
             PROVE  RestInv'
  BY ZenonT(30)
<1>1. PICK c \in CPUs : \/ Kernel(c) \/ spin(c) \/ User(c) \/ timer(c) \/ kbdintr(c)
                        \/ \E k \in setting.keys : Key(c, k)
  BY ZenonT(30) DEF Next
<1>2. CASE timer(c) \/ kbdintr(c)
  <2>1. c \in setting.cpus
    BY <1>2, ZenonT(30) DEF timer, kbdintr, Interrupt
  <2> QED
    BY <1>2, <2>1, <1>Traps, ZenonT(30)
<1>3. CASE \E k \in setting.keys : Key(c, k)
  <2>1. c \in setting.cpus
    BY <1>3, ZenonT(30) DEF Key, At
  <2> QED
    BY <1>3, <2>1, <1>Bodies, ZenonT(30)
<1>4. CASE User(c)
  <2>1. c \in setting.cpus
    BY <1>4, ZenonT(30) DEF User, sys_read, sys_sleep, sys_write, sys_kill, trap_killed, Call, At
  <2> QED
    BY <1>4, <2>1, <1>QuietRest, <1>CallRest, ZenonT(30) DEF User
<1>5. CASE spin(c)
  <2>1. c \in setting.cpus
    BY <1>5, ZenonT(30) DEF spin, At
  <2> QED
    BY <1>5, <2>1, <1>AcquireRest, ZenonT(30)
<1>6. CASE Kernel(c)
  <2>1. c \in setting.cpus
    BY <1>6, ZenonT(30) DEF Kernel, acquire, sti, scheduler, forkret, sleep, woken, tick, tick_wakeup,
       trap_clock, yield, yielded, iret, exit, key_wakeup, key_end, procdump, consoleread,
       sleep_start, sleep_loop, consolewrite, kill, syscall_return, At
  <2>2. CASE \/ acquire(c) \/ scheduler(c) \/ sleep(c) \/ woken(c) \/ yield(c) \/ exit(c) \/ kill(c)
             \/ iret(c)
    BY <2>1, <2>2, <1>AcquireRest, <1>SchedulerRest, <1>Switches, <1>WokenRest, <1>Bodies, <1>Traps,
       ZenonT(30)
  <2>3. CASE \/ sti(c) \/ forkret(c) \/ trap_clock(c) \/ yielded(c) \/ key_end(c) \/ procdump(c)
             \/ consolewrite(c)
    BY <2>1, <2>3, <1>QuietRest, ZenonT(30)
  <2>4. CASE \/ tick(c) \/ tick_wakeup(c) \/ key_wakeup(c) \/ consoleread(c) \/ sleep_loop(c)
             \/ sleep_start(c) \/ syscall_return(c)
    BY <2>1, <2>4, <1>TickRest, <1>WakeupRest, <1>Bodies, <1>CallRest, ZenonT(30)
  <2> QED
    BY <1>6, <2>2, <2>3, <2>4, ZenonT(30) DEF Kernel
<1> QED
  BY <1>1, <1>2, <1>3, <1>4, <1>5, <1>6, ZenonT(30)

-----------------------------------------------------------------------------
(* The theorem.                                                            *)

\* In the beginning nobody sleeps.
LEMMA RestInit ==
  ASSUME Init
  PROVE  RestInv /\ Indices
<1>1. LockInv
  BY LockInit
<1>2. ASSUME NEW p \in Procs PROVE Rests(p)
  <2>1. state[p] = "RUNNABLE" \/ state[p] = "UNUSED"
    BY ZenonT(30) DEF Init
  <2> QED
    BY <2>1, ZenonT(30) DEF Rests
<1>3. ASSUME NEW c \in setting.cpus PROVE Tested(c)
  <2>1. Thread(c) \in Threads
    BY <1>1, ThreadFacts, ZenonT(30)
  <2>2. PICK pc \in {"forkret", "sti"} : Top(c) = Frame(pc)
    <3>1. at[Thread(c)] = <<Frame(IF Thread(c) \in Procs THEN "forkret" ELSE "sti")>>
      BY <2>1, ZenonT(30) DEF Init
    <3> QED
      BY <3>1 DEF Top
  <2>3. pc \in Pcs /\ pc # "sleep"
    BY DEF Pcs, ProcCode, SchedCode
  <2>4. ~ToSleep(Top(c))
    BY <2>2, <2>3, Awake, ZenonT(30)
  <2> QED
    BY <2>4, ZenonT(30) DEF Tested
<1>4. Indices
  BY ZenonT(30) DEF Init, Indices
<1> QED
  BY <1>2, <1>3, <1>4, ZenonT(30) DEF RestInv

\* They stay there.
LEMMA IndicesKept ==
  ASSUME Indices, Next
  PROVE  Indices'
<1>1. \/ input' = input
      \/ \E ch : input' \in {KillLine(input), Backspace(input), Stored(input, ch)}
      \/ input' = [input EXCEPT !.r = Add(input.r, 1)]
  <2>1. ASSUME NEW c, NEW k, Key(c, k)
        PROVE  \/ input' = input
               \/ \E ch : input' \in {KillLine(input), Backspace(input), Stored(input, ch)}
    <3> DEFINE ch == IF k = "cr" THEN "nl" ELSE k
    <3>1. input' \in {input, KillLine(input), Backspace(input), Stored(input, ch)}
      BY <2>1 DEF Key
    <3> HIDE DEF ch
    <3> QED
      BY <3>1
  <2>2. ASSUME NEW c, consoleread(c)
        PROVE  input' = input \/ input' = [input EXCEPT !.r = Add(input.r, 1)]
    BY <2>2 DEF consoleread
  <2>3. ASSUME NEW c, User(c) \/ timer(c) \/ kbdintr(c) \/ spin(c) PROVE input' = input
    BY <2>3, ZenonT(30) DEF User, sys_read, sys_sleep, sys_write, sys_kill, trap_killed, timer, kbdintr,
       Interrupt, spin
  <2>4. ASSUME NEW c, Kernel(c) PROVE consoleread(c) \/ input' = input
    BY <2>4, ZenonT(30) DEF Kernel, acquire, sti, scheduler, forkret, sleep, woken, tick, tick_wakeup,
       trap_clock, yield, yielded, iret, exit, key_wakeup, key_end, procdump, sleep_start,
       sleep_loop, consolewrite, kill, syscall_return
  <2> QED
    BY <2>1, <2>2, <2>3, <2>4, ZenonT(30) DEF Next
<1>2. \A ch : /\ DOMAIN KillLine(input) = DOMAIN input /\ DOMAIN Backspace(input) = DOMAIN input
              /\ DOMAIN Stored(input, ch) = DOMAIN input
  BY DEF KillLine, Backspace, Stored
<1>3. DOMAIN input' = DOMAIN input
  BY <1>1, <1>2
<1> QED
  BY <1>3, ZenonT(30) DEF Indices

\* Nobody sleeps for input that is there or for ticks that have passed, unless
\* the wakeup is on its way (console.c 223, trap.c 54): a wakeup is never lost
\* between the test of a sleeper and its sleep, on any number of processors.
THEOREM NobodyOversleeps == Spec => []NoOversleep
<1>1. Init => RestInv /\ Indices
  BY RestInit
<1>2. LockInv /\ RestInv /\ Indices /\ [Next]_vars => RestInv' /\ Indices'
  <2>1. ASSUME LockInv, RestInv, Indices, Next PROVE RestInv' /\ Indices'
    BY <2>1, RestNext, IndicesKept, ZenonT(30)
  <2>2. ASSUME RestInv, Indices, UNCHANGED vars PROVE RestInv' /\ Indices'
    <3>1. /\ setting' = setting /\ cpu' = cpu /\ at' = at /\ state' = state /\ chan' = chan
          /\ n' = n /\ done' = done /\ input' = input
      BY <2>2, ZenonT(30) DEF vars
    <3>2. \A c : Thread(c)' = Thread(c) /\ Top(c)' = Top(c)
      BY <3>1, ZenonT(30) DEF Top, Thread, Sched
    <3>3. \A w : WakeupDue(w) => WakeupDue(w)'
      BY <3>1, <3>2, ZenonT(30) DEF WakeupDue
    <3>4. \A p : Rests(p) => Rests(p)'
      BY <3>1, <3>3, ZenonT(30) DEF Rests
    <3>5. \A c : Tested(c) => Tested(c)'
      BY <3>1, <3>2, ZenonT(30) DEF Tested, ToSleep
    <3> QED
      BY <2>2, <3>1, <3>4, <3>5, ZenonT(30) DEF RestInv, Indices
  <2> QED
    BY <2>1, <2>2, ZenonT(30)
<1>3. LockInv /\ RestInv => NoOversleep
  <2>1. ASSUME LockInv, RestInv, NEW p \in setting.procs, state[p] = "SLEEPING"
        PROVE  IF chan[p] = "cons" THEN input.r # input.w => WakeupDue("key_wakeup")
               ELSE done[p] = n[p] => WakeupDue("tick_wakeup")
    <3>1. p \in Procs
      BY <2>1, InterruptsAssumption, ZenonT(30) DEF LockInv, Types
    <3>2. "cons" # "tickslock"
      OBVIOUS
    <3> QED
      BY <2>1, <3>1, <3>2, ZenonT(30) DEF RestInv, Rests
  <2> QED
    BY <2>1, ZenonT(30) DEF NoOversleep
<1> QED
  BY <1>1, <1>2, <1>3, LockInvariant, PTL DEF Spec


-----------------------------------------------------------------------------
(* Remainders: the indices of the ring wrap.                               *)

\* A remainder is smaller than the divisor.
LEMMA ModRange ==
  ASSUME NEW m \in Nat \ {0}, NEW x \in Int
  PROVE  x % m \in 0 .. m - 1
OBVIOUS

\* The remainder of a number that is given with its quotient.
LEMMA ModOf ==
  ASSUME NEW m \in Nat \ {0}, NEW a \in Int, NEW r \in 0 .. m - 1
  PROVE  (m * a + r) % m = r
BY SMTT(60)

\* Every number has a quotient.
LEMMA Quotient ==
  ASSUME NEW m \in Nat \ {0}, NEW x \in Int
  PROVE  \E a \in Int : x = m * a + (x % m)
<1>1. x \div m \in Int /\ x = m * (x \div m) + (x % m)
  OBVIOUS
<1> QED
  BY <1>1, ZenonT(30)

\* Multiples of the divisor do not matter.
LEMMA ModShift ==
  ASSUME NEW m \in Nat \ {0}, NEW x \in Int, NEW k \in Int
  PROVE  (x + m * k) % m = x % m
<1>1. PICK a \in Int : x = m * a + (x % m)
  BY Quotient, ZenonT(30)
<1> DEFINE r == x % m
           d == m * a
           e == m * k
<1>2. r \in 0 .. m - 1 /\ d \in Int /\ e \in Int /\ x = d + r /\ m * (a + k) = d + e
  BY <1>1, ModRange
<1>3. a + k \in Int
  OBVIOUS
<1> HIDE DEF r, d, e
<1>4. x + e = m * (a + k) + r
  BY <1>2
<1>5. (m * (a + k) + r) % m = r
  BY <1>2, <1>3, ModOf
<1>6. (x + e) % m = r
  BY <1>4, <1>5, ZenonT(30)
<1> QED
  BY <1>6 DEF r, e

\* Numbers less than the divisor apart have different remainders.
LEMMA ModApart ==
  ASSUME NEW m \in Nat \ {0}, NEW x \in Int, NEW y \in Int, x < y, y - x < m
  PROVE  x % m # y % m
<1> SUFFICES ASSUME x % m = y % m PROVE FALSE
  OBVIOUS
<1>1. PICK a \in Int : x = m * a + (x % m)
  BY Quotient, ZenonT(30)
<1>2. PICK b \in Int : y = m * b + (y % m)
  BY Quotient, ZenonT(30)
<1>3. x % m \in Int /\ m * a \in Int /\ m * b \in Int /\ m * (b - a) = m * b - m * a
  BY ModRange
<1>4. m * (b - a) > 0 /\ m * (b - a) < m
  BY <1>1, <1>2, <1>3
<1>5. b - a >= 1 => m * (b - a) >= m
  OBVIOUS
<1>6. b - a <= 0 => m * (b - a) <= 0
  OBVIOUS
<1> QED
  BY <1>4, <1>5, <1>6

\* Remainders close to the divisor.
LEMMA ModNear ==
  ASSUME NEW m \in Nat \ {0}, NEW x \in Int
  PROVE  /\ 0 <= x /\ x < m => x % m = x
         /\ m <= x /\ x < 2 * m => x % m = x - m
         /\ -m <= x /\ x < 0 => x % m = x + m
OBVIOUS

\* Moving a counter by k moves its distance from another.
LEMMA Forward ==
  ASSUME NEW m \in Nat \ {0}, NEW x \in Int, NEW y \in Int, NEW k \in Int,
         ((x - y) % m) + k \in 0 .. m - 1
  PROVE  (((x + k) % m) - y) % m = ((x - y) % m) + k
<1> DEFINE u == (x - y) % m
           w == (x + k) % m
<1>0. x - y \in Int /\ x + k \in Int
  OBVIOUS
<1>1. PICK a \in Int : x - y = m * a + u
  BY <1>0, Quotient, ZenonT(30)
<1>2. PICK b \in Int : x + k = m * b + w
  BY <1>0, Quotient, ZenonT(30)
<1>3. u \in Int /\ w \in Int /\ u + k \in 0 .. m - 1
  BY ModRange
<1>4. m * a \in Int /\ m * b \in Int /\ m * (a - b) = m * a - m * b /\ a - b \in Int
  OBVIOUS
<1> HIDE DEF u, w
<1>5. w - y = m * (a - b) + (u + k)
  BY <1>1, <1>2, <1>3, <1>4
<1>6. (m * (a - b) + (u + k)) % m = u + k
  BY <1>3, <1>4, ModOf, ZenonT(30)
<1>7. (w - y) % m = u + k
  BY <1>5, <1>6, ZenonT(30)
<1> QED
  BY <1>7 DEF u, w

\* Moving the other counter.
LEMMA Backward ==
  ASSUME NEW m \in Nat \ {0}, NEW x \in Int, NEW y \in Int, NEW k \in Int,
         ((x - y) % m) - k \in 0 .. m - 1
  PROVE  (x - ((y + k) % m)) % m = ((x - y) % m) - k
<1> DEFINE u == (x - y) % m
           w == (y + k) % m
<1>0. x - y \in Int /\ y + k \in Int
  OBVIOUS
<1>1. PICK a \in Int : x - y = m * a + u
  BY <1>0, Quotient, ZenonT(30)
<1>2. PICK b \in Int : y + k = m * b + w
  BY <1>0, Quotient, ZenonT(30)
<1>3. u \in Int /\ w \in Int /\ u - k \in 0 .. m - 1
  BY ModRange
<1>4. m * a \in Int /\ m * b \in Int /\ m * (a + b) = m * a + m * b /\ a + b \in Int
  OBVIOUS
<1> HIDE DEF u, w
<1>5. x - w = m * (a + b) + (u - k)
  BY <1>1, <1>2, <1>3, <1>4
<1>6. (m * (a + b) + (u - k)) % m = u - k
  BY <1>3, <1>4, ModOf, ZenonT(30)
<1>7. (x - w) % m = u - k
  BY <1>5, <1>6, ZenonT(30)
<1> QED
  BY <1>7 DEF u, w

\* A counter that wraps at a multiple of the size of the ring finds the same slot.
LEMMA Slots ==
  ASSUME NEW m \in Nat \ {0}, NEW c \in Nat \ {0}, c % m = 0, NEW x \in Int, NEW i \in Int
  PROVE  ((x % c) + i) % m = (x + i) % m
<1> DEFINE w == x % c
<1>1. PICK a \in Int : x = c * a + w
  BY Quotient, ZenonT(30)
<1>0. c \in Int
  OBVIOUS
<1>2. PICK b \in Int : c = m * b + (c % m)
  BY <1>0, Quotient, ZenonT(30)
<1>3. c = m * b
  BY <1>2
<1>4. c * a = m * (b * a) /\ b * a \in Int /\ w \in Int /\ c * a \in Int
  BY <1>3, ModRange
<1> HIDE DEF w
<1>5. x + i = (w + i) + m * (b * a) /\ w + i \in Int
  BY <1>1, <1>4
<1>6. ((w + i) + m * (b * a)) % m = (w + i) % m
  BY <1>4, <1>5, ModShift, ZenonT(30)
<1>7. (x + i) % m = (w + i) % m
  BY <1>5, <1>6, ZenonT(30)
<1> QED
  BY <1>7 DEF w

\* The same without a step.
LEMMA SameSlot ==
  ASSUME NEW m \in Nat \ {0}, NEW c \in Nat \ {0}, c % m = 0, NEW x \in Int
  PROVE  (x % c) % m = x % m
<1>1. \A i \in Int : ((x % c) + i) % m = (x + i) % m
  BY Slots, ZenonT(30)
<1>2. ((x % c) + 0) % m = (x + 0) % m
  BY <1>1
<1>3. x % c \in Int
  BY ModRange
<1>4. (x % c) + 0 = x % c /\ x + 0 = x
  BY <1>3
<1> QED
  BY <1>2, <1>4, ZenonT(30)

-----------------------------------------------------------------------------
(* Indices.                                                                *)

\* Two indices, and how far apart they are.
LEMMA Distance ==
  ASSUME NEW a \in 0 .. Width - 1, NEW b \in 0 .. Width - 1
  PROVE  /\ Sub(a, b) \in 0 .. Width - 1 /\ (Sub(a, b) = 0 <=> a = b)
         /\ Add(b, Sub(a, b)) = a
<1>0. Width \in Nat \ {0}
  BY ConsoleAssumption
<1> DEFINE x == a - b
<1>1. x \in Int /\ x < Width /\ -Width < x /\ (x = 0 <=> a = b) /\ a = b + x
  BY <1>0
<1>2. Sub(a, b) = x % Width
  BY DEF Sub
<1> HIDE DEF x
<1>3. (0 <= x => x % Width = x) /\ (x < 0 => x % Width = x + Width)
  <2>1. -Width <= x
    BY <1>0, <1>1
  <2> QED
    BY <1>0, <1>1, <2>1, ModNear, ZenonT(30)
<1>4. CASE 0 <= x
  <2>1. Sub(a, b) = x /\ b + Sub(a, b) = a
    BY <1>1, <1>2, <1>3, <1>4
  <2>2. a % Width = a
    BY <1>0, ModNear
  <2> QED
    BY <1>0, <1>1, <1>4, <2>1, <2>2 DEF Add
<1>5. CASE x < 0
  <2>1. Sub(a, b) = x + Width /\ b + Sub(a, b) = a + Width
    BY <1>0, <1>1, <1>2, <1>3, <1>5
  <2>2. (a + Width) % Width = a
    BY <1>0, ModNear
  <2> QED
    BY <1>0, <1>1, <1>5, <2>1, <2>2 DEF Add
<1> QED
  BY <1>1, <1>4, <1>5

\* An index moved by k is an index, and taking k away is adding -k.
LEMMA Moved ==
  ASSUME NEW a \in 0 .. Width - 1, NEW k \in Int
  PROVE  Add(a, k) \in 0 .. Width - 1 /\ Sub(a, k) = Add(a, -k)
<1>0. Width \in Nat \ {0} /\ a + k \in Int
  BY ConsoleAssumption
<1>1. Add(a, k) \in 0 .. Width - 1
  BY <1>0, ModRange DEF Add
<1>2. a - k = a + (-k)
  OBVIOUS
<1> QED
  BY <1>1, <1>2 DEF Add, Sub

\* The upper end of a distance moves.
LEMMA EndMoved ==
  ASSUME NEW a \in 0 .. Width - 1, NEW b \in 0 .. Width - 1, NEW k \in Int,
         Sub(a, b) + k \in 0 .. Width - 1
  PROVE  Sub(Add(a, k), b) = Sub(a, b) + k
<1>0. Width \in Nat \ {0} /\ a \in Int /\ b \in Int
  BY ConsoleAssumption
<1>1. ((a - b) % Width) + k \in 0 .. Width - 1
  BY DEF Sub
<1>2. (((a + k) % Width) - b) % Width = ((a - b) % Width) + k
  BY <1>0, <1>1, Forward, SMT
<1> QED
  BY <1>2, ZenonT(30) DEF Add, Sub

\* The lower end moves.
LEMMA StartMoved ==
  ASSUME NEW a \in 0 .. Width - 1, NEW b \in 0 .. Width - 1, NEW k \in Int,
         Sub(a, b) - k \in 0 .. Width - 1
  PROVE  Sub(a, Add(b, k)) = Sub(a, b) - k
<1>0. Width \in Nat \ {0} /\ a \in Int /\ b \in Int
  BY ConsoleAssumption
<1>1. ((a - b) % Width) - k \in 0 .. Width - 1
  BY DEF Sub
<1>2. (a - ((b + k) % Width)) % Width = ((a - b) % Width) - k
  BY <1>0, <1>1, Backward, SMT
<1> QED
  BY <1>2, ZenonT(30) DEF Add, Sub

\* The ring and the indices' width.
LEMMA WidthSlots ==
  ASSUME NEW y \in Int, NEW i \in Int
  PROVE  /\ ((y % Width) + i) % INPUT_BUF = (y + i) % INPUT_BUF
         /\ (y % Width) % INPUT_BUF = y % INPUT_BUF
<1>1. Width \in Nat \ {0} /\ INPUT_BUF \in Nat \ {0} /\ Width % INPUT_BUF = 0
  BY ConsoleAssumption
<1>2. ((y % Width) + i) % INPUT_BUF = (y + i) % INPUT_BUF
  BY <1>1, Slots, ZenonT(30)
<1>3. (y % Width) % INPUT_BUF = y % INPUT_BUF
  BY <1>1, SameSlot, ZenonT(30)
<1> QED
  BY <1>2, <1>3, ZenonT(30)

\* The slot of an index, seen from another.
LEMMA SlotOf ==
  ASSUME NEW a \in 0 .. Width - 1, NEW b \in 0 .. Width - 1, NEW i \in Int
  PROVE  Add(a, i) % INPUT_BUF = (b + (Sub(a, b) + i)) % INPUT_BUF
<1>0. /\ Width \in Nat \ {0} /\ INPUT_BUF \in Nat \ {0} /\ Width % INPUT_BUF = 0
      /\ a \in Int /\ b \in Int
  BY ConsoleAssumption
<1> DEFINE d == Sub(a, b)
<1>1. d \in Int /\ a = (b + d) % Width
  BY Distance DEF Add
<1> HIDE DEF d
<1>2. b + d \in Int /\ a + i \in Int /\ (b + d) + i = b + (d + i)
  BY <1>0, <1>1
<1>3. (a + i) % INPUT_BUF = (b + (d + i)) % INPUT_BUF
  <2> DEFINE y == b + d
  <2>1. y \in Int
    BY <1>2
  <2> HIDE DEF y
  <2>2. ((y % Width) + i) % INPUT_BUF = (y + i) % INPUT_BUF
    BY <2>1, WidthSlots, ZenonT(30)
  <2> QED
    BY <1>1, <1>2, <2>2, ZenonT(30) DEF y
<1>4. ((a + i) % Width) % INPUT_BUF = (a + i) % INPUT_BUF
  <2> DEFINE y == a + i
  <2>1. y \in Int
    BY <1>2
  <2> HIDE DEF y
  <2>2. (y % Width) % INPUT_BUF = y % INPUT_BUF
    BY <2>1, WidthSlots, ZenonT(30)
  <2> QED
    BY <2>2 DEF y
<1> QED
  BY <1>3, <1>4 DEF Add, d

-----------------------------------------------------------------------------
(* The ring.                                                               *)

\* The ring as a value, and its characters counted from r.
Rings ==
  [buf : [0 .. INPUT_BUF - 1 -> Chars \cup {"nul"}],
   r : 0 .. Width - 1, w : 0 .. Width - 1, e : 0 .. Width - 1]

Cell(in, k) == in.buf[(in.r + k) % INPUT_BUF]
Entered(in) == Sub(in.w, in.r)
Typed(in) == Sub(in.e, in.w)

EnteredOf(in) == Between(in, in.r, in.w)
LineOf(in) == Between(in, in.w, in.e)

\* r after a character has been read.
Taken(in) == [in EXCEPT !.r = Add(in.r, 1)]

\* w is between r and e, which are at most INPUT_BUF apart, and a line that has
\* not been entered has no newline.
Sound(in) ==
  /\ in \in Rings
  /\ Sub(in.e, in.r) = Entered(in) + Typed(in) /\ Sub(in.e, in.r) <= INPUT_BUF
  /\ \A i \in 0 .. Typed(in) - 1 : Cell(in, Entered(in) + i) # "nl"

\* The counts, the slots and the characters of a ring.
LEMMA Counts ==
  ASSUME NEW in, Sound(in)
  PROVE  /\ Entered(in) \in Nat /\ Typed(in) \in Nat /\ Entered(in) + Typed(in) <= INPUT_BUF
         /\ INPUT_BUF \in Nat \ {0} /\ Width \in Nat \ {0} /\ INPUT_BUF < Width
         /\ in.r \in 0 .. Width - 1 /\ in.w \in 0 .. Width - 1 /\ in.e \in 0 .. Width - 1
         /\ \A k \in Int : (in.r + k) % INPUT_BUF \in 0 .. INPUT_BUF - 1
         /\ \A k \in Int : Cell(in, k) \in Chars \cup {"nul"}
<1>1. /\ in.r \in 0 .. Width - 1 /\ in.w \in 0 .. Width - 1 /\ in.e \in 0 .. Width - 1
      /\ in.buf \in [0 .. INPUT_BUF - 1 -> Chars \cup {"nul"}]
  BY DEF Sound, Rings
<1>2. INPUT_BUF \in Nat \ {0} /\ Width \in Nat \ {0} /\ INPUT_BUF < Width
  BY ConsoleAssumption
<1>3. Entered(in) \in 0 .. Width - 1 /\ Typed(in) \in 0 .. Width - 1
  BY <1>1, Distance, ZenonT(30) DEF Entered, Typed
<1>4. Sub(in.e, in.r) = Entered(in) + Typed(in) /\ Sub(in.e, in.r) <= INPUT_BUF
  BY ZenonT(30) DEF Sound
<1>5. Entered(in) \in Nat /\ Typed(in) \in Nat /\ Entered(in) + Typed(in) <= INPUT_BUF
  BY <1>2, <1>3, <1>4
<1>6. ASSUME NEW k \in Int
      PROVE  (in.r + k) % INPUT_BUF \in 0 .. INPUT_BUF - 1 /\ Cell(in, k) \in Chars \cup {"nul"}
  <2> DEFINE x == in.r + k
  <2>1. x \in Int
    BY <1>1, <1>2
  <2> HIDE DEF x
  <2>2. x % INPUT_BUF \in 0 .. INPUT_BUF - 1
    BY <1>2, <2>1, ModRange
  <2>3. in.buf[x % INPUT_BUF] \in Chars \cup {"nul"}
    BY <1>1, <2>2, ZenonT(30)
  <2> QED
    BY <2>2, <2>3 DEF x, Cell
<1> QED
  BY <1>1, <1>2, <1>5, <1>6, ZenonT(30)

\* What the terminal shows: the characters from r to w, and from w to e.
LEMMA View ==
  ASSUME NEW in, Sound(in)
  PROVE  /\ Between(in, in.r, in.w) = [i \in 1 .. Entered(in) |-> Cell(in, i - 1)]
         /\ Between(in, in.w, in.e) = [i \in 1 .. Typed(in) |-> Cell(in, Entered(in) + (i - 1))]
<1>1. /\ Entered(in) \in Nat /\ Typed(in) \in Nat
      /\ in.r \in 0 .. Width - 1 /\ in.w \in 0 .. Width - 1 /\ in.e \in 0 .. Width - 1
  BY Counts, ZenonT(30)
<1>2. ASSUME NEW i \in Int PROVE in.buf[Add(in.r, i) % INPUT_BUF] = Cell(in, i)
  <2>1. Sub(in.r, in.r) = 0
    BY <1>1, Distance, ZenonT(30)
  <2>2. Add(in.r, i) % INPUT_BUF = (in.r + (Sub(in.r, in.r) + i)) % INPUT_BUF
    BY <1>1, <1>2, SlotOf, ZenonT(30)
  <2>3. Sub(in.r, in.r) + i = i
    BY <2>1
  <2> QED
    BY <2>2, <2>3, ZenonT(30) DEF Cell
<1>3. ASSUME NEW i \in Int PROVE in.buf[Add(in.w, i) % INPUT_BUF] = Cell(in, Entered(in) + i)
  <2>1. Add(in.w, i) % INPUT_BUF = (in.r + (Sub(in.w, in.r) + i)) % INPUT_BUF
    BY <1>1, <1>3, SlotOf, ZenonT(30)
  <2> QED
    BY <2>1, ZenonT(30) DEF Cell, Entered
<1>4. \A i \in 1 .. Entered(in) : in.buf[Add(in.r, i - 1) % INPUT_BUF] = Cell(in, i - 1)
  <2> TAKE i \in 1 .. Entered(in)
  <2>1. i - 1 \in Int
    BY <1>1
  <2> QED
    BY <1>2, <2>1, ZenonT(30)
<1>5. \A i \in 1 .. Typed(in) :
        in.buf[Add(in.w, i - 1) % INPUT_BUF] = Cell(in, Entered(in) + (i - 1))
  <2> TAKE i \in 1 .. Typed(in)
  <2>1. i - 1 \in Int
    BY <1>1
  <2> QED
    BY <1>3, <2>1, ZenonT(30)
<1>6. Between(in, in.r, in.w) = [i \in 1 .. Entered(in) |-> Cell(in, i - 1)]
  BY <1>4, ZenonT(30) DEF Between, Entered
<1>7. Between(in, in.w, in.e) = [i \in 1 .. Typed(in) |-> Cell(in, Entered(in) + (i - 1))]
  BY <1>5, ZenonT(30) DEF Between, Typed
<1> QED
  BY <1>6, <1>7, ZenonT(30)

\* A character goes into the first free slot.
LEMMA StoredCells ==
  ASSUME NEW in, Sound(in), HasRoom(in), NEW ch \in Chars
  PROVE  /\ Stored(in, ch) \in Rings /\ Stored(in, ch).r = in.r
         /\ Stored(in, ch).e = Add(in.e, 1)
         /\ Stored(in, ch).w = IF EntersLine(in, ch) THEN Add(in.e, 1) ELSE in.w
         /\ \A k \in 0 .. Entered(in) + Typed(in) - 1 : Cell(Stored(in, ch), k) = Cell(in, k)
         /\ Cell(Stored(in, ch), Entered(in) + Typed(in)) = ch
<1> DEFINE u == Entered(in)
           l == Typed(in)
           out == Stored(in, ch)
           s == in.e % INPUT_BUF
           buf == [in.buf EXCEPT ![s] = ch]
           w == IF EntersLine(in, ch) THEN Add(in.e, 1) ELSE in.w
<1>1. /\ u \in Nat /\ l \in Nat /\ u + l <= INPUT_BUF
      /\ INPUT_BUF \in Nat \ {0} /\ Width \in Nat \ {0}
      /\ in.r \in 0 .. Width - 1 /\ in.w \in 0 .. Width - 1 /\ in.e \in 0 .. Width - 1
      /\ \A k \in Int : (in.r + k) % INPUT_BUF \in 0 .. INPUT_BUF - 1
  BY Counts, ZenonT(30)
<1>2. Sub(in.e, in.r) = u + l /\ u + l < INPUT_BUF
  BY ZenonT(30) DEF Sound, HasRoom
<1>3. s = (in.r + (u + l)) % INPUT_BUF
  <2>1. 0 \in Int /\ u + l \in Int
    BY <1>1
  <2>2. Add(in.e, 0) % INPUT_BUF = (in.r + (Sub(in.e, in.r) + 0)) % INPUT_BUF
    BY <1>1, <2>1, SlotOf, ZenonT(30)
  <2>3. Sub(in.e, in.r) + 0 = u + l
    BY <1>2, <2>1
  <2>4. Add(in.e, 0) = in.e
    <3>1. in.e + 0 = in.e /\ in.e \in Int /\ 0 <= in.e /\ in.e < Width
      BY <1>1
    <3>2. in.e % Width = in.e
      BY <1>1, <3>1, ModNear, ZenonT(30)
    <3> QED
      BY <3>1, <3>2, ZenonT(30) DEF Add
  <2> QED
    BY <2>2, <2>3, <2>4, ZenonT(30)
<1>4. in \in Rings /\ in.buf \in [0 .. INPUT_BUF - 1 -> Chars \cup {"nul"}]
  BY DEF Sound, Rings
<1>5. Add(in.e, 1) \in 0 .. Width - 1
  <2>1. 1 \in Int
    OBVIOUS
  <2> QED
    BY <1>1, <2>1, Moved, ZenonT(30)
<1>6. s \in 0 .. INPUT_BUF - 1
  <2>1. u + l \in Int
    BY <1>1
  <2> QED
    BY <1>1, <1>3, <2>1, ZenonT(30)
<1>7. buf \in [0 .. INPUT_BUF - 1 -> Chars \cup {"nul"}] /\ w \in 0 .. Width - 1
  BY <1>1, <1>4, <1>5, ZenonT(30)
<1>8. out = [in EXCEPT !.buf = buf, !.e = Add(in.e, 1), !.w = w]
  BY <1>4 DEF Stored, Rings
<1> HIDE DEF s, w, u, l
<1>9. /\ buf[s] = ch
      /\ \A x \in 0 .. INPUT_BUF - 1 : x # s => buf[x] = in.buf[x]
  BY <1>4, <1>6, ZenonT(30)
<1> HIDE DEF buf, out
<1>10. out \in Rings /\ out.r = in.r /\ out.e = Add(in.e, 1) /\ out.w = w /\ out.buf = buf
  BY <1>4, <1>5, <1>7, <1>8, ZenonT(30) DEF Rings
<1>11. Cell(out, u + l) = ch
  BY <1>3, <1>9, <1>10, ZenonT(30) DEF Cell
<1>12. ASSUME NEW k \in 0 .. u + l - 1 PROVE Cell(out, k) = Cell(in, k)
  <2> DEFINE x == in.r + k
             y == in.r + (u + l)
  <2>0. /\ u \in Nat /\ l \in Nat /\ u + l < INPUT_BUF /\ INPUT_BUF \in Nat
        /\ Width \in Nat /\ in.r \in 0 .. Width - 1
    BY <1>1, <1>2
  <2>1. x \in Int /\ y \in Int /\ x < y /\ y - x < INPUT_BUF /\ k \in Int
    BY <2>0
  <2> HIDE DEF x, y
  <2>2. x % INPUT_BUF # y % INPUT_BUF
    BY <1>1, <2>1, ModApart, ZenonT(30)
  <2>3. x % INPUT_BUF \in 0 .. INPUT_BUF - 1 /\ x % INPUT_BUF # s
    BY <1>1, <1>3, <2>1, <2>2, ZenonT(30) DEF x, y
  <2>4. buf[x % INPUT_BUF] = in.buf[x % INPUT_BUF]
    BY <1>9, <2>3, ZenonT(30)
  <2> QED
    BY <1>10, <2>4, ZenonT(30) DEF Cell, x
<1> QED
  BY <1>10, <1>11, <1>12, ZenonT(30) DEF out, u, l, w

\* The line is entered by a newline, by ^D, and by the character that fills the
\* ring; the counts after it.
LEMMA StoredCounts ==
  ASSUME NEW in, Sound(in), HasRoom(in), NEW ch \in Chars
  PROVE  /\ EntersLine(in, ch) <=> ch \in {"nl", "eot"} \/ Entered(in) + Typed(in) + 1 = INPUT_BUF
         /\ Sub(Stored(in, ch).e, Stored(in, ch).r) = Entered(in) + Typed(in) + 1
         /\ EntersLine(in, ch) =>
              /\ Entered(Stored(in, ch)) = Entered(in) + Typed(in) + 1
              /\ Typed(Stored(in, ch)) = 0
         /\ ~EntersLine(in, ch) =>
              Entered(Stored(in, ch)) = Entered(in) /\ Typed(Stored(in, ch)) = Typed(in) + 1
<1> DEFINE u == Entered(in)
           l == Typed(in)
           out == Stored(in, ch)
           x == Add(in.e, 1)
           full == Add(in.r, INPUT_BUF)
<1>1. /\ u \in Nat /\ l \in Nat /\ u + l <= INPUT_BUF
      /\ INPUT_BUF \in Nat \ {0} /\ Width \in Nat \ {0} /\ INPUT_BUF < Width
      /\ in.r \in 0 .. Width - 1 /\ in.w \in 0 .. Width - 1 /\ in.e \in 0 .. Width - 1
  BY Counts, ZenonT(30)
<1>2. Sub(in.e, in.r) = u + l /\ u + l < INPUT_BUF /\ Sub(in.e, in.w) = l
  BY ZenonT(30) DEF Sound, HasRoom, Typed
<1>3. out.r = in.r /\ out.e = x /\ out.w = IF EntersLine(in, ch) THEN x ELSE in.w
  BY StoredCells, ZenonT(30)
<1> HIDE DEF out
<1>4. 1 \in Int /\ INPUT_BUF \in Int
  BY <1>1
<1>5. x \in 0 .. Width - 1 /\ full \in 0 .. Width - 1
  BY <1>1, <1>4, Moved, ZenonT(30)
<1>6. Sub(x, in.r) = u + l + 1
  <2>1. Sub(in.e, in.r) + 1 \in 0 .. Width - 1 /\ Sub(in.e, in.r) + 1 = u + l + 1
    BY <1>1, <1>2
  <2>2. Sub(x, in.r) = Sub(in.e, in.r) + 1
    BY <1>1, <1>4, <2>1, EndMoved, ZenonT(30)
  <2> QED
    BY <2>1, <2>2, ZenonT(30)
<1>7. Sub(x, in.w) = l + 1
  <2>1. Sub(in.e, in.w) + 1 \in 0 .. Width - 1 /\ Sub(in.e, in.w) + 1 = l + 1
    BY <1>1, <1>2
  <2>2. Sub(x, in.w) = Sub(in.e, in.w) + 1
    BY <1>1, <1>4, <2>1, EndMoved, ZenonT(30)
  <2> QED
    BY <2>1, <2>2, ZenonT(30)
<1>8. Sub(full, in.r) = INPUT_BUF
  <2>1. Sub(in.r, in.r) = 0
    BY <1>1, Distance, ZenonT(30)
  <2>2. /\ Sub(in.r, in.r) + INPUT_BUF = INPUT_BUF
        /\ Sub(in.r, in.r) + INPUT_BUF \in 0 .. Width - 1
    BY <1>1, <2>1
  <2>3. Sub(full, in.r) = Sub(in.r, in.r) + INPUT_BUF
    BY <1>1, <1>4, <2>2, EndMoved, ZenonT(30)
  <2> QED
    BY <2>2, <2>3, ZenonT(30)
<1>9. x = full <=> u + l + 1 = INPUT_BUF
  <2>1. Add(in.r, Sub(x, in.r)) = x /\ Add(in.r, Sub(full, in.r)) = full
    BY <1>1, <1>5, Distance, ZenonT(30)
  <2> QED
    BY <1>6, <1>8, <2>1, ZenonT(30)
<1>10. EntersLine(in, ch) <=> ch \in {"nl", "eot"} \/ u + l + 1 = INPUT_BUF
  BY <1>9, ZenonT(30) DEF EntersLine
<1>11. Sub(x, x) = 0
  BY <1>5, Distance, ZenonT(30)
<1> QED
  BY <1>2, <1>3, <1>6, <1>7, <1>10, <1>11, ZenonT(30) DEF out, Entered, Typed

\* The ring stays sound.
LEMMA StoredSound ==
  ASSUME NEW in, Sound(in), HasRoom(in), NEW ch \in Chars
  PROVE  Sound(Stored(in, ch))
<1> DEFINE u == Entered(in)
           l == Typed(in)
           out == Stored(in, ch)
<1>1. u \in Nat /\ l \in Nat /\ INPUT_BUF \in Nat
  BY Counts, ZenonT(30)
<1>2. u + l < INPUT_BUF
  BY ZenonT(30) DEF Sound, HasRoom
<1>3. /\ out \in Rings
      /\ \A k \in 0 .. u + l - 1 : Cell(out, k) = Cell(in, k)
      /\ Cell(out, u + l) = ch
  BY StoredCells, ZenonT(30)
<1>4. /\ Sub(out.e, out.r) = u + l + 1
      /\ EntersLine(in, ch) => Entered(out) = u + l + 1 /\ Typed(out) = 0
      /\ ~EntersLine(in, ch) => Entered(out) = u /\ Typed(out) = l + 1 /\ ch # "nl"
  BY StoredCounts
<1>5. \A i \in 0 .. l - 1 : Cell(in, u + i) # "nl"
  BY ZenonT(30) DEF Sound
<1> HIDE DEF u, l, out
<1>6. Sub(out.e, out.r) = Entered(out) + Typed(out) /\ Sub(out.e, out.r) <= INPUT_BUF
  BY <1>1, <1>2, <1>4
<1>7. ASSUME NEW i \in 0 .. Typed(out) - 1 PROVE Cell(out, Entered(out) + i) # "nl"
  <2>1. CASE EntersLine(in, ch)
    BY <1>4, <1>7, <2>1
  <2>2. CASE ~EntersLine(in, ch)
    <3>1. Entered(out) = u /\ ch # "nl" /\ i \in 0 .. l
      BY <1>1, <1>4, <2>2
    <3>2. CASE i = l
      BY <1>3, <3>1, <3>2, ZenonT(30)
    <3>3. CASE i # l
      <4>1. i \in 0 .. l - 1 /\ u + i \in 0 .. u + l - 1
        BY <1>1, <3>1, <3>3
      <4> QED
        BY <1>3, <1>5, <3>1, <4>1, ZenonT(30)
    <3> QED
      BY <3>2, <3>3
  <2> QED
    BY <2>1, <2>2
<1>8. Sound(out)
  BY <1>3, <1>6, <1>7, ZenonT(30) DEF Sound
<1> QED
  BY <1>8 DEF out

\* What has been entered and what is being typed, as sequences.
LEMMA ViewSeq ==
  ASSUME NEW in, Sound(in)
  PROVE  /\ EnteredOf(in) \in Seq(Chars \cup {"nul"})
         /\ Len(EnteredOf(in)) = Entered(in)
         /\ \A i \in 1 .. Entered(in) : EnteredOf(in)[i] = Cell(in, i - 1)
         /\ LineOf(in) \in Seq(Chars \cup {"nul"})
         /\ Len(LineOf(in)) = Typed(in)
         /\ \A i \in 1 .. Typed(in) : LineOf(in)[i] = Cell(in, Entered(in) + (i - 1))
<1> DEFINE u == Entered(in)
           l == Typed(in)
           S == Chars \cup {"nul"}
<1>1. u \in Nat /\ l \in Nat /\ \A k \in Int : Cell(in, k) \in S
  BY Counts, ZenonT(30)
<1>2. /\ EnteredOf(in) = [i \in 1 .. u |-> Cell(in, i - 1)]
      /\ LineOf(in) = [i \in 1 .. l |-> Cell(in, u + (i - 1))]
  BY View, ZenonT(30) DEF EnteredOf, LineOf
<1> HIDE DEF u, l, S
<1>3. \A i \in 1 .. u : Cell(in, i - 1) \in S
  BY <1>1
<1>4. \A i \in 1 .. l : Cell(in, u + (i - 1)) \in S
  BY <1>1
<1>5. /\ [i \in 1 .. u |-> Cell(in, i - 1)] \in Seq(S)
      /\ Len([i \in 1 .. u |-> Cell(in, i - 1)]) = u
  BY <1>1, <1>3
<1>6. /\ [i \in 1 .. l |-> Cell(in, u + (i - 1))] \in Seq(S)
      /\ Len([i \in 1 .. l |-> Cell(in, u + (i - 1))]) = l
  BY <1>1, <1>4
<1> QED
  BY <1>2, <1>5, <1>6, ZenonT(30) DEF u, l, S

\* Sequences are equal when their elements are.
LEMMA Extension ==
  ASSUME NEW S, NEW s \in Seq(S), NEW t \in Seq(S), NEW k \in Nat, Len(s) = k, Len(t) = k,
         \A i \in 1 .. k : s[i] = t[i]
  PROVE  s = t
OBVIOUS

\* A stored character is typed: it joins the line, and may enter it.
LEMMA StoredTypes ==
  ASSUME NEW in, Sound(in), HasRoom(in), NEW ch \in Chars
  PROVE  /\ Len(EnteredOf(in)) + Len(LineOf(in)) < INPUT_BUF
         /\ EntersLine(in, ch) <=>
              ch \in {"nl", "eot"} \/ Len(EnteredOf(in)) + Len(LineOf(in)) + 1 = INPUT_BUF
         /\ EntersLine(in, ch) =>
              /\ EnteredOf(Stored(in, ch)) = EnteredOf(in) \o Append(LineOf(in), ch)
              /\ LineOf(Stored(in, ch)) = <<>>
         /\ ~EntersLine(in, ch) =>
              /\ LineOf(Stored(in, ch)) = Append(LineOf(in), ch)
              /\ EnteredOf(Stored(in, ch)) = EnteredOf(in)
<1> DEFINE u == Entered(in)
           l == Typed(in)
           S == Chars \cup {"nul"}
           out == Stored(in, ch)
           entered == EnteredOf(in)
           line == LineOf(in)
           e2 == EnteredOf(out)
           l2 == LineOf(out)
           longer == Append(line, ch)
<1>1. u \in Nat /\ l \in Nat /\ INPUT_BUF \in Nat
  BY Counts, ZenonT(30)
<1>2. u + l < INPUT_BUF
  BY ZenonT(30) DEF Sound, HasRoom
<1>3. /\ entered \in Seq(S) /\ Len(entered) = u /\ line \in Seq(S) /\ Len(line) = l
      /\ \A i \in 1 .. u : entered[i] = Cell(in, i - 1)
      /\ \A i \in 1 .. l : line[i] = Cell(in, u + (i - 1))
  BY ViewSeq, ZenonT(30)
<1>4. Sound(out)
  BY StoredSound, ZenonT(30)
<1>5. /\ e2 \in Seq(S) /\ Len(e2) = Entered(out) /\ l2 \in Seq(S) /\ Len(l2) = Typed(out)
      /\ \A i \in 1 .. Entered(out) : e2[i] = Cell(out, i - 1)
      /\ \A i \in 1 .. Typed(out) : l2[i] = Cell(out, Entered(out) + (i - 1))
  BY <1>4, ViewSeq, ZenonT(30)
<1>6. /\ \A k \in 0 .. u + l - 1 : Cell(out, k) = Cell(in, k)
      /\ Cell(out, u + l) = ch
  BY StoredCells, ZenonT(30)
<1>7. /\ EntersLine(in, ch) <=> ch \in {"nl", "eot"} \/ u + l + 1 = INPUT_BUF
      /\ EntersLine(in, ch) => Entered(out) = u + l + 1 /\ Typed(out) = 0
      /\ ~EntersLine(in, ch) => Entered(out) = u /\ Typed(out) = l + 1
  BY StoredCounts, ZenonT(30)
<1>8. ch \in S
  OBVIOUS
<1> HIDE DEF u, l, S, e2, l2, out, entered, line
<1>9. /\ longer \in Seq(S) /\ Len(longer) = l + 1
      /\ \A i \in 1 .. l : longer[i] = line[i]
      /\ longer[l + 1] = ch
  BY <1>3, <1>8
<1> HIDE DEF longer
<1>10. /\ entered \o longer \in Seq(S) /\ Len(entered \o longer) = u + (l + 1)
       /\ \A i \in 1 .. u + (l + 1) :
            (entered \o longer)[i] = IF i <= u THEN entered[i] ELSE longer[i - u]
  <2>1. /\ entered \o longer \in Seq(S) /\ Len(entered \o longer) = Len(entered) + Len(longer)
        /\ \A i \in 1 .. Len(entered) + Len(longer) : (entered \o longer)[i] =
             IF i <= Len(entered) THEN entered[i] ELSE longer[i - Len(entered)]
    <3>1. entered \in Seq(S) /\ longer \in Seq(S)
      BY <1>3, <1>9, ZenonT(30)
    <3> QED
      BY <3>1
  <2>2. Len(entered) = u /\ Len(longer) = l + 1
    BY <1>3, <1>9, ZenonT(30)
  <2> QED
    BY <2>1, <2>2, ZenonT(30)
<1>11. ASSUME EntersLine(in, ch) PROVE e2 = entered \o longer /\ l2 = <<>>
  <2>1. l2 = <<>>
    BY <1>5, <1>7, <1>11
  <2>2. ASSUME NEW i \in 1 .. u + (l + 1) PROVE e2[i] = (entered \o longer)[i]
    <3>1. e2[i] = Cell(out, i - 1)
      BY <1>1, <1>5, <1>7, <1>11
    <3>2. CASE i <= u
      <4>1. i \in 1 .. u /\ i - 1 \in 0 .. u + l - 1
        BY <1>1, <3>2
      <4> QED
        BY <1>3, <1>6, <1>10, <3>1, <3>2, <4>1, ZenonT(30)
    <3>3. CASE i > u /\ i <= u + l
      <4>1. /\ i - u \in 1 .. l /\ i - 1 \in 0 .. u + l - 1 /\ u + ((i - u) - 1) = i - 1
            /\ ~(i <= u)
        BY <1>1, <3>3
      <4>2. longer[i - u] = Cell(in, i - 1)
        BY <1>3, <1>9, <4>1, ZenonT(30)
      <4> QED
        BY <1>6, <1>10, <3>1, <4>1, <4>2, ZenonT(30)
    <3>4. CASE i = u + l + 1
      <4>1. i - u = l + 1 /\ i - 1 = u + l /\ ~(i <= u)
        BY <1>1, <3>4
      <4> QED
        BY <1>6, <1>9, <1>10, <3>1, <4>1, ZenonT(30)
    <3>5. i <= u \/ (i > u /\ i <= u + l) \/ i = u + l + 1
      BY <1>1
    <3> QED
      BY <3>2, <3>3, <3>4, <3>5, ZenonT(30)
  <2>3. Len(e2) = u + (l + 1) /\ u + (l + 1) \in Nat
    BY <1>1, <1>5, <1>7, <1>11
  <2>4. e2 = entered \o longer
    BY <1>5, <1>10, <2>2, <2>3, Extension, ZenonT(30)
  <2> QED
    BY <2>1, <2>4
<1>12. ASSUME ~EntersLine(in, ch) PROVE l2 = longer /\ e2 = entered
  <2>0. /\ Len(e2) = u /\ Len(l2) = l + 1
        /\ \A i \in 1 .. u : e2[i] = Cell(out, i - 1)
        /\ \A i \in 1 .. l + 1 : l2[i] = Cell(out, u + (i - 1))
    BY <1>5, <1>7, <1>12, ZenonT(30)
  <2>1. ASSUME NEW i \in 1 .. u PROVE e2[i] = entered[i]
    <3>1. i - 1 \in 0 .. u + l - 1
      BY <1>1
    <3>2. e2[i] = Cell(out, i - 1)
      BY <2>0, ZenonT(30)
    <3> QED
      BY <1>3, <1>6, <3>1, <3>2, ZenonT(30)
  <2>2. e2 = entered
    <3>1. e2 \in Seq(S) /\ entered \in Seq(S) /\ Len(e2) = u /\ Len(entered) = u /\ u \in Nat
      BY <1>1, <1>3, <1>5, <2>0, ZenonT(30)
    <3>2. \A i \in 1 .. u : e2[i] = entered[i]
      BY <2>1
    <3> QED
      BY <3>1, <3>2, Extension, SMT
  <2>3. ASSUME NEW i \in 1 .. l + 1 PROVE l2[i] = longer[i]
    <3>1. l2[i] = Cell(out, u + (i - 1))
      BY <2>0, ZenonT(30)
    <3>2. CASE i <= l
      <4>1. i \in 1 .. l /\ u + (i - 1) \in 0 .. u + l - 1
        BY <1>1, <3>2
      <4> QED
        BY <1>3, <1>6, <1>9, <3>1, <4>1, ZenonT(30)
    <3>3. CASE i = l + 1
      <4>1. u + (i - 1) = u + l
        BY <1>1, <3>3
      <4> QED
        BY <1>6, <1>9, <3>1, <3>3, <4>1, ZenonT(30)
    <3> QED
      BY <1>1, <3>2, <3>3
  <2>4. l + 1 \in Nat
    BY <1>1
  <2>5. l2 = longer
    BY <1>5, <1>9, <2>0, <2>3, <2>4, Extension, ZenonT(30)
  <2> QED
    BY <2>2, <2>5
<1> QED
  BY <1>2, <1>3, <1>7, <1>11, <1>12, ZenonT(30) DEF e2, l2, longer, out, entered, line

\* e goes back over k characters of the line.
LEMMA Shorter ==
  ASSUME NEW in, Sound(in), NEW k \in 0 .. Typed(in),
         NEW out, out = [in EXCEPT !.e = Sub(in.e, k)]
  PROVE  /\ Sound(out) /\ out.r = in.r /\ out.w = in.w
         /\ EnteredOf(out) = EnteredOf(in)
         /\ LineOf(out) = SubSeq(LineOf(in), 1, Typed(in) - k)
<1> DEFINE u == Entered(in)
           l == Typed(in)
           S == Chars \cup {"nul"}
           line == LineOf(in)
           l2 == LineOf(out)
           short == SubSeq(line, 1, l - k)
<1>1. /\ u \in Nat /\ l \in Nat /\ u + l <= INPUT_BUF
      /\ INPUT_BUF \in Nat \ {0} /\ Width \in Nat \ {0} /\ INPUT_BUF < Width
      /\ in.r \in 0 .. Width - 1 /\ in.w \in 0 .. Width - 1 /\ in.e \in 0 .. Width - 1
  BY Counts, ZenonT(30)
<1>2. /\ in \in Rings /\ Sub(in.e, in.r) = u + l /\ Sub(in.e, in.w) = l
      /\ \A i \in 0 .. l - 1 : Cell(in, u + i) # "nl"
  BY ZenonT(30) DEF Sound, Typed
<1> HIDE DEF u
<1> DEFINE j == -k
<1>3. k \in Int /\ j \in Int
  BY <1>1
<1>4. Sub(in.e, k) = Add(in.e, j) /\ Add(in.e, j) \in 0 .. Width - 1
  BY <1>1, <1>3, Moved, ZenonT(30)
<1> HIDE DEF j
<1>5. /\ out \in Rings /\ out.r = in.r /\ out.w = in.w /\ out.buf = in.buf
      /\ out.e = Add(in.e, j)
  BY <1>2, <1>4 DEF Rings
<1>6. Sub(out.e, out.r) = u + (l - k)
  <2>1. Sub(in.e, in.r) + j \in 0 .. Width - 1 /\ Sub(in.e, in.r) + j = u + (l - k)
    BY <1>1, <1>2 DEF j
  <2>2. Sub(Add(in.e, j), in.r) = Sub(in.e, in.r) + j
    BY <1>1, <1>3, <2>1, EndMoved, ZenonT(30)
  <2> QED
    BY <1>5, <2>1, <2>2, ZenonT(30)
<1>7. Typed(out) = l - k
  <2>1. Sub(in.e, in.w) + j \in 0 .. Width - 1 /\ Sub(in.e, in.w) + j = l - k
    BY <1>1, <1>2 DEF j
  <2>2. Sub(Add(in.e, j), in.w) = Sub(in.e, in.w) + j
    BY <1>1, <1>3, <2>1, EndMoved, ZenonT(30)
  <2> QED
    BY <1>5, <2>1, <2>2, ZenonT(30) DEF Typed
<1>8. Entered(out) = u
  BY <1>5, ZenonT(30) DEF Entered, u
<1>9. \A i : Cell(out, i) = Cell(in, i)
  BY <1>5, ZenonT(30) DEF Cell
<1>10. Sound(out)
  <2>1. Sub(out.e, out.r) = Entered(out) + Typed(out) /\ Sub(out.e, out.r) <= INPUT_BUF
    BY <1>1, <1>6, <1>7, <1>8
  <2>2. ASSUME NEW i \in 0 .. Typed(out) - 1 PROVE Cell(out, Entered(out) + i) # "nl"
    <3>1. i \in 0 .. l - 1
      BY <1>1, <1>7
    <3> QED
      BY <1>2, <1>8, <1>9, <3>1, ZenonT(30)
  <2> QED
    BY <1>5, <2>1, <2>2, ZenonT(30) DEF Sound
<1>11. EnteredOf(out) = EnteredOf(in)
  BY <1>5 DEF Between, EnteredOf
<1>12. /\ line \in Seq(S) /\ Len(line) = l
       /\ \A i \in 1 .. l : line[i] = Cell(in, u + (i - 1))
  BY ViewSeq, ZenonT(30) DEF u
<1>13. /\ l2 \in Seq(S) /\ Len(l2) = l - k
       /\ \A i \in 1 .. l - k : l2[i] = Cell(in, u + (i - 1))
  <2>1. /\ l2 \in Seq(S) /\ Len(l2) = Typed(out)
        /\ \A i \in 1 .. Typed(out) : l2[i] = Cell(out, Entered(out) + (i - 1))
    BY <1>10, ViewSeq, ZenonT(30)
  <2> QED
    BY <1>7, <1>8, <1>9, <2>1, ZenonT(30)
<1> HIDE DEF l, S, line, l2
<1>14. /\ short \in Seq(S) /\ Len(short) = l - k
       /\ \A i \in 1 .. l - k : short[i] = line[i]
  <2> DEFINE m == l - k
             cut == SubSeq(line, 1, m)
  <2>1. m \in Nat /\ m \in Int /\ 1 \in Int /\ m <= l
    BY <1>1 DEF l
  <2> HIDE DEF m
  <2>2. \A i \in 1 .. m : line[i] \in S
    BY <1>1, <1>12, <2>1
  <2>3. /\ cut \in Seq(S) /\ Len(cut) = IF 1 <= m THEN m - 1 + 1 ELSE 0
        /\ \A i \in 1 .. m - 1 + 1 : cut[i] = line[1 + i - 1]
    BY <2>1, <2>2
  <2> HIDE DEF cut
  <2>4. Len(cut) = m /\ m - 1 + 1 = m /\ \A i \in 1 .. m : 1 + i - 1 = i
    BY <2>1, <2>3
  <2>5. cut \in Seq(S) /\ Len(cut) = m /\ \A i \in 1 .. m : cut[i] = line[i]
    BY <2>3, <2>4, ZenonT(30)
  <2> QED
    BY <2>5 DEF cut, m
<1> HIDE DEF short
<1>15. l2 = short
  <2>1. \A i \in 1 .. l - k : l2[i] = short[i]
    <3> TAKE i \in 1 .. l - k
    <3>1. i \in 1 .. l
      BY <1>1
    <3> QED
      BY <1>12, <1>13, <1>14, <3>1, ZenonT(30)
  <2>2. l - k \in Nat
    BY <1>1 DEF l
  <2> QED
    BY <1>13, <1>14, <2>1, <2>2, Extension, ZenonT(30)
<1> QED
  BY <1>5, <1>10, <1>11, <1>15, ZenonT(30) DEF l2, short, line, l

\* ^H takes back one character, if the line has one.
LEMMA BackspaceErases ==
  ASSUME NEW in, Sound(in)
  PROVE  /\ Sound(Backspace(in))
         /\ \/ Backspace(in) = in
            \/ /\ LineOf(in) # <<>>
               /\ LineOf(Backspace(in)) = SubSeq(LineOf(in), 1, Len(LineOf(in)) - 1)
               /\ EnteredOf(Backspace(in)) = EnteredOf(in)
<1> DEFINE out == Backspace(in)
           line == LineOf(in)
<1>1. Len(line) = Typed(in) /\ Typed(in) \in Nat
  BY Counts, ViewSeq, ZenonT(30)
<1>2. CASE in.e = in.w
  BY <1>2, ZenonT(30) DEF Backspace
<1>3. CASE in.e # in.w
  <2>1. out = [in EXCEPT !.e = Sub(in.e, 1)]
    BY <1>3 DEF Backspace
  <2>2. Typed(in) # 0
    BY <1>3, Counts, Distance, ZenonT(30) DEF Typed
  <2>3. 1 \in 0 .. Typed(in)
    BY <1>1, <2>2
  <2>4. line # <<>>
    <3>1. Len(<<>>) = 0
      OBVIOUS
    <3> QED
      BY <1>1, <2>2, <3>1, ZenonT(30)
  <2>5. /\ Sound(out) /\ out.r = in.r /\ out.w = in.w
        /\ EnteredOf(out) = EnteredOf(in)
        /\ LineOf(out) = SubSeq(LineOf(in), 1, Typed(in) - 1)
    BY <2>1, <2>3, Shorter, ZenonT(30)
  <2> QED
    BY <1>1, <2>4, <2>5, ZenonT(30)
<1> QED
  BY <1>2, <1>3, ZenonT(30)

\* ^U stops at a newline, and there is none in the line: it takes back all.
LEMMA KillLineErases ==
  ASSUME NEW in, Sound(in)
  PROVE  /\ Sound(KillLine(in))
         /\ LineOf(KillLine(in)) = <<>> /\ EnteredOf(KillLine(in)) = EnteredOf(in)
<1> DEFINE out == KillLine(in)
<1> DEFINE u == Entered(in)
           l == Typed(in)
           Newline(i) == in.buf[Sub(in.e, i) % INPUT_BUF] = "nl"
           Stop(m) == (\A i \in 1 .. m : ~Newline(i)) /\ (m = l \/ Newline(m + 1))
<1>1. /\ u \in Nat /\ l \in Nat
      /\ in.r \in 0 .. Width - 1 /\ in.w \in 0 .. Width - 1 /\ in.e \in 0 .. Width - 1
  BY Counts, ZenonT(30)
<1>2. /\ Sub(in.e, in.r) = u + l /\ Sub(in.e, in.w) = l
      /\ \A i \in 0 .. l - 1 : Cell(in, u + i) # "nl"
  BY ZenonT(30) DEF Sound, Typed
<1> HIDE DEF u, l
<1>3. ASSUME NEW i \in 1 .. l PROVE ~Newline(i)
  <2>1. /\ i \in Int /\ -i \in Int /\ l - i \in 0 .. l - 1
        /\ Sub(in.e, in.r) + -i = u + (l - i)
    BY <1>1, <1>2
  <2>2. Sub(in.e, i) = Add(in.e, -i)
    BY <1>1, <2>1, Moved, ZenonT(30)
  <2>3. Add(in.e, -i) % INPUT_BUF = (in.r + (Sub(in.e, in.r) + -i)) % INPUT_BUF
    BY <1>1, <2>1, SlotOf, ZenonT(30)
  <2>4. in.buf[Sub(in.e, i) % INPUT_BUF] = Cell(in, u + (l - i))
    BY <2>1, <2>2, <2>3, ZenonT(30) DEF Cell
  <2> QED
    BY <1>2, <2>1, <2>4, ZenonT(30)
<1>4. out = [in EXCEPT !.e = Sub(in.e, CHOOSE m \in 0 .. l : Stop(m))]
  BY <1>2, ZenonT(30) DEF KillLine
<1>5. l \in 0 .. l /\ Stop(l)
  BY <1>1, <1>3
<1>6. ASSUME NEW m \in 0 .. l, Stop(m) PROVE m = l
  <2>1. m # l => m + 1 \in 1 .. l
    BY <1>1
  <2> QED
    BY <1>3, <1>6, <2>1, ZenonT(30)
<1> HIDE DEF Stop
<1>7. out = [in EXCEPT !.e = Sub(in.e, l)]
  BY <1>4, <1>5, <1>6, ZenonT(30)
<1>8. l \in 0 .. l
  BY <1>1
<1>9. /\ Sound(out) /\ out.r = in.r /\ out.w = in.w
      /\ EnteredOf(out) = EnteredOf(in)
      /\ LineOf(out) = SubSeq(LineOf(in), 1, l - l)
  BY <1>7, <1>8, Shorter, ZenonT(30) DEF l
<1>10. SubSeq(LineOf(in), 1, l - l) = <<>>
  <2>1. 1 \in Int /\ l - l \in Int /\ l - l < 1
    BY <1>1
  <2> QED
    BY <2>1
<1> QED
  BY <1>9, <1>10, ZenonT(30)

\* A reader takes the first character that has been entered.
LEMMA ReadTakes ==
  ASSUME NEW in, Sound(in), in.r # in.w
  PROVE  /\ Sound(Taken(in)) /\ EnteredOf(in) # <<>>
         /\ EnteredOf(Taken(in)) = Tail(EnteredOf(in)) /\ LineOf(Taken(in)) = LineOf(in)
<1> DEFINE out == Taken(in)
           entered == EnteredOf(in)
<1> DEFINE u == Entered(in)
           l == Typed(in)
           S == Chars \cup {"nul"}
           e2 == EnteredOf(out)
<1>1. /\ u \in Nat /\ l \in Nat /\ u + l <= INPUT_BUF
      /\ INPUT_BUF \in Nat \ {0} /\ Width \in Nat \ {0} /\ INPUT_BUF < Width
      /\ in.r \in 0 .. Width - 1 /\ in.w \in 0 .. Width - 1 /\ in.e \in 0 .. Width - 1
  BY Counts, ZenonT(30)
<1>2. /\ in \in Rings /\ Sub(in.e, in.r) = u + l /\ Sub(in.w, in.r) = u
      /\ \A i \in 0 .. l - 1 : Cell(in, u + i) # "nl"
  BY ZenonT(30) DEF Sound, Entered
<1>3. u # 0
  BY <1>1, Distance, ZenonT(30) DEF Entered
<1> HIDE DEF u
<1>4. 1 \in Int
  OBVIOUS
<1>5. Add(in.r, 1) \in 0 .. Width - 1
  BY <1>1, <1>4, Moved, ZenonT(30)
<1>6. /\ out \in Rings /\ out.r = Add(in.r, 1) /\ out.w = in.w /\ out.e = in.e
      /\ out.buf = in.buf
  BY <1>2, <1>5 DEF Rings, Taken
<1> HIDE DEF out, entered
<1>7. Entered(out) = u - 1
  <2>1. Sub(in.w, in.r) - 1 \in 0 .. Width - 1 /\ Sub(in.w, in.r) - 1 = u - 1
    BY <1>1, <1>2, <1>3
  <2>2. Sub(in.w, Add(in.r, 1)) = Sub(in.w, in.r) - 1
    BY <1>1, <1>4, <2>1, StartMoved, ZenonT(30)
  <2> QED
    BY <1>6, <2>1, <2>2, ZenonT(30) DEF Entered
<1>8. Sub(out.e, out.r) = (u - 1) + l
  <2>1. Sub(in.e, in.r) - 1 \in 0 .. Width - 1 /\ Sub(in.e, in.r) - 1 = (u - 1) + l
    BY <1>1, <1>2, <1>3
  <2>2. Sub(in.e, Add(in.r, 1)) = Sub(in.e, in.r) - 1
    BY <1>1, <1>4, <2>1, StartMoved, ZenonT(30)
  <2> QED
    BY <1>6, <2>1, <2>2, ZenonT(30)
<1>9. Typed(out) = l
  BY <1>6, ZenonT(30) DEF Typed
<1>10. ASSUME NEW k \in Int PROVE Cell(out, k) = Cell(in, 1 + k)
  <2> DEFINE y == in.r + 1
  <2>1. y \in Int /\ y + k = in.r + (1 + k)
    BY <1>1
  <2>2. out.r = y % Width
    BY <1>6, ZenonT(30) DEF Add
  <2> HIDE DEF y
  <2>3. ((y % Width) + k) % INPUT_BUF = (y + k) % INPUT_BUF
    BY <2>1, WidthSlots, ZenonT(30)
  <2> QED
    BY <1>6, <2>1, <2>2, <2>3, ZenonT(30) DEF Cell
<1>11. Sound(out)
  <2>1. Sub(out.e, out.r) = Entered(out) + Typed(out) /\ Sub(out.e, out.r) <= INPUT_BUF
    BY <1>1, <1>3, <1>7, <1>8, <1>9
  <2>2. ASSUME NEW i \in 0 .. Typed(out) - 1 PROVE Cell(out, Entered(out) + i) # "nl"
    <3>1. i \in 0 .. l - 1 /\ (u - 1) + i \in Int /\ 1 + ((u - 1) + i) = u + i
      BY <1>1, <1>9
    <3>2. Cell(out, (u - 1) + i) = Cell(in, 1 + ((u - 1) + i))
      BY <1>10, <3>1, ZenonT(30)
    <3> QED
      BY <1>2, <1>7, <3>1, <3>2, ZenonT(30)
  <2> QED
    BY <1>6, <2>1, <2>2, ZenonT(30) DEF Sound
<1>12. /\ entered \in Seq(S) /\ Len(entered) = u
       /\ \A i \in 1 .. u : entered[i] = Cell(in, i - 1)
  BY ViewSeq, ZenonT(30) DEF u, entered
<1>13. /\ e2 \in Seq(S) /\ Len(e2) = u - 1
       /\ \A i \in 1 .. u - 1 : e2[i] = Cell(out, i - 1)
  <2>1. /\ e2 \in Seq(S) /\ Len(e2) = Entered(out)
        /\ \A i \in 1 .. Entered(out) : e2[i] = Cell(out, i - 1)
    BY <1>11, ViewSeq, ZenonT(30)
  <2> QED
    BY <1>7, <2>1, ZenonT(30)
<1>14. entered # <<>>
  <2>1. Len(<<>>) = 0
    OBVIOUS
  <2> QED
    BY <1>3, <1>12, <2>1, ZenonT(30)
<1>15. LineOf(out) = LineOf(in)
  BY <1>6 DEF Between, LineOf
<1> HIDE DEF e2, S
<1>16. /\ Tail(entered) \in Seq(S) /\ Len(Tail(entered)) = u - 1
       /\ \A i \in 1 .. u - 1 : Tail(entered)[i] = entered[i + 1]
  <2>1. /\ Tail(entered) \in Seq(S) /\ Len(Tail(entered)) = Len(entered) - 1
        /\ \A i \in 1 .. Len(Tail(entered)) : Tail(entered)[i] = entered[i + 1]
    BY <1>12, <1>14
  <2>2. Len(Tail(entered)) = u - 1
    BY <1>12, <2>1, ZenonT(30)
  <2> QED
    BY <2>1, <2>2, ZenonT(30)
<1>17. e2 = Tail(entered)
  <2>1. ASSUME NEW i \in 1 .. u - 1 PROVE e2[i] = Tail(entered)[i]
    <3>1. i + 1 \in 1 .. u /\ i - 1 \in Int /\ 1 + (i - 1) = (i + 1) - 1
      BY <1>1
    <3>2. entered[i + 1] = Cell(in, (i + 1) - 1)
      BY <1>12, <3>1, ZenonT(30)
    <3>3. e2[i] = Cell(in, 1 + (i - 1))
      BY <1>10, <1>13, <3>1, ZenonT(30)
    <3> QED
      BY <1>16, <3>1, <3>2, <3>3, ZenonT(30)
  <2>2. PICK q \in Nat : q = u - 1
    BY <1>1, <1>3
  <2>3. e2 \in Seq(S) /\ Len(e2) = q
    BY <1>13, <2>2, ZenonT(30)
  <2>4. PICK t \in Seq(S) : t = Tail(entered) /\ Len(t) = q
    BY <1>16, <2>2, ZenonT(30)
  <2>5. \A i \in 1 .. q : e2[i] = t[i]
    BY <2>1, <2>2, <2>4, ZenonT(30)
  <2>6. e2 = t
    BY <2>3, <2>4, <2>5, Extension, ZenonT(30)
  <2> QED
    BY <2>4, <2>6, ZenonT(30)
<1> QED
  BY <1>11, <1>14, <1>15, <1>17, ZenonT(30) DEF e2, out, entered

-----------------------------------------------------------------------------
(* The console is a terminal.                                              *)

RingInv == setting \in Settings /\ Sound(input)

Entering == EnteredOf(input)
Line == LineOf(input)

\* A key that consoleintr stores is a character of the terminal.
LEMMA Kept ==
  ASSUME setting \in Settings, NEW k \in setting.keys,
         NEW ch, ch = IF k = "cr" THEN "nl" ELSE k, ch \notin {"nul", "^P", "^U", "^H"}
  PROVE  ch \in Chars
<1>1. k \in Chars \cup Controls
  BY InterruptsAssumption, ZenonT(30)
<1> QED
  BY <1>1 DEF Chars, Controls

\* A key is typed, erases a character or the line, or does nothing.
LEMMA KeyTypes ==
  ASSUME RingInv, NEW c, NEW k \in setting.keys, Key(c, k)
  PROVE  /\ Sound(input')
         /\ [Abstract!Next]_<<Line, Entering>>
<1> DEFINE ch == IF k = "cr" THEN "nl" ELSE k
           stored == ch \notin {"nul", "^P", "^U", "^H"} /\ HasRoom(input)
<1>1. Sound(input) /\ setting \in Settings
  BY ZenonT(30) DEF RingInv
<1>2. input' = CASE k = "^U" -> KillLine(input)
                 [] k = "^H" -> Backspace(input)
                 [] stored -> Stored(input, ch)
                 [] OTHER -> input
  BY ZenonT(30) DEF Key
<1>3. CASE k = "^U"
  <2>1. input' = KillLine(input)
    BY <1>2, <1>3
  <2>2. Sound(input') /\ Line' = <<>> /\ Entering' = Entering
    BY <1>1, <2>1, KillLineErases, ZenonT(30) DEF Line, Entering
  <2>3. Abstract!EraseLine
    BY <2>2, ZenonT(30) DEF Abstract!EraseLine, Line, Entering, LineOf, EnteredOf
  <2> QED
    BY <2>2, <2>3, ZenonT(30) DEF Abstract!Next
<1>4. CASE k = "^H"
  <2>1. input' = Backspace(input)
    BY <1>2, <1>4
  <2>2. /\ Sound(input')
        /\ \/ input' = input
           \/ Line # <<>> /\ Line' = SubSeq(Line, 1, Len(Line) - 1) /\ Entering' = Entering
    BY <1>1, <2>1, BackspaceErases, ZenonT(30) DEF Line, Entering
  <2>3. input' = input \/ Abstract!Erase
    BY <2>2, ZenonT(30) DEF Abstract!Erase, Line, Entering, LineOf, EnteredOf
  <2>4. input' = input => UNCHANGED <<Line, Entering>>
    BY ZenonT(30) DEF Line, Entering
  <2> QED
    BY <2>2, <2>3, <2>4, ZenonT(30) DEF Abstract!Next
<1>5. CASE k \notin {"^U", "^H"} /\ stored
  <2>1. input' = Stored(input, ch)
    BY <1>2, <1>5
  <2>2. ch \in Chars /\ HasRoom(input)
    BY <1>1, <1>5, Kept, ZenonT(30)
  <2> HIDE DEF ch
  <2>3. Sound(input')
    BY <1>1, <2>1, <2>2, StoredSound, ZenonT(30)
  <2>4. /\ Len(Entering) + Len(Line) < INPUT_BUF
        /\ EntersLine(input, ch) <=>
             ch \in {"nl", "eot"} \/ Len(Entering) + Len(Line) + 1 = INPUT_BUF
        /\ EntersLine(input, ch) => Entering' = Entering \o Append(Line, ch) /\ Line' = <<>>
        /\ ~EntersLine(input, ch) => Line' = Append(Line, ch) /\ Entering' = Entering
    BY <1>1, <2>1, <2>2, StoredTypes, ZenonT(30) DEF Line, Entering
  <2>5. Abstract!Type(ch)
    BY <2>4, ZenonT(30) DEF Abstract!Type, Line, Entering, LineOf, EnteredOf
  <2> QED
    BY <2>2, <2>3, <2>5, ZenonT(30) DEF Abstract!Next
<1>6. CASE k \notin {"^U", "^H"} /\ ~stored
  <2>1. input' = input
    BY <1>2, <1>6
  <2> QED
    BY <1>1, <2>1, ZenonT(30) DEF Line, Entering
<1> QED
  BY <1>3, <1>4, <1>5, <1>6

\* A reader takes a character, or leaves what it finds.
LEMMA ReadReads ==
  ASSUME RingInv, NEW c, consoleread(c)
  PROVE  /\ Sound(input')
         /\ [Abstract!Next]_<<Line, Entering>>
<1>1. Sound(input)
  BY ZenonT(30) DEF RingInv
<1>2. \/ input' = input
      \/ input.r # input.w /\ input' = Taken(input)
  BY DEF consoleread, Taken
<1>3. CASE input' = input
  BY <1>1, <1>3, ZenonT(30) DEF Line, Entering
<1>4. CASE input.r # input.w /\ input' = Taken(input)
  <2>1. /\ Sound(input') /\ Entering # <<>> /\ Entering' = Tail(Entering)
        /\ Line' = Line
    BY <1>1, <1>4, ReadTakes, ZenonT(30) DEF Line, Entering
  <2>2. Abstract!Read
    BY <2>1, ZenonT(30) DEF Abstract!Read, Line, Entering, LineOf, EnteredOf
  <2> QED
    BY <2>1, <2>2, ZenonT(30) DEF Abstract!Next
<1> QED
  BY <1>2, <1>3, <1>4, ZenonT(30)

\* Nothing else touches the ring.
LEMMA RingStep ==
  ASSUME RingInv, [Next]_vars
  PROVE  RingInv' /\ [Abstract!Next]_<<Line, Entering>>
<1>1. CASE setting' = setting /\ input' = input
  BY <1>1, ZenonT(30) DEF RingInv, Line, Entering
<1>2. ASSUME NEW c, NEW k \in setting.keys, Key(c, k)
      PROVE  RingInv' /\ [Abstract!Next]_<<Line, Entering>>
  <2>1. setting' = setting
    BY <1>2, ZenonT(30) DEF Key
  <2> QED
    BY <1>2, <2>1, KeyTypes, ZenonT(30) DEF RingInv
<1>3. ASSUME NEW c, consoleread(c)
      PROVE  RingInv' /\ [Abstract!Next]_<<Line, Entering>>
  <2>1. setting' = setting
    BY <1>3, ZenonT(30) DEF consoleread
  <2> QED
    BY <1>3, <2>1, ReadReads, ZenonT(30) DEF RingInv
<1>4. ASSUME NEW c, Kernel(c), ~consoleread(c) PROVE setting' = setting /\ input' = input
  BY <1>4, ZenonT(30) DEF Kernel, acquire, sti, scheduler, forkret, sleep, woken, tick, tick_wakeup,
     trap_clock, yield, yielded, iret, exit, key_wakeup, key_end, procdump, sleep_start,
     sleep_loop, consolewrite, kill, syscall_return
<1>5. ASSUME NEW c, spin(c) \/ User(c) \/ timer(c) \/ kbdintr(c)
      PROVE  setting' = setting /\ input' = input
  BY <1>5, ZenonT(30) DEF spin, User, sys_read, sys_sleep, sys_write, sys_kill, trap_killed, timer,
     kbdintr, Interrupt
<1>6. UNCHANGED vars => setting' = setting /\ input' = input
  BY ZenonT(30) DEF vars
<1> QED
  BY <1>1, <1>2, <1>3, <1>4, <1>5, <1>6, ZenonT(30) DEF Next

\* An empty ring.
LEMMA RingInit ==
  ASSUME Init
  PROVE  RingInv /\ Abstract!Init
<1>1. /\ setting \in Settings
      /\ input = [buf |-> [i \in 0 .. INPUT_BUF - 1 |-> "nul"], r |-> 0, w |-> 0, e |-> 0]
  BY ZenonT(30) DEF Init
<1>2. Width \in Nat \ {0} /\ INPUT_BUF \in Nat \ {0}
  BY ConsoleAssumption
<1>3. 0 \in 0 .. Width - 1
  BY <1>2
<1>4. input \in Rings /\ input.r = 0 /\ input.w = 0 /\ input.e = 0
  BY <1>1, <1>3 DEF Rings
<1>5. Sub(0, 0) = 0
  BY <1>3, Distance, ZenonT(30)
<1>6. Entered(input) = 0 /\ Typed(input) = 0 /\ Sub(input.e, input.r) = 0
  BY <1>4, <1>5, ZenonT(30) DEF Entered, Typed
<1>7. Sound(input)
  <2>1. 0 = 0 + 0 /\ 0 <= INPUT_BUF /\ \A i \in 0 .. 0 - 1 : FALSE
    BY <1>2
  <2> QED
    BY <1>4, <1>6, <2>1 DEF Sound
<1>8. Line = <<>> /\ Entering = <<>>
  <2>1. /\ Line \in Seq(Chars \cup {"nul"}) /\ Len(Line) = 0
        /\ Entering \in Seq(Chars \cup {"nul"}) /\ Len(Entering) = 0
    BY <1>6, <1>7, ViewSeq, ZenonT(30) DEF Line, Entering
  <2> QED
    BY <2>1
<1> QED
  BY <1>1, <1>7, <1>8, ZenonT(30) DEF RingInv, Abstract!Init, Line, Entering, LineOf, EnteredOf

\* What has been typed is read in order, once, and only what has not been
\* entered can be erased (console.c 191-274), whatever the size of the ring,
\* wherever its indices wrap, and however many processes read.
THEOREM ConsoleIsTerminal == Spec => TerminalSpec
<1>1. Init => RingInv /\ Abstract!Init
  BY RingInit
<1>2. RingInv /\ [Next]_vars => RingInv' /\ [Abstract!Next]_<<Line, Entering>>
  BY RingStep
<1>3. Spec => Abstract!Init /\ [][Abstract!Next]_<<Line, Entering>>
  BY <1>1, <1>2, PTL DEF Spec
<1> QED
  BY <1>3 DEF TerminalSpec, Abstract!Spec, Line, Entering, LineOf, EnteredOf
=============================================================================
