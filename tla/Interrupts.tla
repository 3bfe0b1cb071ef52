---------------------------- MODULE Interrupts ----------------------------
(***************************************************************************)
(* Interrupts and spinlocks: processes that read and write the console,    *)
(* sleep for clock ticks and kill each other, the schedulers of the        *)
(* processors, and the clock and keyboard handlers that interrupt both     *)
(* (trap.c, console.c, spinlock.c, sysproc.c, proc.c).                     *)
(*                                                                         *)
(* A kernel thread is a process or the scheduler of a processor.  It has a *)
(* stack of frames: the code it runs and, above it, the handler that has   *)
(* interrupted that code.  A frame's pc names the next step; the steps     *)
(* between two lock operations are one.  The clock is kept as the ticks    *)
(* each process has seen since ticks0.                                     *)
(***************************************************************************)
EXTENDS Console, Spinlock, FiniteSets

CONSTANTS
  NPROC, NCPU,
  Settings,     \* what happens in a behaviour; see Init
  None

Procs == 1 .. NPROC
CPUs == 0 .. NCPU - 1
Locks == {"cons", "tickslock", "ptable"}

\* What a terminal keeps, and the codes consoleintr treats otherwise.
Chars == {"a", "nl", "eot"}
Controls == {"cr", "nul", "^P", "^U", "^H"}

ASSUME InterruptsAssumption ==
  /\ NPROC \in Nat \ {0} /\ NCPU \in Nat \ {0}
  /\ None \notin Int
  /\ \A s \in Settings :
       /\ s.cpus \subseteq CPUs /\ s.procs \subseteq Procs
       /\ s.reads \cup s.sleeps \subseteq Nat /\ s.keys \subseteq Chars \cup Controls

VARIABLES
  setting,
  cpu,        \* struct cpu: if, ncli, intena, proc, and p of scheduler()'s loop
  lock,       \* the processor that holds each lock
  at,         \* the stack of each thread, the running frame first
  state, chan, killed,
  intena,     \* the local of sched()
  n,          \* characters to read, or ticks to sleep
  done,       \* characters read, or ticks - ticks0 (up to n)
  input,      \* the console's ring
  keys        \* keys typed so far

vars == <<setting, cpu, lock, at, state, chan, killed, intena, n, done, input, keys>>

Sched(c) == -1 - c
Threads == Procs \cup {Sched(c) : c \in CPUs}
Thread(c) == IF cpu[c].proc = None THEN Sched(c) ELSE cpu[c].proc

Frame(pc) == [pc |-> pc, lk |-> "none", then |-> "none", on |-> "none", dump |-> FALSE]

\* acquire(lk), then go on at "then".
Acquiring(f, lk, then) == [f EXCEPT !.pc = "acquire", !.lk = lk, !.then = then]
To(f, pc) == [f EXCEPT !.pc = pc, !.lk = "none", !.then = "none"]

\* A setting says which processors and processes there are, which system calls
\* they make, on which processors the clock ticks, which keys are typed and how many (a bound).
Init ==
  /\ setting \in Settings
  /\ cpu = [c \in CPUs |-> [if |-> FALSE, ncli |-> 0, intena |-> FALSE, proc |-> None, p |-> 1]]
  /\ lock = [lk \in Locks |-> None]
  /\ at = [t \in Threads |->
             <<Frame(IF t \in Procs THEN "forkret" ELSE "sti")>>]
  /\ state = [p \in Procs |-> IF p \in setting.procs THEN "RUNNABLE" ELSE "UNUSED"]
  /\ chan = [p \in Procs |-> None] /\ killed = [p \in Procs |-> FALSE]
  /\ intena = [p \in Procs |-> TRUE]
  /\ n = [p \in Procs |-> 0] /\ done = [p \in Procs |-> 0]
  /\ input = [buf |-> [i \in 0 .. INPUT_BUF - 1 |-> "nul"], r |-> 0, w |-> 0, e |-> 0]
  /\ keys = 0

Top(c) == at[Thread(c)][1]
At(c, pc) == c \in setting.cpus /\ Top(c).pc = pc
SetTop(c, f) == at' = [at EXCEPT ![Thread(c)][1] = f]

\* release(lk)
release(c, lk) ==
  /\ lock' = [lock EXCEPT ![lk] = None]
  /\ cpu' = [cpu EXCEPT ![c] = popcli(@)]

-----------------------------------------------------------------------------
(* acquire.  "Loops (spins) until the lock is acquired", with interrupts    *)
(* off.                                                                     *)

Procvars == <<state, chan, killed, intena, n, done>>

acquire(c) ==
  LET lk == Top(c).lk
  IN  /\ At(c, "acquire")
      /\ cpu' = [cpu EXCEPT ![c] = pushcli(@)]
      /\ IF lock[lk] = None
           THEN lock' = [lock EXCEPT ![lk] = c] /\ SetTop(c, To(Top(c), Top(c).then))
           ELSE SetTop(c, [Top(c) EXCEPT !.pc = "spin"]) /\ UNCHANGED lock
      /\ UNCHANGED <<setting, Procvars, input, keys>>

spin(c) ==
  /\ At(c, "spin") /\ lock[Top(c).lk] = None
  /\ lock' = [lock EXCEPT ![Top(c).lk] = c]
  /\ SetTop(c, To(Top(c), Top(c).then))
  /\ UNCHANGED <<setting, cpu, Procvars, input, keys>>

-----------------------------------------------------------------------------
(* Scheduling.                                                              *)

sti(c) ==
  /\ At(c, "sti")
  /\ cpu' = [cpu EXCEPT ![c].if = TRUE, ![c].p = 1]
  /\ SetTop(c, Acquiring(Top(c), "ptable", "pick"))
  /\ UNCHANGED <<setting, lock, Procvars, input, keys>>

Runnable(c) == {p \in Procs : p >= cpu[c].p /\ state[p] = "RUNNABLE"}

\* Mutant: intena stays with the processor.
Restored_not(cp, p) == cp.intena

Restored(cp, p) == intena[p]

\* The next runnable process in the table; when there is none, the lock is let
\* go and the loop starts again.
scheduler(c) ==
  /\ At(c, "pick")
  /\ IF Runnable(c) = {}
       THEN /\ release(c, "ptable")
            /\ SetTop(c, To(Top(c), "sti"))
            /\ UNCHANGED state
       ELSE \E p \in Runnable(c) :
              /\ \A q \in Runnable(c) : p <= q
              /\ state' = [state EXCEPT ![p] = "RUNNING"]
              /\ cpu' = [cpu EXCEPT ![c].proc = p, ![c].p = p + 1,
                                    ![c].intena = Restored(cpu[c], p)]
              /\ UNCHANGED <<lock, at>>
  /\ UNCHANGED <<setting, chan, killed, intena, n, done, input, keys>>

\* sched(): back to the scheduler of this processor, with ptable.lock.
Switch(c, cp) ==
  /\ intena' = [intena EXCEPT ![cpu[c].proc] = cp.intena]
  /\ cpu' = [cpu EXCEPT ![c] = [cp EXCEPT !.proc = None]]

forkret(c) ==
  /\ At(c, "forkret")
  /\ lock' = [lock EXCEPT !["ptable"] = None]
  /\ cpu' = [cpu EXCEPT ![c] = [popcli(@) EXCEPT !.if = TRUE]]
  /\ SetTop(c, Frame("user"))
  /\ UNCHANGED <<setting, Procvars, input, keys>>

\* sleep(chan, lk), once it has ptable.lock; lk stands for its channel.
sleep(c) ==
  LET p == cpu[c].proc
      lk == Top(c).on
  IN  /\ At(c, "sleep")
      /\ lock' = [lock EXCEPT ![lk] = None]
      /\ chan' = [chan EXCEPT ![p] = lk]
      /\ state' = [state EXCEPT ![p] = "SLEEPING"]
      /\ Switch(c, popcli(cpu[c]))
      /\ SetTop(c, To(Top(c), "woken"))
      /\ UNCHANGED <<setting, killed, n, done, input, keys>>

\* The rest of it.
woken(c) ==
  /\ At(c, "woken")
  /\ chan' = [chan EXCEPT ![cpu[c].proc] = None]
  /\ release(c, "ptable")
  /\ SetTop(c, Acquiring(Top(c), Top(c).on, "loop"))
  /\ UNCHANGED <<setting, state, killed, intena, n, done, input, keys>>

\* Mutant: one sleeper is woken.
wakeup1_one(ch) ==
  LET asleep == {p \in Procs : state[p] = "SLEEPING" /\ chan[p] = ch}
  IN  [p \in Procs |-> IF p \in asleep /\ \A q \in asleep : p <= q THEN "RUNNABLE" ELSE state[p]]

wakeup1(ch) ==
  [p \in Procs |-> IF state[p] = "SLEEPING" /\ chan[p] = ch THEN "RUNNABLE" ELSE state[p]]

-----------------------------------------------------------------------------
(* trap(): the clock, on every processor, and the keyboard, on the first    *)
(* (ioapicenable).  The gate turns interrupts off, iret turns them on.      *)

Interrupt(c, f) ==
  /\ c \in setting.cpus /\ cpu[c].if
  /\ cpu' = [cpu EXCEPT ![c] = Off(@)]
  /\ at' = [at EXCEPT ![Thread(c)] = <<f>> \o @]
  /\ UNCHANGED <<setting, lock, Procvars, input, keys>>

timer(c) ==
  /\ c \in setting.clocks
  /\ Interrupt(c, IF c = 0 THEN Acquiring(Frame("acquire"), "tickslock", "tick") ELSE Frame("clock"))

Asked(p) == at[p][Len(at[p])].on

tick(c) ==
  /\ At(c, "tick")
  /\ done' = [p \in Procs |->
       IF Asked(p) = "tickslock" /\ done[p] < n[p] THEN done[p] + 1 ELSE done[p]]
  /\ SetTop(c, Acquiring(Top(c), "ptable", "tick_wakeup"))
  /\ UNCHANGED <<setting, cpu, lock, state, chan, killed, intena, n, input, keys>>

\* wakeup(&ticks); release(&tickslock)
tick_wakeup(c) ==
  /\ At(c, "tick_wakeup")
  /\ state' = wakeup1("tickslock")
  /\ lock' = [lock EXCEPT !["ptable"] = None, !["tickslock"] = None]
  /\ cpu' = [cpu EXCEPT ![c] = popcli(popcli(@))]
  /\ SetTop(c, To(Top(c), "clock"))
  /\ UNCHANGED <<setting, chan, killed, intena, n, done, input, keys>>

\* The process has been killed and the interrupt came from user space.
MustExit(c) ==
  cpu[c].proc # None /\ killed[cpu[c].proc] /\ at[Thread(c)][2].pc = "user"

\* The end of trap(): exit, and on a clock tick a yield.
trap_clock(c) ==
  /\ At(c, "clock")
  /\ SetTop(c, IF MustExit(c) THEN Acquiring(Top(c), "ptable", "exit")
               ELSE IF cpu[c].proc # None /\ state[cpu[c].proc] = "RUNNING"
               THEN Acquiring(Top(c), "ptable", "yield")
               ELSE To(Top(c), "iret"))
  /\ UNCHANGED <<setting, cpu, lock, Procvars, input, keys>>

yield(c) ==
  /\ At(c, "yield")
  /\ state' = [state EXCEPT ![cpu[c].proc] = "RUNNABLE"]
  /\ Switch(c, cpu[c])
  /\ SetTop(c, To(Top(c), "yielded"))
  /\ UNCHANGED <<setting, lock, chan, killed, n, done, input, keys>>

yielded(c) ==
  /\ At(c, "yielded")
  /\ release(c, "ptable")
  /\ SetTop(c, To(Top(c), "iret"))
  /\ UNCHANGED <<setting, Procvars, input, keys>>

iret(c) ==
  /\ At(c, "iret")
  /\ IF MustExit(c)
       THEN SetTop(c, Acquiring(Top(c), "ptable", "exit")) /\ UNCHANGED cpu
       ELSE /\ at' = [at EXCEPT ![Thread(c)] = Tail(@)]
            /\ cpu' = [cpu EXCEPT ![c].if = TRUE]
  /\ UNCHANGED <<setting, lock, Procvars, input, keys>>

exit(c) ==
  /\ At(c, "exit")
  /\ state' = [state EXCEPT ![cpu[c].proc] = "ZOMBIE"]
  /\ Switch(c, cpu[c])
  /\ at' = [at EXCEPT ![Thread(c)] = <<Frame("gone")>>]
  /\ UNCHANGED <<setting, lock, chan, killed, n, done, input, keys>>

-----------------------------------------------------------------------------
(* consoleintr.                                                             *)

kbdintr(c) ==
  /\ c = 0 /\ keys < setting.max
  /\ Interrupt(c, Acquiring(Frame("acquire"), "cons", "key"))

\* One turn of the loop.
Key(c, k) ==
  LET ch == IF k = "cr" THEN "nl" ELSE k
      stored == ch \notin {"nul", "^P", "^U", "^H"} /\ HasRoom(input)
  IN  /\ At(c, "key") /\ keys < setting.max
      /\ keys' = keys + 1
      /\ input' = CASE k = "^U" -> KillLine(input)
                    [] k = "^H" -> Backspace(input)
                    [] stored -> Stored(input, ch)
                    [] OTHER -> input
      /\ SetTop(c, IF k = "^P" THEN [Top(c) EXCEPT !.dump = TRUE]
                   ELSE IF stored /\ EntersLine(input, ch) THEN Acquiring(Top(c), "ptable", "key_wakeup")
                   ELSE Top(c))
      /\ UNCHANGED <<setting, cpu, lock, Procvars>>

\* Mutant: nobody is told.
KeyWakes_not == state

KeyWakes == wakeup1("cons")

key_wakeup(c) ==
  /\ At(c, "key_wakeup")
  /\ state' = KeyWakes
  /\ release(c, "ptable")
  /\ SetTop(c, To(Top(c), "key"))
  /\ UNCHANGED <<setting, chan, killed, intena, n, done, input, keys>>

\* getc() has no more.  procdump() takes the lock again, in cprintf.
key_end(c) ==
  /\ At(c, "key")
  /\ release(c, "cons")
  /\ SetTop(c, IF Top(c).dump THEN Acquiring([Top(c) EXCEPT !.dump = FALSE], "cons", "listed")
               ELSE To(Top(c), "iret"))
  /\ UNCHANGED <<setting, Procvars, input, keys>>

procdump(c) ==
  /\ At(c, "listed")
  /\ release(c, "cons")
  /\ SetTop(c, To(Top(c), "iret"))
  /\ UNCHANGED <<setting, Procvars, input, keys>>

-----------------------------------------------------------------------------
(* System calls, on the process' own frame.                                 *)

Call(c, f) ==
  /\ At(c, "user") /\ ~killed[cpu[c].proc]
  /\ SetTop(c, f)

sys_read(c) ==
  /\ \E m \in setting.reads :
       /\ Call(c, Acquiring([Top(c) EXCEPT !.on = "cons"], "cons", "loop"))
       /\ n' = [n EXCEPT ![cpu[c].proc] = m]
       /\ done' = [done EXCEPT ![cpu[c].proc] = 0]
  /\ UNCHANGED <<setting, cpu, lock, state, chan, killed, intena, input, keys>>

sys_sleep(c) ==
  /\ \E m \in setting.sleeps :
       /\ Call(c, Acquiring([Top(c) EXCEPT !.on = "tickslock"], "tickslock", "start"))
       /\ n' = [n EXCEPT ![cpu[c].proc] = m]
  /\ UNCHANGED <<setting, cpu, lock, state, chan, killed, intena, done, input, keys>>

sys_write(c) ==
  /\ "write" \in setting.calls
  /\ Call(c, Acquiring(Top(c), "cons", "put"))
  /\ UNCHANGED <<setting, cpu, lock, Procvars, input, keys>>

sys_kill(c) ==
  /\ "kill" \in setting.calls
  /\ Call(c, Acquiring(Top(c), "ptable", "kill"))
  /\ UNCHANGED <<setting, cpu, lock, Procvars, input, keys>>

\* The loop of consoleread is left: "done" characters are returned.
Returns(c, lk) ==
  /\ release(c, lk)
  /\ SetTop(c, To(Top(c), "return"))

Sleeps(c) ==
  /\ SetTop(c, Acquiring(Top(c), "ptable", "sleep"))
  /\ UNCHANGED <<cpu, lock>>

consoleread(c) ==
  LET p == cpu[c].proc
      ch == NextChar(input)
  IN  /\ At(c, "loop") /\ Top(c).on = "cons"
      \* ^D after other characters is left for the next read
      /\ IF done[p] = n[p] THEN Returns(c, "cons") /\ UNCHANGED <<done, input>>
         ELSE IF input.r = input.w
         THEN /\ IF killed[p] THEN Returns(c, "cons") ELSE Sleeps(c)
              /\ UNCHANGED <<done, input>>
         ELSE /\ input' = IF ch = "eot" /\ done[p] > 0 THEN input ELSE [input EXCEPT !.r = Add(@, 1)]
              /\ done' = [done EXCEPT ![p] = IF ch = "eot" THEN @ ELSE @ + 1]
              /\ IF ch \in {"nl", "eot"} THEN Returns(c, "cons") ELSE UNCHANGED <<cpu, lock, at>>
      /\ UNCHANGED <<setting, state, chan, killed, intena, n, keys>>

\* acquire(&tickslock); ticks0 = ticks
sleep_start(c) ==
  /\ At(c, "start")
  /\ done' = [done EXCEPT ![cpu[c].proc] = 0]
  /\ SetTop(c, To(Top(c), "loop"))
  /\ UNCHANGED <<setting, cpu, lock, state, chan, killed, intena, n, input, keys>>

sleep_loop(c) ==
  LET p == cpu[c].proc
  IN  /\ At(c, "loop") /\ Top(c).on = "tickslock"
      /\ IF done[p] = n[p] \/ killed[p] THEN Returns(c, "tickslock") ELSE Sleeps(c)
      /\ UNCHANGED <<setting, Procvars, input, keys>>

\* consolewrite, and cprintf.
consolewrite(c) ==
  /\ At(c, "put")
  /\ Returns(c, "cons")
  /\ UNCHANGED <<setting, Procvars, input, keys>>

kill(c) ==
  /\ At(c, "kill")
  /\ \E q \in setting.procs :
       /\ killed' = [killed EXCEPT ![q] = TRUE]
       /\ state' = IF state[q] = "SLEEPING" THEN [state EXCEPT ![q] = "RUNNABLE"] ELSE state
  /\ Returns(c, "ptable")
  /\ UNCHANGED <<setting, chan, intena, n, done, input, keys>>

\* Back in trap(): a killed process exits.  trapret restores the user's flags.
syscall_return(c) ==
  /\ At(c, "return")
  /\ IF killed[cpu[c].proc]
       THEN SetTop(c, Acquiring([Top(c) EXCEPT !.on = "none"], "ptable", "exit")) /\ UNCHANGED cpu
       ELSE SetTop(c, Frame("user")) /\ cpu' = [cpu EXCEPT ![c].if = TRUE]
  /\ n' = [n EXCEPT ![cpu[c].proc] = 0] /\ done' = [done EXCEPT ![cpu[c].proc] = 0]
  /\ UNCHANGED <<setting, lock, state, chan, killed, intena, input, keys>>

\* A killed process makes no system call.
trap_killed(c) ==
  /\ At(c, "user") /\ killed[cpu[c].proc]
  /\ SetTop(c, Acquiring(Top(c), "ptable", "exit"))
  /\ UNCHANGED <<setting, cpu, lock, Procvars, input, keys>>

-----------------------------------------------------------------------------
\* The kernel goes on.
Kernel(c) ==
  \/ acquire(c) \/ sti(c) \/ scheduler(c) \/ forkret(c) \/ sleep(c) \/ woken(c)
  \/ tick(c) \/ tick_wakeup(c) \/ trap_clock(c) \/ yield(c) \/ yielded(c) \/ iret(c) \/ exit(c)
  \/ key_wakeup(c) \/ key_end(c) \/ procdump(c)
  \/ consoleread(c) \/ sleep_start(c) \/ sleep_loop(c) \/ consolewrite(c) \/ kill(c)
  \/ syscall_return(c)

User(c) == sys_read(c) \/ sys_sleep(c) \/ sys_write(c) \/ sys_kill(c) \/ trap_killed(c)

Next ==
  \E c \in CPUs :
    \/ Kernel(c) \/ spin(c) \/ User(c) \/ timer(c) \/ kbdintr(c)
    \/ \E k \in setting.keys : Key(c, k)

Spec == Init /\ [][Next]_vars

-----------------------------------------------------------------------------
\* The locks a frame has while it acquires another.
HeldBefore(f) ==
  CASE f.then = "sleep" -> {f.on}
    [] f.then = "tick_wakeup" -> {"tickslock"}
    [] f.then = "key_wakeup" -> {"cons"}
    [] OTHER -> {}

\* The locks the code of a frame runs under.
HeldBy(f) ==
  CASE f.pc \in {"acquire", "spin"} -> HeldBefore(f)
    [] f.pc \in {"loop", "start"} -> {f.on}
    [] f.pc = "sleep" -> {f.on, "ptable"}
    [] f.pc \in {"pick", "forkret", "woken", "yield", "yielded", "exit", "kill"} -> {"ptable"}
    [] f.pc = "tick" -> {"tickslock"}
    [] f.pc = "tick_wakeup" -> {"tickslock", "ptable"}
    [] f.pc \in {"key", "listed", "put"} -> {"cons"}
    [] f.pc = "key_wakeup" -> {"cons", "ptable"}
    [] OTHER -> {}

\* "disable interrupts to avoid deadlock" (spinlock.c 27): a processor that holds
\* a spinlock or waits for one takes no interrupt, a handler is not interrupted,
\* and it never wants a lock its own processor holds, so none of the panics of
\* acquire, release, popcli and sched is met; and a process with no lock runs
\* with interrupts on, wherever it slept, was preempted and resumed, as intena
\* "is a property of this kernel thread, not this CPU" (proc.c 528).
LocksAndInterrupts ==
  \A c \in setting.cpus :
    LET frames == at[Thread(c)]
        held == {lk \in Locks : holding(lock, lk, c)}
    IN  /\ held = HeldBy(frames[1])
        /\ cpu[c].ncli = Cardinality(held) + IF frames[1].pc = "spin" THEN 1 ELSE 0
        /\ cpu[c].ncli > 0 => ~cpu[c].if
        /\ frames[1].pc = "acquire" => frames[1].lk \notin held
        /\ Len(frames) = 2 => ~cpu[c].if /\ HeldBy(frames[2]) = {}
        /\ Len(frames) < 3
        /\ cpu[c].proc # None /\ Len(frames) = 1 /\ cpu[c].ncli = 0 => cpu[c].if

\* A handler has this wakeup still to make.
WakeupDue(then) ==
  \E c \in setting.cpus : Top(c).pc = then \/ Top(c).then = then

\* Nobody sleeps for input that is there, also when a full ring was entered
\* without a newline, or for ticks that have passed, unless the wakeup is on
\* its way (console.c 223, trap.c 54).
NoOversleep ==
  \A p \in setting.procs : state[p] = "SLEEPING" =>
    IF chan[p] = "cons" THEN input.r # input.w => WakeupDue("key_wakeup")
    ELSE done[p] = n[p] => WakeupDue("tick_wakeup")
=============================================================================
