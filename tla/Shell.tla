------------------------------- MODULE Shell -------------------------------
(***************************************************************************)
(* The shell of sh.c at work: the loop of main, runcmd in the processes it *)
(* forks, and cat and echo as the programs they execute.  A script of      *)
(* lines comes from the console; a read of it by a program meets the end   *)
(* of file.  One step is a system call, or the run of them in which a      *)
(* process only rearranges its own descriptors.                            *)
(*                                                                         *)
(* A descriptor is the console, a file being written, or an end of an      *)
(* object with bytes in it: a pipe, or an open file being read, which is a *)
(* pipe nobody writes (its offset is shared, as a pipe is).  Only the      *)
(* number of bytes matters.  init (init.c) waits for orphans at once.      *)
(***************************************************************************)
EXTENDS ShellCommands, Integers, Sequences

CONSTANTS
  Pids, Shell,
  NOFILE, NObj, PIPESIZE,
  Files, FileSize,      \* files that exist, and their length
  Scripts,              \* the lines a user types
  Parsed, Meant,        \* what parsecmd makes of a line, what the line should write
  Commands,             \* the commands parsecmd makes, and the commands in them
  MaxFails,             \* bound on forks and pipes that find no memory
  None

ASSUME ShellAssumption ==
  /\ Pids \subseteq Nat \ {0} /\ Shell \in Pids /\ None \notin Pids \cup {0}
  /\ NOFILE \in Nat /\ NOFILE > 4 /\ PIPESIZE \in Nat \ {0}
  /\ Files \subseteq Words /\ Scripts \subseteq Seq(DOMAIN Parsed)
  /\ \A l \in DOMAIN Parsed : Parsed[l] \in Commands \cup {Syntax}

\* A command is made of commands, and parseredirs redirects descriptor 0 or 1.
ASSUME CommandsAssumption ==
  \A c \in Commands :
    /\ c.type = "EXEC" => c.argv \in Seq([w : Words, nul : BOOLEAN])
    /\ c.type \in {"REDIR", "BACK"} => c.cmd \in Commands
    /\ c.type \in {"PIPE", "LIST"} => c.left \in Commands /\ c.right \in Commands
    /\ c.type = "REDIR" => c.fd \in {0, 1}

VARIABLES
  proc,       \* where each process is, its command, descriptors and parent
  obj,        \* bytes in each pipe and left in each file being read
  script,     \* lines not read yet
  out,        \* bytes written to the console by programs
  want,       \* what the lines read so far should have written
  fails

vars == <<proc, obj, script, out, want, fails>>

Fds == 0 .. NOFILE - 1
Objs == 1 .. NObj
Console == <<0, "console">>
Sink == <<0, "file">>
End(i, e) == <<i, e>>
Closed == <<0, "closed">>
AllClosed == [d \in Fds |-> Closed]

NoCmd == [type |-> "none"]

\* "ends" is the p[2] of runcmd; "args" and "src" are the arguments left to a
\* program and the descriptor cat reads; "bg" is set below a backcmd.
Free == [pc |-> "unused", cmd |-> NoCmd, ends |-> <<>>, args |-> <<>>, src |-> 0,
         fd |-> AllClosed, parent |-> None, bg |-> FALSE]

\* main has opened the console three times.
Init ==
  /\ proc = [p \in Pids |->
       IF p = Shell
       THEN [Free EXCEPT !.pc = "prompt", !.parent = 0,
                         !.fd = [d \in Fds |-> IF d < 3 THEN Console ELSE Closed]]
       ELSE Free]
  /\ obj = [i \in Objs |-> 0]
  /\ script \in Scripts
  /\ out = 0 /\ want = 0 /\ fails = 0

\* The descriptors somebody has open.
Held(pr) == UNION {{fd[d] : d \in Fds} : fd \in {pr[p].fd : p \in Pids}}

\* The last close of an object frees it.
Swept(pr) ==
  LET held == Held(pr)
  IN  [i \in Objs |-> IF {End(i, "r"), End(i, "w")} \cap held = {} THEN 0 ELSE obj[i]]

Unheld == LET held == Held(proc) IN {i \in Objs : {End(i, "r"), End(i, "w")} \cap held = {}}
NewObj == CHOOSE i \in Unheld : TRUE

fdalloc(fd) == CHOOSE d \in Fds : fd[d] = Closed /\ \A k \in Fds : fd[k] = Closed => d <= k
close(fd, d) == [fd EXCEPT ![d] = Closed]
dup(fd, d) == [fd EXCEPT ![fdalloc(fd)] = fd[d]]
Opened(fd, v) == [fd EXCEPT ![fdalloc(fd)] = v]

Goto(p, l) == [proc EXCEPT ![p].pc = l]

Children(p) == {q \in Pids : proc[q].parent = p}
Zombies(p) == {q \in Children(p) : proc[q].pc = "zombie"}

\* The descriptors are closed; init inherits the children, and frees orphans.
AfterExit(p) ==
  [q \in Pids |->
     IF q = p
     THEN IF proc[p].parent = None THEN Free
          ELSE [Free EXCEPT !.pc = "zombie", !.parent = proc[p].parent, !.bg = proc[p].bg]
     ELSE IF q \in Zombies(p) THEN Free
     ELSE IF q \in Children(p) THEN [proc[q] EXCEPT !.parent = None]
     ELSE proc[q]]

exit(p) ==
  /\ proc' = AfterExit(p)
  /\ obj' = Swept(proc')
  /\ UNCHANGED <<script, out, want, fails>>

\* The caller has a child: it would be stuck here otherwise, and LineEnds fail.
wait(p, next) ==
  /\ \E q \in Zombies(p) :
       /\ \A r \in Zombies(p) : q <= r
       /\ proc' = [next EXCEPT ![q] = Free]
  /\ UNCHANGED <<obj, script, out, want, fails>>

\* Without memory fork1 panics, and panic exits.
fork1(p, next, first, cmd, bg) ==
  \/ /\ \E q \in Pids :
          /\ proc[q].pc = "unused" /\ \A r \in Pids : proc[r].pc = "unused" => q <= r
          /\ proc' = [Goto(p, next) EXCEPT
               ![q] = [proc[p] EXCEPT !.pc = first, !.cmd = cmd, !.parent = p, !.bg = bg]]
     /\ UNCHANGED <<obj, fails>>
  \/ /\ fails < MaxFails /\ fails' = fails + 1
     /\ proc' = AfterExit(p) /\ obj' = Swept(proc')

-----------------------------------------------------------------------------
(* main.                                                                    *)

\* What getcmd has put in buf.
Typed(line) == [type |-> "buf", buf |-> line]

\* getcmd, cd in the shell itself, and a child for any other line.  At the end
\* of file the shell exits.
main ==
  /\ proc[Shell].pc = "prompt"
  /\ IF script = <<>> THEN exit(Shell)
     ELSE /\ script' = Tail(script)
          /\ want' = want + Meant[Head(script)]
          /\ IF Head(script) # <<>> /\ Head(Head(script)) = "cd"
               THEN UNCHANGED <<proc, obj, fails>>
               ELSE fork1(Shell, "wait", "parse", Typed(Head(script)), FALSE)
          /\ UNCHANGED out

main_wait == proc[Shell].pc = "wait" /\ wait(Shell, Goto(Shell, "prompt"))

\* runcmd(parsecmd(buf))
parse(p) ==
  LET c == Parsed[proc[p].cmd.buf]
  IN  /\ proc[p].pc = "parse"
      /\ IF c = Syntax THEN exit(p)
         ELSE /\ proc' = [proc EXCEPT ![p].pc = "run", ![p].cmd = c]
              /\ UNCHANGED <<obj, script, out, want, fails>>

-----------------------------------------------------------------------------
(* runcmd, by the type of the command.                                      *)

Runs(p, type) == proc[p].pc = "run" /\ proc[p].cmd.type = type

Program(p) == proc[p].cmd.argv[1].w

\* An empty command, and one that exec does not find, exit.
run_exec(p) ==
  /\ Runs(p, "EXEC")
  /\ IF proc[p].cmd.argv # <<>> /\ Program(p) \in {"cat", "echo"}
       THEN /\ proc' = [proc EXCEPT
                 ![p].pc = IF Program(p) = "echo" THEN "echo"
                           ELSE IF Len(proc[p].cmd.argv) = 1 THEN "read" ELSE "open",
                 ![p].args = Tail(proc[p].cmd.argv), ![p].cmd = NoCmd]
            /\ UNCHANGED <<obj, script, out, want, fails>>
       ELSE exit(p)

\* Mutant: the old descriptor stays open.
Redirected_kept(fd, d, v) == Opened(fd, v)

\* close(fd); open() takes the lowest free descriptor.
Redirected(fd, d, v) == Opened(close(fd, d), v)

run_redir(p) ==
  LET c == proc[p].cmd
      v == IF c.fd = 1 THEN Sink ELSE End(NewObj, "r")
      pr == [proc EXCEPT ![p].cmd = c.cmd, ![p].fd = Redirected(@, c.fd, v)]
  IN  /\ Runs(p, "REDIR")
      /\ IF c.fd = 1 \/ (c.file.w \in Files /\ Unheld # {})
           THEN /\ proc' = pr
                /\ obj' = IF c.fd = 1 THEN Swept(proc') ELSE [Swept(proc') EXCEPT ![NewObj] = FileSize]
                /\ UNCHANGED <<script, out, want, fails>>
           ELSE exit(p)

run_list(p) ==
  /\ Runs(p, "LIST")
  /\ fork1(p, "list", "run", proc[p].cmd.left, proc[p].bg)
  /\ UNCHANGED <<script, out, want>>

list_right(p) ==
  /\ proc[p].pc = "list"
  /\ wait(p, [proc EXCEPT ![p].pc = "run", ![p].cmd = @.right])

run_pipe(p) ==
  LET r == fdalloc(proc[p].fd)
      fd == Opened(proc[p].fd, End(NewObj, "r"))
  IN  /\ Runs(p, "PIPE")
      /\ \/ /\ Unheld # {}
            /\ proc' = [proc EXCEPT ![p].pc = "left", ![p].ends = <<r, fdalloc(fd)>>,
                                    ![p].fd = Opened(fd, End(NewObj, "w"))]
            /\ UNCHANGED <<obj, fails>>
         \/ /\ Unheld # {} => fails < MaxFails
            /\ fails' = fails + 1
            /\ proc' = AfterExit(p) /\ obj' = Swept(proc')
      /\ UNCHANGED <<script, out, want>>

pipe_left(p) ==
  /\ proc[p].pc = "left"
  /\ fork1(p, "right", "wire_left", proc[p].cmd.left, proc[p].bg)
  /\ UNCHANGED <<script, out, want>>

pipe_right(p) ==
  /\ proc[p].pc = "right"
  /\ fork1(p, "close", "wire_right", proc[p].cmd.right, proc[p].bg)
  /\ UNCHANGED <<script, out, want>>

BothClosed(fd, ends) == close(close(fd, ends[1]), ends[2])

\* close(std); dup(p[i]); close(p[0]); close(p[1]) in a child.
Wired(fd, std, i, ends) == BothClosed(dup(close(fd, std), ends[i]), ends)

wire(p) ==
  LET l == proc[p].pc = "wire_left"
      pr == [proc EXCEPT ![p].pc = "run", ![p].ends = <<>>,
               ![p].fd = IF l THEN Wired(@, 1, 2, proc[p].ends) ELSE Wired(@, 0, 1, proc[p].ends)]
  IN  /\ proc[p].pc \in {"wire_left", "wire_right"}
      /\ proc' = pr
      /\ obj' = Swept(proc')
      /\ UNCHANGED <<script, out, want, fails>>

\* Mutant: the parent keeps the write end.
ParentClosed_read(fd, ends) == close(fd, ends[1])

ParentClosed(fd, ends) == BothClosed(fd, ends)

pipe_close(p) ==
  LET pr == [proc EXCEPT ![p].pc = "wait1", ![p].fd = ParentClosed(@, proc[p].ends)]
  IN  /\ proc[p].pc = "close"
      /\ proc' = pr
      /\ obj' = Swept(proc')
      /\ UNCHANGED <<script, out, want, fails>>

\* Mutant: one child is waited for.
AfterWait_once == "exit"

AfterWait == "wait2"

pipe_wait(p) ==
  \/ proc[p].pc = "wait1" /\ wait(p, Goto(p, AfterWait))
  \/ proc[p].pc = "wait2" /\ wait(p, Goto(p, "exit"))

run_back(p) ==
  /\ Runs(p, "BACK")
  /\ fork1(p, "exit", "run", proc[p].cmd.cmd, TRUE)
  /\ UNCHANGED <<script, out, want>>

run_exit(p) == proc[p].pc = "exit" /\ exit(p)

-----------------------------------------------------------------------------
(* The programs.                                                            *)

\* write(1, ...) of one byte: a full pipe blocks, and fails once nobody can
\* read it.  next and failed are what the process does after it.
write(p, next, failed) ==
  LET v == proc[p].fd[1]
  IN  /\ \/ /\ v = Console
            /\ out' = out + 1 /\ proc' = next /\ UNCHANGED obj
         \/ /\ v = Sink
            /\ proc' = next /\ UNCHANGED <<out, obj>>
         \/ /\ v \in Objs \X {"w"} /\ obj[v[1]] < PIPESIZE
            /\ obj' = [obj EXCEPT ![v[1]] = @ + 1] /\ proc' = next /\ UNCHANGED out
         \/ /\ v \in Objs \X {"w"} /\ obj[v[1]] = PIPESIZE /\ End(v[1], "r") \notin Held(proc)
            /\ proc' = failed /\ obj' = Swept(proc') /\ UNCHANGED out
      /\ UNCHANGED <<script, want, fails>>

\* One byte for each argument; printf does not look at what write returns.
echo(p) ==
  LET pr == [proc EXCEPT ![p].args = Tail(@)]
  IN  /\ proc[p].pc = "echo"
      /\ IF proc[p].args = <<>> THEN exit(p) ELSE write(p, pr, pr)

\* cat with arguments opens the next; if there is none of that name it says so
\* and exits.
cat_open(p) ==
  LET f == Head(proc[p].args).w
  IN  /\ proc[p].pc = "open"
      /\ IF proc[p].args = <<>> THEN exit(p)
         ELSE IF f \in Files /\ Unheld # {}
         THEN /\ proc' = [proc EXCEPT ![p].pc = "read", ![p].args = Tail(@),
                            ![p].src = fdalloc(proc[p].fd), ![p].fd = Opened(@, End(NewObj, "r"))]
              /\ obj' = [obj EXCEPT ![NewObj] = FileSize]
              /\ UNCHANGED <<script, out, want, fails>>
         ELSE write(p, Goto(p, "exit"), Goto(p, "exit"))

\* Mutant: an empty pipe is taken for its end.
AtEof_empty(v) == v = Console \/ obj[v[1]] = 0

AtEof(v) == v = Console \/ (obj[v[1]] = 0 /\ End(v[1], "w") \notin Held(proc))

\* read blocks on an empty pipe that can still be written.
cat_read(p) ==
  LET v == proc[p].fd[proc[p].src]
      pr == [proc EXCEPT ![p].pc = "open", ![p].src = 0, ![p].fd = close(@, proc[p].src)]
  IN  /\ proc[p].pc = "read"
      /\ IF AtEof(v)
           THEN IF proc[p].src = 0 THEN exit(p)
                ELSE /\ proc' = pr /\ obj' = Swept(proc')
                     /\ UNCHANGED <<script, out, want, fails>>
           ELSE /\ obj[v[1]] > 0
                /\ obj' = [obj EXCEPT ![v[1]] = @ - 1]
                /\ proc' = Goto(p, "write")
                /\ UNCHANGED <<script, out, want, fails>>

cat_write(p) ==
  /\ proc[p].pc = "write"
  /\ write(p, Goto(p, "read"), AfterExit(p))

-----------------------------------------------------------------------------
Step(p) ==
  \/ parse(p) \/ run_exec(p) \/ run_redir(p) \/ run_list(p) \/ list_right(p)
  \/ run_pipe(p) \/ pipe_left(p) \/ pipe_right(p) \/ wire(p) \/ pipe_close(p)
  \/ pipe_wait(p) \/ run_back(p) \/ run_exit(p)
  \/ echo(p) \/ cat_open(p) \/ cat_read(p) \/ cat_write(p)

Next == main \/ main_wait \/ \E p \in Pids : Step(p)

\* The scheduler runs every process that can run.
Fairness == WF_vars(main \/ main_wait) /\ \A p \in Pids : WF_vars(Step(p))

Spec == Init /\ [][Next]_vars
FairSpec == Spec /\ Fairness

-----------------------------------------------------------------------------
\* A program starts with descriptors 0 to 2 and no other: no end of a pipe leaks
\* into it from the shell, whatever the nesting of pipes, blocks and
\* redirections (sh.c 82-122); the only other one is the file cat has opened.
OnlyStdio ==
  \A p \in Pids : proc[p].pc \in {"echo", "open", "read", "write"} =>
    /\ \A d \in Fds : proc[p].fd[d] # Closed <=> d < 3 \/ d = proc[p].src
    /\ proc[p].fd[0] = Console \/ proc[p].fd[0][2] = "r"
    /\ proc[p].fd[1] \in {Console, Sink} \/ proc[p].fd[1][2] = "w"
    /\ proc[p].fd[2] = Console

Quiet == \A p \in Pids \ {Shell} : proc[p].pc = "unused"

\* When the processes of the lines read so far are gone, they have written what
\* the lines mean: every byte put into a pipeline has gone through all of it,
\* once, unless there was no memory for a process or a pipe.
OutputMeant == Quiet /\ fails = 0 => out = want

\* The prompt comes back when the command is done: only what was put in the
\* background is left running (sh.c 96, 120, 169).  Without memory for the
\* second process of a pipe, the first is not waited for.
PromptAfterCommand ==
  proc[Shell].pc = "prompt" /\ fails = 0 =>
    \A p \in Pids \ {Shell} : proc[p].pc # "unused" => proc[p].bg

\* Every line comes to an end, also when a fork or a pipe fails: each reader of
\* a pipe meets its end, each writer room or an error, each wait a child.
LineEnds == proc[Shell].pc = "wait" ~> proc[Shell].pc # "wait"
=============================================================================
