---------------------------- MODULE ShellProofs ----------------------------
(***************************************************************************)
(* For every script, every number of processes and every tree the parser   *)
(* may build: programs start with the standard descriptors and no other,   *)
(* and the prompt comes back when the command is done.                     *)
(***************************************************************************)
EXTENDS Shell, TLAPS

\* The provers get more than the default time: they share the machine.
USE SMTT(20)

-----------------------------------------------------------------------------
(* The descriptors of a process, by where it is.                            *)

PCs ==
  {"unused", "zombie", "prompt", "wait", "parse", "run", "list", "left", "right", "close",
   "wire_left", "wire_right", "wait1", "wait2", "exit", "echo", "open", "read", "write"}
Descriptors == {Closed, Console, Sink} \cup (Objs \X {"r", "w"})
Tables == [Fds -> Descriptors]
Buffers == [type : {"buf"}, buf : DOMAIN Parsed]

Procs ==
  [pc : PCs, cmd : Commands \cup Buffers \cup {NoCmd}, ends : {<<>>, <<3, 4>>},
   args : Seq([w : Words, nul : BOOLEAN]), src : {0, 3}, fd : Tables,
   parent : Pids \cup {0, None}, bg : BOOLEAN]

\* The open descriptors are those of D, the standard ones among them.
Has(fd, D) ==
  /\ \A d \in Fds : fd[d] # Closed <=> d \in D
  /\ fd[0] = Console \/ fd[0][2] = "r"
  /\ fd[1] \in {Console, Sink} \/ fd[1][2] = "w"
  /\ fd[2] = Console

\* A pipe is open between pipe() and the last close in runcmd, in the parent and
\* in both children; cat has its file open while it reads.
Plain == {"prompt", "wait", "parse", "run", "list", "wait1", "wait2", "echo", "open"}
Piping == {"left", "right", "close", "wire_left", "wire_right"}

Shaped(r) ==
  /\ r.pc \in Plain => r.src = 0 /\ Has(r.fd, 0 .. 2)
  /\ r.pc \in Piping =>
       /\ r.src = 0 /\ Has(r.fd, 0 .. 4)
       /\ r.ends = <<3, 4>> /\ r.fd[3][2] = "r" /\ r.fd[4][2] = "w"
  /\ r.pc \in {"read", "write"} =>
       (r.src = 0 /\ Has(r.fd, 0 .. 2)) \/ (r.src = 3 /\ Has(r.fd, 0 .. 3))
  /\ r.pc \in {"run", "list", "left", "right", "wire_left", "wire_right"} => r.cmd \in Commands
  /\ r.pc = "list" => r.cmd.type = "LIST"
  /\ r.pc \in {"left", "right"} => r.cmd.type = "PIPE"
  /\ r.pc = "parse" => r.cmd \in Buffers

-----------------------------------------------------------------------------
(* Parents and children.                                                    *)

Kids(pr, p) == {q \in Pids : pr[q].parent = p}

Alone == {"unused", "zombie", "prompt", "parse", "run", "left", "wire_left", "wire_right",
          "echo", "open", "read", "write"}

\* The children a process at l may have: a wait for each.
Few(pr, K, l) ==
  /\ l \in Alone => K = {}
  /\ l \in {"wait", "list", "right", "wait2"} => \A q, r \in K : q = r
  /\ l \in {"close", "wait1"} => \A q, r, s \in K : q = r \/ r = s \/ q = s
  /\ l = "exit" => \A q \in K : pr[q].bg

\* The shell is nobody's child, and never runs a command itself.
Top(pr) == pr[Shell].pc \in {"prompt", "wait", "zombie"} /\ pr[Shell].parent = 0 /\ ~pr[Shell].bg

\* What is not in the background belongs to somebody who is not either.
Attached(pr) ==
  \A p \in Pids \ {Shell} :
    pr[p].pc # "unused" /\ ~pr[p].bg => pr[p].parent \in Pids /\ ~pr[pr[p].parent].bg

\* The processes are a forest: among some of them, one is nobody's child.
Forest(pr) == \A S \in SUBSET Pids : S # {} => \E p \in S : pr[p].parent \notin S

Family(pr, n) ==
  /\ \A p \in Pids : Few(pr, Kids(pr, p), pr[p].pc)
  /\ Top(pr) /\ Forest(pr) /\ (n = 0 => Attached(pr))

ShellInv ==
  /\ proc \in [Pids -> Procs] /\ script \in Seq(DOMAIN Parsed) /\ fails \in Nat
  /\ \A p \in Pids : Shaped(proc[p])
  /\ Family(proc, fails)

-----------------------------------------------------------------------------
(* Descriptors.                                                             *)

\* What is in a table.
LEMMA DescriptorFacts ==
  /\ Closed \in Descriptors /\ Console \in Descriptors /\ Sink \in Descriptors
  /\ Closed # Console /\ Closed # Sink /\ Console # Sink
<1>1. Closed \in Descriptors /\ Console \in Descriptors /\ Sink \in Descriptors
  BY Zenon DEF Descriptors
<1>2. Closed # Console /\ Closed # Sink /\ Console # Sink
  BY DEF Closed, Console, Sink
<1> QED
  BY <1>1, <1>2, Zenon

\* The five descriptors a shell may have open are there.
LEMMA FdFacts ==
  /\ 0 \in Fds /\ 1 \in Fds /\ 2 \in Fds /\ 3 \in Fds /\ 4 \in Fds
  /\ \A d \in Fds : d \in Nat
BY ShellAssumption DEF Fds

\* fdalloc takes the first descriptor that is closed.
LEMMA FirstClosed ==
  ASSUME NEW fd, NEW n \in Fds, fd[n] = Closed, \A d \in Fds : fd[d] = Closed => n <= d
  PROVE  fdalloc(fd) = n
<1>1. \A d \in Fds : (fd[d] = Closed /\ \A k \in Fds : fd[k] = Closed => d <= k) => d = n
  BY FdFacts
<1> QED
  BY <1>1, Zenon DEF fdalloc

\* One descriptor is set.
Sets(fd, d, v, g) == g \in Tables /\ \A k \in Fds : g[k] = IF k = d THEN v ELSE fd[k]

\* An assignment to a descriptor sets it.
LEMMA SetDescriptor ==
  ASSUME NEW fd \in Tables, NEW d \in Fds, NEW v \in Descriptors
  PROVE  Sets(fd, d, v, [fd EXCEPT ![d] = v])
BY DEF Tables, Sets

\* close() sets a descriptor to Closed.
LEMMA CloseSets ==
  ASSUME NEW fd \in Tables, NEW d \in Fds
  PROVE  Sets(fd, d, Closed, close(fd, d))
BY SetDescriptor, DescriptorFacts, Zenon DEF close

\* The next descriptor.
LEMMA OpenedIs ==
  ASSUME NEW fd \in Tables, NEW n \in Fds, fd[n] = Closed, \A d \in Fds : fd[d] = Closed => n <= d,
         NEW v \in Descriptors
  PROVE  fdalloc(fd) = n /\ Sets(fd, n, v, Opened(fd, v))
BY FirstClosed, SetDescriptor, Zenon DEF Opened

\* A redirection replaces descriptor 0 or 1.
LEMMA RedirectedHas ==
  ASSUME NEW fd \in Tables, Has(fd, 0 .. 2), NEW d \in {0, 1}, NEW v \in Descriptors,
         d = 0 => v \in Objs \X {"r"}, d = 1 => v = Sink
  PROVE  Redirected(fd, d, v) \in Tables /\ Has(Redirected(fd, d, v), 0 .. 2)
<1> DEFINE f == close(fd, d)
           g == Opened(f, v)
<1>1. d \in Fds
  BY FdFacts
<1>2. Sets(fd, d, Closed, f) /\ f \in Tables
  BY <1>1, CloseSets, Zenon DEF Sets
<1> HIDE DEF f
<1>3. f[d] = Closed /\ \A k \in Fds : f[k] = Closed => d <= k
  <2>1. \A k \in Fds : fd[k] # Closed <=> k \in 0 .. 2
    BY DEF Has
  <2> QED
    BY <1>1, <1>2, <2>1, FdFacts DEF Sets
<1>4. Sets(f, d, v, g)
  BY <1>1, <1>2, <1>3, OpenedIs, Zenon
<1> HIDE DEF g
<1>5. v # Closed
  BY DescriptorFacts DEF Closed
<1>6. \A k \in Fds : g[k] = IF k = d THEN v ELSE fd[k]
  BY <1>2, <1>4 DEF Sets
<1>7. \A k \in Fds : g[k] # Closed <=> k \in 0 .. 2
  BY <1>1, <1>5, <1>6 DEF Has
<1>8. g[0] = Console \/ g[0][2] = "r"
  BY <1>6, FdFacts DEF Has
<1>9. g[1] \in {Console, Sink} \/ g[1][2] = "w"
  BY <1>6, FdFacts DEF Has
<1>10. g[2] = Console
  BY <1>6, FdFacts DEF Has
<1>11. Has(g, 0 .. 2)
  BY <1>7, <1>8, <1>9, <1>10, Zenon DEF Has
<1> QED
  BY <1>4, <1>11, Zenon DEF Redirected, Sets, f, g

\* pipe() takes 3 and 4.
Pipes(fd) == Has(fd, 0 .. 4) /\ fd[3][2] = "r" /\ fd[4][2] = "w"

\* After pipe() the read end is 3 and the write end 4.
LEMMA PipeHas ==
  ASSUME NEW fd \in Tables, Has(fd, 0 .. 2), NEW i \in Objs
  PROVE  LET f == Opened(fd, End(i, "r"))
             g == Opened(f, End(i, "w"))
         IN  /\ fdalloc(fd) = 3 /\ f \in Tables /\ Has(f, 0 .. 3)
             /\ fdalloc(f) = 4 /\ g \in Tables /\ Pipes(g)
<1> DEFINE f == Opened(fd, End(i, "r"))
           g == Opened(f, End(i, "w"))
<1>1. /\ End(i, "r") \in Descriptors /\ End(i, "w") \in Descriptors
      /\ End(i, "r") # Closed /\ End(i, "w") # Closed
      /\ End(i, "r")[2] = "r" /\ End(i, "w")[2] = "w"
  BY DEF End, Descriptors, Closed
<1>2. \A k \in Fds : fd[k] # Closed <=> k \in 0 .. 2
  BY DEF Has
<1>3. fdalloc(fd) = 3 /\ Sets(fd, 3, End(i, "r"), f)
  <2>1. fd[3] = Closed /\ \A k \in Fds : fd[k] = Closed => 3 <= k
    BY <1>2, FdFacts
  <2> QED
    BY <1>1, <2>1, OpenedIs, FdFacts, Zenon
<1> HIDE DEF f
<1>4. /\ \A k \in Fds : f[k] # Closed <=> k \in 0 .. 3
      /\ f[0] = fd[0] /\ f[1] = fd[1] /\ f[2] = fd[2] /\ f[3] = End(i, "r")
  BY <1>1, <1>2, <1>3, FdFacts DEF Sets
<1>5. fdalloc(f) = 4 /\ Sets(f, 4, End(i, "w"), g)
  <2>1. f[4] = Closed /\ \A k \in Fds : f[k] = Closed => 4 <= k
    BY <1>4, FdFacts
  <2>2. f \in Tables
    BY <1>3, Zenon DEF Sets
  <2> QED
    BY <1>1, <2>1, <2>2, OpenedIs, FdFacts, Zenon
<1> HIDE DEF g
<1>6. /\ \A k \in Fds : g[k] # Closed <=> k \in 0 .. 4
      /\ g[0] = fd[0] /\ g[1] = fd[1] /\ g[2] = fd[2] /\ g[3] = f[3] /\ g[4] = End(i, "w")
  BY <1>1, <1>4, <1>5, FdFacts DEF Sets
<1>7. Has(f, 0 .. 3) /\ Has(g, 0 .. 4)
  BY <1>4, <1>6, Zenon DEF Has
<1>8. g[3][2] = "r" /\ g[4][2] = "w"
  BY <1>1, <1>4, <1>6, Zenon
<1>9. fdalloc(fd) = 3 /\ f \in Tables /\ Has(f, 0 .. 3) /\ fdalloc(f) = 4 /\ g \in Tables /\ Pipes(g)
  BY <1>3, <1>5, <1>7, <1>8, Zenon DEF Sets, Pipes
<1> QED
  BY <1>9, Zenon DEF f, g

\* Without the pipe, the standard descriptors are left.
LEMMA BothClosedHas ==
  ASSUME NEW fd \in Tables, Has(fd, 0 .. 4)
  PROVE  /\ BothClosed(fd, <<3, 4>>) \in Tables /\ Has(BothClosed(fd, <<3, 4>>), 0 .. 2)
<1> DEFINE f == close(fd, 3)
           g == close(f, 4)
<1>1. Sets(fd, 3, Closed, f)
  BY CloseSets, FdFacts, Zenon
<1>2. Sets(f, 4, Closed, g)
  BY <1>1, CloseSets, FdFacts, Zenon DEF Sets
<1>3. BothClosed(fd, <<3, 4>>) = g
  BY DEF BothClosed
<1> HIDE DEF f, g
<1>4. /\ \A k \in Fds : g[k] # Closed <=> k \in 0 .. 2
      /\ g[0] = fd[0] /\ g[1] = fd[1] /\ g[2] = fd[2]
  BY <1>1, <1>2, FdFacts DEF Sets, Has
<1>5. Has(g, 0 .. 2)
  BY <1>4, Zenon DEF Has
<1> QED
  BY <1>2, <1>3, <1>5, Zenon DEF Sets

\* The child on the left has the write end for 1, the one on the right the read
\* end for 0.
LEMMA WiredHas ==
  ASSUME NEW fd \in Tables, Pipes(fd), NEW std \in {0, 1}, NEW i, i = std + 1
  PROVE  /\ Wired(fd, std, i, <<3, 4>>) \in Tables /\ Has(Wired(fd, std, i, <<3, 4>>), 0 .. 2)
<1> DEFINE f == close(fd, std)
           n == <<3, 4>>[i]
           g == dup(f, n)
<1>1. std \in Fds /\ n \in {3, 4} /\ n \in Fds
  BY FdFacts
<1>2. Sets(fd, std, Closed, f) /\ f \in Tables
  BY <1>1, CloseSets, Zenon DEF Sets
<1> HIDE DEF f
<1>3. f[std] = Closed /\ \A k \in Fds : f[k] = Closed => std <= k
  BY <1>1, <1>2, FdFacts DEF Sets, Pipes, Has
<1>4. fdalloc(f) = std
  BY <1>1, <1>3, FirstClosed, Zenon
<1>5. f[n] \in Descriptors /\ f[n] = fd[n] /\ fd[n] # Closed
  BY <1>1, <1>2 DEF Sets, Tables, Pipes, Has
<1>6. g = [f EXCEPT ![std] = f[n]]
  BY <1>4, Zenon DEF dup
<1> HIDE DEF n
<1>7. Sets(f, std, f[n], g)
  <2>1. Sets(f, std, f[n], [f EXCEPT ![std] = f[n]])
    BY <1>1, <1>2, <1>5, SetDescriptor, Zenon
  <2> QED
    BY <1>6, <2>1, Zenon
<1> HIDE DEF g
<1>8. /\ \A k \in Fds : g[k] = IF k = std THEN fd[n] ELSE fd[k]
      /\ g \in Tables
  BY <1>2, <1>5, <1>7 DEF Sets
<1>9. \A k \in Fds : g[k] # Closed <=> k \in 0 .. 4
  BY <1>1, <1>5, <1>8 DEF Pipes, Has
<1>10. ASSUME std = 0 PROVE Has(g, 0 .. 4)
  <2>1. n = 3
    BY <1>10 DEF n
  <2>2. g[0] = fd[3] /\ g[1] = fd[1] /\ g[2] = fd[2]
    BY <1>8, <1>10, <2>1, FdFacts
  <2> QED
    BY <1>9, <2>2, Zenon DEF Pipes, Has
<1>11. ASSUME std = 1 PROVE Has(g, 0 .. 4)
  <2>1. n = 4
    BY <1>11 DEF n
  <2>2. g[0] = fd[0] /\ g[1] = fd[4] /\ g[2] = fd[2]
    BY <1>8, <1>11, <2>1, FdFacts
  <2> QED
    BY <1>9, <2>2, Zenon DEF Pipes, Has
<1>12. Has(g, 0 .. 4)
  BY <1>10, <1>11
<1> QED
  BY <1>8, <1>12, BothClosedHas, Zenon DEF Wired, f, g, n

-----------------------------------------------------------------------------
(* Families.                                                                *)

\* From pr to pr2 nobody gets a child; p moves, zombies may be freed, children
\* may lose their parent.
Shrinks(pr, pr2, p) ==
  \A x \in Pids :
    /\ pr2[x].parent \in {pr[x].parent, None}
    /\ pr2[x].bg = pr[x].bg \/ (pr2[x].pc = "unused" /\ pr2[x].parent = None /\ ~pr2[x].bg)
    /\ x # p => pr2[x].pc = pr[x].pc \/ (pr2[x].pc = "unused" /\ pr[x].pc = "zombie")

\* Nobody who runs in the foreground loses their parent.
Keeps(pr, pr2) ==
  \A x \in Pids : pr2[x].pc # "unused" /\ ~pr2[x].bg => pr2[x].parent = pr[x].parent

\* A process may also have fewer children than it may have.
LEMMA FewLess ==
  ASSUME NEW pr, NEW pr2, NEW K, NEW L, NEW l, Few(pr, K, l), L \subseteq K,
         \A q \in L : pr2[q].bg = pr[q].bg
  PROVE  Few(pr2, L, l)
<1>1. l \in Alone => L = {}
  BY DEF Few
<1>2. l \in {"wait", "list", "right", "wait2"} => \A q, r \in L : q = r
  BY Zenon DEF Few
<1>3. l \in {"close", "wait1"} => \A q, r, s \in L : q = r \/ r = s \/ q = s
  BY Zenon DEF Few
<1>4. l = "exit" => \A q \in L : pr2[q].bg
  BY Zenon DEF Few
<1> QED
  BY <1>1, <1>2, <1>3, <1>4, Zenon DEF Few

\* A step in which nobody gets a child keeps the families.
LEMMA ShrinksFamily ==
  ASSUME NEW pr, NEW pr2, NEW p \in Pids, NEW n, NEW m, Family(pr, n), pr[p].pc # "unused",
         Shrinks(pr, pr2, p), Few(pr2, Kids(pr2, p), pr2[p].pc), Top(pr2),
         m = 0 => n = 0 /\ Keeps(pr, pr2)
  PROVE  Family(pr2, m)
<1>1. None \notin Pids
  BY ShellAssumption
<1>2. \A x, y \in Pids : pr2[x].parent = y => pr[x].parent = y /\ pr2[x].bg = pr[x].bg
  BY <1>1, Zenon DEF Shrinks
<1>3. ASSUME NEW x \in Pids PROVE Few(pr2, Kids(pr2, x), pr2[x].pc)
  <2>1. Kids(pr2, x) \subseteq Kids(pr, x) /\ \A q \in Kids(pr2, x) : pr2[q].bg = pr[q].bg
    BY <1>2, Zenon DEF Kids
  <2>2. Few(pr, Kids(pr, x), pr[x].pc)
    BY Zenon DEF Family
  <2>3. CASE x = p
    BY <2>3, Zenon
  <2>4. CASE x # p
    <3>1. CASE pr2[x].pc = pr[x].pc
      BY <2>1, <2>2, <3>1, FewLess, Zenon
    <3>2. CASE pr2[x].pc = "unused" /\ pr[x].pc = "zombie"
      <4>1. Kids(pr, x) = {}
        BY <2>2, <3>2 DEF Few, Alone
      <4>2. Kids(pr2, x) = {}
        BY <2>1, <4>1
      <4> QED
        BY <3>2, <4>2 DEF Few
    <3> QED
      BY <2>4, <3>1, <3>2, Zenon DEF Shrinks
  <2> QED
    BY <2>3, <2>4, Zenon
<1>4. Forest(pr2)
  <2>1. SUFFICES ASSUME NEW S \in SUBSET Pids, S # {} PROVE \E x \in S : pr2[x].parent \notin S
    BY Zenon DEF Forest
  <2>2. PICK x \in S : pr[x].parent \notin S
    BY <2>1, Zenon DEF Family, Forest
  <2>3. pr2[x].parent \notin S
    BY <1>1, <2>2 DEF Shrinks
  <2> QED
    BY <2>3, Zenon
<1>5. ASSUME m = 0 PROVE Attached(pr2)
  <2>1. Attached(pr) /\ Keeps(pr, pr2)
    BY <1>5, Zenon DEF Family
  <2>2. SUFFICES ASSUME NEW x \in Pids \ {Shell}, pr2[x].pc # "unused", ~pr2[x].bg
                 PROVE  pr2[x].parent \in Pids /\ ~pr2[pr2[x].parent].bg
    BY Zenon DEF Attached
  <2>3. pr2[x].bg = pr[x].bg /\ pr[x].pc # "unused"
    <3>1. pr2[x].bg = pr[x].bg
      BY <2>2, Zenon DEF Shrinks
    <3>2. pr[x].pc # "unused"
      BY <2>2, Zenon DEF Shrinks
    <3> QED
      BY <3>1, <3>2, Zenon
  <2>4. pr[x].parent \in Pids /\ ~pr[pr[x].parent].bg
    BY <2>1, <2>2, <2>3, Zenon DEF Attached
  <2>5. pr2[x].parent = pr[x].parent
    BY <2>1, <2>2, Zenon DEF Keeps
  <2>6. ~pr2[pr[x].parent].bg
    BY <2>4 DEF Shrinks
  <2> QED
    BY <2>4, <2>5, <2>6, Zenon
<1> QED
  BY <1>3, <1>4, <1>5, Zenon DEF Family

\* From pr to pr2, p gets a child q.
Forked(pr, pr2, p, q) ==
  /\ p # q /\ pr[p].pc # "unused" /\ pr[q].pc = "unused"
  /\ \A x \in Pids : x \notin {p, q} => pr2[x] = pr[x]
  /\ pr2[p].parent = pr[p].parent /\ pr2[p].bg = pr[p].bg
  /\ pr2[q].parent = p /\ pr2[q].pc \in Alone /\ (~pr2[q].bg => ~pr[p].bg)

\* A fork keeps the families.
LEMMA ForkFamily ==
  ASSUME NEW pr, NEW pr2, NEW p \in Pids, NEW q \in Pids, NEW n, Family(pr, n),
         Forked(pr, pr2, p, q), Few(pr2, Kids(pr, p) \cup {q}, pr2[p].pc), Top(pr2)
  PROVE  Family(pr2, n)
<1> USE DEF Forked
<1>1. \A x \in Pids : x # q => pr2[x].parent = pr[x].parent /\ pr2[x].bg = pr[x].bg
  BY Zenon
<1>2. Kids(pr, q) = {}
  <2>1. Few(pr, Kids(pr, q), pr[q].pc)
    BY Zenon DEF Family
  <2> QED
    BY <2>1 DEF Few, Alone
<1>3. ASSUME NEW x \in Pids PROVE Few(pr2, Kids(pr2, x), pr2[x].pc)
  <2>1. CASE x = p
    <3>1. Kids(pr2, p) = Kids(pr, p) \cup {q}
      BY <1>1 DEF Kids
    <3> QED
      BY <2>1, <3>1, Zenon
  <2>2. ASSUME x # p PROVE Kids(pr2, x) \subseteq Kids(pr, x) /\ \A y \in Kids(pr2, x) : pr2[y].bg = pr[y].bg
    BY <1>1, <2>2, Zenon DEF Kids
  <2>3. CASE x = q
    <3>1. Kids(pr2, q) = {}
      BY <1>2, <2>2, <2>3
    <3> QED
      BY <2>3, <3>1 DEF Few, Alone
  <2>4. CASE x \notin {p, q}
    <3>1. Few(pr, Kids(pr, x), pr[x].pc) /\ pr2[x].pc = pr[x].pc
      BY <2>4, Zenon DEF Family
    <3> QED
      BY <2>2, <2>4, <3>1, FewLess, Zenon
  <2> QED
    BY <2>1, <2>3, <2>4, Zenon
<1>4. Forest(pr2)
  <2>1. SUFFICES ASSUME NEW S \in SUBSET Pids, S # {} PROVE \E x \in S : pr2[x].parent \notin S
    BY Zenon DEF Forest
  <2>2. CASE S \subseteq {q}
    BY <2>1, <2>2
  <2>3. CASE ~(S \subseteq {q})
    <3>1. S \ {q} \in SUBSET Pids /\ S \ {q} # {}
      BY <2>3
    <3>2. PICK x \in S \ {q} : pr[x].parent \notin S \ {q}
      BY <3>1, Zenon DEF Family, Forest
    <3>3. x \in Pids /\ x # q /\ x \in S
      BY <3>2
    <3>4. pr[x].parent # q
      BY <1>2, <3>3 DEF Kids
    <3>5. pr2[x].parent \notin S
      BY <1>1, <3>2, <3>3, <3>4
    <3> QED
      BY <3>3, <3>5, Zenon
  <2> QED
    BY <2>2, <2>3, Zenon
<1>5. ASSUME n = 0 PROVE Attached(pr2)
  <2>1. Attached(pr)
    BY <1>5, Zenon DEF Family
  <2>2. SUFFICES ASSUME NEW x \in Pids \ {Shell}, pr2[x].pc # "unused", ~pr2[x].bg
                 PROVE  pr2[x].parent \in Pids /\ ~pr2[pr2[x].parent].bg
    BY Zenon DEF Attached
  <2>3. CASE x = q
    BY <2>2, <2>3, Zenon
  <2>4. CASE x # q
    <3>1. pr[x].pc # "unused" /\ pr2[x].parent = pr[x].parent /\ ~pr[x].bg
      BY <1>1, <2>2, <2>4, Zenon
    <3>2. pr[x].parent \in Pids /\ ~pr[pr[x].parent].bg
      BY <2>1, <3>1, Zenon DEF Attached
    <3>3. pr[x].parent # q
      BY <1>2 DEF Kids
    <3> QED
      BY <1>1, <3>1, <3>2, <3>3, Zenon
  <2> QED
    BY <2>3, <2>4, Zenon
<1> QED
  BY <1>3, <1>4, <1>5, Zenon DEF Family

-----------------------------------------------------------------------------
(* A process.                                                               *)

\* A record with one field set to a value of its type stays a record of its type.
LEMMA FieldsSet ==
  ASSUME NEW A, NEW B, NEW C, NEW D, NEW E, NEW F, NEW G, NEW H,
         NEW r \in [pc : A, cmd : B, ends : C, args : D, src : E, fd : F, parent : G, bg : H]
  PROVE  LET S == [pc : A, cmd : B, ends : C, args : D, src : E, fd : F, parent : G, bg : H]
         IN  /\ \A x \in A : [r EXCEPT !.pc = x] \in S
             /\ \A x \in B : [r EXCEPT !.cmd = x] \in S
             /\ \A x \in C : [r EXCEPT !.ends = x] \in S
             /\ \A x \in D : [r EXCEPT !.args = x] \in S
             /\ \A x \in E : [r EXCEPT !.src = x] \in S
             /\ \A x \in F : [r EXCEPT !.fd = x] \in S
             /\ \A x \in G : [r EXCEPT !.parent = x] \in S
             /\ \A x \in H : [r EXCEPT !.bg = x] \in S
OBVIOUS

\* A process with a field set to a value of its type is a process.
LEMMA SetField ==
  ASSUME NEW r \in Procs
  PROVE  /\ \A x \in PCs : [r EXCEPT !.pc = x] \in Procs
         /\ \A x \in Commands \cup Buffers \cup {NoCmd} : [r EXCEPT !.cmd = x] \in Procs
         /\ \A x \in {<<>>, <<3, 4>>} : [r EXCEPT !.ends = x] \in Procs
         /\ \A x \in Seq([w : Words, nul : BOOLEAN]) : [r EXCEPT !.args = x] \in Procs
         /\ \A x \in {0, 3} : [r EXCEPT !.src = x] \in Procs
         /\ \A x \in Tables : [r EXCEPT !.fd = x] \in Procs
         /\ \A x \in Pids \cup {0, None} : [r EXCEPT !.parent = x] \in Procs
         /\ \A x \in BOOLEAN : [r EXCEPT !.bg = x] \in Procs
BY FieldsSet, Zenon DEF Procs

\* The fields of a process have their types.
LEMMA ProcFields ==
  ASSUME NEW r \in Procs
  PROVE  /\ r.pc \in PCs /\ r.cmd \in Commands \cup Buffers \cup {NoCmd} /\ r.ends \in {<<>>, <<3, 4>>}
         /\ r.args \in Seq([w : Words, nul : BOOLEAN]) /\ r.src \in {0, 3} /\ r.fd \in Tables
         /\ r.parent \in Pids \cup {0, None} /\ r.bg \in BOOLEAN
BY DEF Procs

\* The free process is a process, nobody's child and not in the background.
LEMMA FreeProc ==
  Free \in Procs /\ Free.pc = "unused" /\ Free.parent = None /\ Free.bg = FALSE
<1>1. AllClosed \in Tables
  BY DescriptorFacts DEF AllClosed, Tables
<1>2. <<>> \in Seq([w : Words, nul : BOOLEAN])
  OBVIOUS
<1>3. Free \in Procs
  BY <1>1, <1>2 DEF Free, Procs, PCs
<1> QED
  BY <1>3 DEF Free

\* A process that has exited.
IsZombie(z, x, b) == z \in Procs /\ z.pc = "zombie" /\ z.parent = x /\ z.bg = b

\* exit() leaves a zombie with the parent it had.
LEMMA ZombieProc ==
  ASSUME NEW x \in Pids \cup {0, None}, NEW b \in BOOLEAN
  PROVE  IsZombie([Free EXCEPT !.pc = "zombie", !.parent = x, !.bg = b], x, b)
<1> DEFINE z0 == [Free EXCEPT !.pc = "zombie"]
           z1 == [z0 EXCEPT !.parent = x]
           z == [z1 EXCEPT !.bg = b]
<1>1. z0 \in Procs
  BY FreeProc, SetField, Zenon DEF PCs
<1>2. z1 \in Procs
  BY <1>1, SetField, Zenon
<1>3. z \in Procs
  BY <1>2, SetField, Zenon
<1>4. z.pc = "zombie" /\ z.parent = x /\ z.bg = b
  BY FreeProc DEF Procs
<1> QED
  BY <1>3, <1>4, Zenon DEF IsZombie

\* A process that init inherits.
IsOrphan(r, o) ==
  /\ o \in Procs /\ o.pc = r.pc /\ o.parent = None /\ o.bg = r.bg
  /\ o.cmd = r.cmd /\ o.ends = r.ends /\ o.src = r.src /\ o.fd = r.fd

\* A child whose parent exits keeps everything else.
LEMMA OrphanProc ==
  ASSUME NEW r \in Procs
  PROVE  IsOrphan(r, [r EXCEPT !.parent = None])
BY DEF Procs, IsOrphan

-----------------------------------------------------------------------------
(* The kinds of step.                                                       *)

\* The invariant of one process.
LEMMA InvOf ==
  ASSUME ShellInv, NEW p \in Pids
  PROVE  /\ proc[p] \in Procs /\ Shaped(proc[p]) /\ Few(proc, Kids(proc, p), proc[p].pc)
         /\ proc[p].parent # p
<1>1. proc[p] \in Procs
  BY DEF ShellInv
<1>2. Shaped(proc[p]) /\ Few(proc, Kids(proc, p), proc[p].pc)
  BY Zenon DEF ShellInv, Family
<1>3. proc[p].parent # p
  <2>1. {p} \in SUBSET Pids /\ {p} # {}
    OBVIOUS
  <2>2. PICK x \in {p} : proc[x].parent \notin {p}
    BY <2>1, Zenon DEF ShellInv, Family, Forest
  <2> QED
    BY <2>2
<1> QED
  BY <1>1, <1>2, <1>3, Zenon

\* A process that is not the shell moves, alone.
LEMMA LocalStep ==
  ASSUME ShellInv, NEW p \in Pids, p # Shell, NEW r \in Procs, Shaped(r),
         r.parent = proc[p].parent, r.bg = proc[p].bg, proc[p].pc # "unused",
         Few(proc, Kids(proc, p), r.pc), proc' = [proc EXCEPT ![p] = r], UNCHANGED <<script, fails>>
  PROVE  ShellInv'
<1>1. proc \in [Pids -> Procs] /\ Shell \in Pids
  BY ShellAssumption, Zenon DEF ShellInv
<1>2. proc'[p] = r /\ proc' \in [Pids -> Procs] /\ \A x \in Pids : x # p => proc'[x] = proc[x]
  BY <1>1
<1>3. \A x \in Pids : Shaped(proc'[x])
  BY <1>2, Zenon DEF ShellInv
<1>4. Kids(proc', p) = Kids(proc, p) /\ \A x \in Pids : proc'[x].bg = proc[x].bg
  BY <1>2 DEF Kids
<1>5. Few(proc', Kids(proc', p), proc'[p].pc)
  <2>1. \A q \in Kids(proc, p) : proc'[q].bg = proc[q].bg
    BY <1>4, Zenon DEF Kids
  <2>2. Few(proc', Kids(proc, p), r.pc)
    BY <2>1, FewLess, Zenon
  <2> QED
    BY <1>2, <1>4, <2>2, Zenon
<1>6. Shrinks(proc, proc', p) /\ Keeps(proc, proc')
  BY <1>2, Zenon DEF Shrinks, Keeps
<1>7. Top(proc')
  BY <1>1, <1>2, Zenon DEF Top, ShellInv, Family
<1>8. Family(proc', fails)
  BY <1>5, <1>6, <1>7, ShrinksFamily, Zenon DEF ShellInv
<1>9. script' = script /\ fails' = fails
  OBVIOUS
<1> QED
  BY <1>2, <1>3, <1>8, <1>9, Zenon DEF ShellInv

\* A process waits for a child, and the child is freed.
LEMMA WaitStep ==
  ASSUME ShellInv, NEW p \in Pids, proc[p].pc \notin {"unused", "zombie"}, NEW r \in Procs, Shaped(r),
         r.parent = proc[p].parent, r.bg = proc[p].bg, p = Shell => r.pc = "prompt",
         wait(p, [proc EXCEPT ![p] = r]),
         \A q \in Kids(proc, p) : Few(proc, Kids(proc, p) \ {q}, r.pc)
  PROVE  ShellInv'
<1>1. proc \in [Pids -> Procs] /\ Shell \in Pids /\ Top(proc)
  BY ShellAssumption, Zenon DEF ShellInv, Family
<1>2. PICK q \in Pids : /\ proc[q].parent = p /\ proc[q].pc = "zombie"
                        /\ proc' = [[proc EXCEPT ![p] = r] EXCEPT ![q] = Free]
  BY Zenon DEF wait, Zombies, Children
<1>3. q # p /\ q # Shell
  BY <1>1, <1>2, ShellAssumption DEF Top
<1>4. /\ proc'[p] = r /\ proc'[q] = Free /\ proc' \in [Pids -> Procs]
      /\ \A x \in Pids : x \notin {p, q} => proc'[x] = proc[x]
  BY <1>1, <1>2, <1>3, FreeProc
<1>5. Shaped(Free)
  BY FreeProc DEF Shaped, Plain, Piping
<1>6. \A x \in Pids : Shaped(proc'[x])
  BY <1>4, <1>5, Zenon DEF ShellInv
<1>7. None \notin Pids
  BY ShellAssumption
<1>8. Kids(proc', p) = Kids(proc, p) \ {q} /\ q \in Kids(proc, p)
  BY <1>2, <1>4, <1>7, FreeProc DEF Kids
<1>9. Few(proc', Kids(proc', p), proc'[p].pc)
  <2>1. \A x \in Pids : x # q => proc'[x].bg = proc[x].bg
    BY <1>4, Zenon
  <2>2. \A x \in Kids(proc', p) : proc'[x].bg = proc[x].bg
    BY <1>8, <2>1 DEF Kids
  <2> QED
    BY <1>4, <1>8, <2>2, FewLess, Zenon
<1>10. Shrinks(proc, proc', p)
  BY <1>2, <1>3, <1>4, FreeProc DEF Shrinks
<1>11. Keeps(proc, proc')
  BY <1>4, FreeProc, Zenon DEF Keeps
<1>12. Top(proc')
  BY <1>1, <1>3, <1>4, Zenon DEF Top
<1>13. script' = script /\ fails' = fails
  BY DEF wait
<1>14. Family(proc', fails')
  BY <1>9, <1>10, <1>11, <1>12, <1>13, ShrinksFamily, Zenon DEF ShellInv
<1> QED
  BY <1>4, <1>6, <1>13, <1>14, Zenon DEF ShellInv

\* A process exits; when it leaves children that are not in the background,
\* something has failed.
LEMMA ExitStep ==
  ASSUME ShellInv, NEW p \in Pids, proc[p].pc \notin {"unused", "zombie"}, proc' = AfterExit(p),
         script' \in Seq(DOMAIN Parsed), fails' \in Nat,
         fails' = 0 => fails = 0 /\ \A q \in Kids(proc, p) : proc[q].bg
  PROVE  ShellInv'
<1> DEFINE z == [Free EXCEPT !.pc = "zombie", !.parent = proc[p].parent, !.bg = proc[p].bg]
<1>1. proc \in [Pids -> Procs] /\ Shell \in Pids /\ Top(proc) /\ None \notin Pids /\ None # 0
  <2>1. None \notin Pids /\ None # 0 /\ Shell \in Pids
    BY ShellAssumption
  <2> QED
    BY <2>1, Zenon DEF ShellInv, Family
<1>2. proc[p] \in Procs /\ proc[p].parent \in Pids \cup {0, None} /\ proc[p].bg \in BOOLEAN
  <2>1. proc[p] \in Procs
    BY <1>1
  <2> QED
    BY <2>1, ProcFields, Zenon
<1>3. z \in Procs /\ z.pc = "zombie" /\ z.parent = proc[p].parent /\ z.bg = proc[p].bg
  <2>1. IsZombie(z, proc[p].parent, proc[p].bg)
    BY <1>2, ZombieProc, Zenon
  <2> QED
    BY <2>1, Zenon DEF IsZombie
<1>4. proc'[p] = IF proc[p].parent = None THEN Free ELSE z
  BY DEF AfterExit
<1>5. \A x \in Pids : x # p =>
        proc'[x] = IF proc[x].parent = p /\ proc[x].pc = "zombie" THEN Free
                   ELSE IF proc[x].parent = p THEN [proc[x] EXCEPT !.parent = None] ELSE proc[x]
  BY DEF AfterExit, Zombies, Children
<1> HIDE DEF z
<1>6. Shaped(Free) /\ Shaped(z)
  BY <1>3, FreeProc DEF Shaped, Plain, Piping
<1>7. ASSUME NEW x \in Pids
      PROVE  /\ proc'[x] \in Procs /\ Shaped(proc'[x]) /\ proc'[x].parent # p
             /\ proc'[x].parent \in {proc[x].parent, None}
             /\ proc'[x].bg = proc[x].bg \/ (proc'[x].pc = "unused" /\ proc'[x].parent = None /\ ~proc'[x].bg)
             /\ x # p => proc'[x].pc = proc[x].pc \/ (proc'[x].pc = "unused" /\ proc[x].pc = "zombie")
  <2>1. CASE x = p
    <3>1. proc[p].parent # p
      BY InvOf, Zenon
    <3> QED
      BY <1>1, <1>3, <1>4, <1>6, <2>1, <3>1, FreeProc
  <2>2. CASE x # p /\ proc[x].parent = p /\ proc[x].pc = "zombie"
    <3>1. proc'[x] = Free
      BY <1>5, <2>2, Zenon
    <3> QED
      BY <1>1, <1>6, <2>2, <3>1, FreeProc
  <2>3. CASE x # p /\ proc[x].parent = p /\ proc[x].pc # "zombie"
    <3>1. proc'[x] = [proc[x] EXCEPT !.parent = None]
      BY <1>5, <2>3, Zenon
    <3>2. proc[x] \in Procs /\ Shaped(proc[x])
      BY InvOf, Zenon
    <3>3. IsOrphan(proc[x], proc'[x])
      BY <3>1, <3>2, OrphanProc, Zenon
    <3>4. Shaped(proc'[x])
      BY <3>2, <3>3, Zenon DEF Shaped, IsOrphan
    <3> QED
      BY <1>1, <2>3, <3>3, <3>4 DEF IsOrphan
  <2>4. CASE x # p /\ proc[x].parent # p
    <3>1. proc'[x] = proc[x]
      BY <1>5, <2>4, Zenon
    <3> QED
      BY <2>4, <3>1, InvOf, Zenon
  <2> QED
    BY <2>1, <2>2, <2>3, <2>4, Zenon
<1>8. proc' \in [Pids -> Procs]
  <2>1. DOMAIN proc' = Pids /\ proc' = [x \in Pids |-> proc'[x]]
    BY DEF AfterExit
  <2> QED
    BY <1>7, <2>1, Zenon
<1>9. Kids(proc', p) = {} /\ proc'[p].pc \in {"unused", "zombie"}
  BY <1>3, <1>4, <1>7, FreeProc DEF Kids
<1>10. Few(proc', Kids(proc', p), proc'[p].pc)
  BY <1>9 DEF Few
<1>11. Shrinks(proc, proc', p)
  BY <1>7, Zenon DEF Shrinks
<1>12. Top(proc')
  <2>1. CASE p = Shell
    BY <1>1, <1>3, <1>4, <2>1 DEF Top
  <2>2. CASE p # Shell
    <3>1. proc[Shell].parent # p
      BY <1>1, ShellAssumption DEF Top
    <3>2. proc'[Shell] = proc[Shell]
      BY <1>1, <1>5, <2>2, <3>1, Zenon
    <3> QED
      BY <1>1, <3>2, Zenon DEF Top
  <2> QED
    BY <2>1, <2>2, Zenon
<1>13. fails' = 0 => fails = 0 /\ Keeps(proc, proc')
  <2>1. SUFFICES ASSUME fails' = 0, NEW x \in Pids, proc'[x].pc # "unused", ~proc'[x].bg
                 PROVE  proc'[x].parent = proc[x].parent
    BY Zenon DEF Keeps
  <2>2. CASE x = p
    BY <1>3, <1>4, <2>1, <2>2, FreeProc, Zenon
  <2>3. CASE x # p /\ proc[x].parent = p
    <3>1. proc[x].bg
      BY <2>1, <2>3, Zenon DEF Kids
    <3> QED
      BY <1>7, <2>1, <3>1, Zenon
  <2>4. CASE x # p /\ proc[x].parent # p
    BY <1>5, <2>4, Zenon
  <2> QED
    BY <2>2, <2>3, <2>4, Zenon
<1>14. Family(proc', fails')
  BY <1>10, <1>11, <1>12, <1>13, ShrinksFamily, Zenon DEF ShellInv
<1> QED
  BY <1>7, <1>8, <1>14, Zenon DEF ShellInv

\* Where the parent is, where it goes, and where the child starts.
Forking(l, next, first) ==
  \/ l = "prompt" /\ next = "wait" /\ first = "parse"
  \/ l = "run" /\ next \in {"list", "exit"} /\ first = "run"
  \/ l = "left" /\ next = "right" /\ first = "wire_left"
  \/ l = "right" /\ next = "close" /\ first = "wire_right"

Given(r, next, first, cmd, b) ==
  /\ next = "list" => r.cmd.type = "LIST"
  /\ first = "parse" => cmd \in Buffers
  /\ first # "parse" => cmd \in Commands
  /\ next = "exit" => b
  /\ next # "exit" => b = r.bg

\* A process with only its pc changed.
Moved(r, m, l) ==
  /\ m \in Procs /\ m.pc = l /\ m.cmd = r.cmd /\ m.ends = r.ends /\ m.src = r.src /\ m.fd = r.fd
  /\ m.parent = r.parent /\ m.bg = r.bg

\* A process that only moves is such a process.
LEMMA MovedProc ==
  ASSUME NEW r \in Procs, NEW l \in PCs
  PROVE  Moved(r, [r EXCEPT !.pc = l], l)
BY DEF Procs, Moved

\* A child, made from its parent.
IsChild(r, c, l, cmd, p, b) ==
  /\ c \in Procs /\ c.pc = l /\ c.cmd = cmd /\ c.ends = r.ends /\ c.src = r.src /\ c.fd = r.fd
  /\ c.parent = p /\ c.bg = b

\* fork() copies the descriptors of the parent.
LEMMA ChildProc ==
  ASSUME NEW r \in Procs, NEW l \in PCs, NEW cmd \in Commands \cup Buffers, NEW p \in Pids, NEW b \in BOOLEAN
  PROVE  IsChild(r, [r EXCEPT !.pc = l, !.cmd = cmd, !.parent = p, !.bg = b], l, cmd, p, b)
<1> DEFINE c1 == [r EXCEPT !.pc = l]
           c2 == [c1 EXCEPT !.cmd = cmd]
           c3 == [c2 EXCEPT !.parent = p]
           c == [c3 EXCEPT !.bg = b]
<1>1. c1 \in Procs
  BY SetField, Zenon
<1>2. c2 \in Procs
  BY <1>1, SetField, Zenon
<1>3. c3 \in Procs
  BY <1>2, SetField, Zenon
<1>4. c \in Procs
  BY <1>3, SetField, Zenon
<1>5. /\ c.pc = l /\ c.cmd = cmd /\ c.ends = r.ends /\ c.src = r.src /\ c.fd = r.fd
      /\ c.parent = p /\ c.bg = b
  BY DEF Procs
<1> QED
  BY <1>4, <1>5, Zenon DEF IsChild

\* fork1 makes a child where one may be, or ends the process.
LEMMA ForkStep ==
  ASSUME ShellInv, NEW p \in Pids, NEW next, NEW first, NEW cmd, NEW b \in BOOLEAN,
         Forking(proc[p].pc, next, first), Given(proc[p], next, first, cmd, b),
         fork1(p, next, first, cmd, b), script' \in Seq(DOMAIN Parsed)
  PROVE  ShellInv'
<1>1. proc \in [Pids -> Procs] /\ Shell \in Pids /\ Top(proc) /\ fails \in Nat
  BY ShellAssumption, Zenon DEF ShellInv, Family
<1>2. /\ proc[p] \in Procs /\ Shaped(proc[p]) /\ Few(proc, Kids(proc, p), proc[p].pc)
  BY InvOf, Zenon
<1>3. proc[p].pc \notin {"unused", "zombie"} /\ next \in PCs /\ first \in PCs
  BY DEF Forking, PCs
<1>4. CASE /\ fails < MaxFails /\ fails' = fails + 1
           /\ proc' = AfterExit(p) /\ obj' = Swept(proc')
  <2>1. fails' \in Nat /\ fails' # 0
    BY <1>1, <1>4
  <2>2. proc' = AfterExit(p)
    BY <1>4, Zenon
  <2> QED
    BY <1>3, <2>1, <2>2, ExitStep, Zenon
<1>5. ASSUME NEW q \in Pids, proc[q].pc = "unused",
             proc' = [Goto(p, next) EXCEPT
               ![q] = [proc[p] EXCEPT !.pc = first, !.cmd = cmd, !.parent = p, !.bg = b]],
             fails' = fails
      PROVE  ShellInv'
  <2> DEFINE m == [proc[p] EXCEPT !.pc = next]
             c == [proc[p] EXCEPT !.pc = first, !.cmd = cmd, !.parent = p, !.bg = b]
  <2>1. Moved(proc[p], m, next)
    BY <1>2, <1>3, MovedProc, Zenon
  <2>2. IsChild(proc[p], c, first, cmd, p, b)
    <3>1. cmd \in Commands \cup Buffers
      BY DEF Given
    <3> QED
      BY <1>2, <1>3, <3>1, ChildProc, Zenon
  <2>3. proc' = [[proc EXCEPT ![p] = m] EXCEPT ![q] = c]
    BY <1>5, Zenon DEF Goto
  <2> HIDE DEF m, c
  <2>4. p # q
    BY <1>3, <1>5
  <2>5. /\ proc'[p] = m /\ proc'[q] = c /\ \A x \in Pids : x \notin {p, q} => proc'[x] = proc[x]
        /\ proc' \in [Pids -> Procs]
    BY <1>1, <2>1, <2>2, <2>3, <2>4 DEF Moved, IsChild
  <2>6. Shaped(m)
    BY <1>2, <2>1 DEF Shaped, Moved, Forking, Given, Plain, Piping
  <2>7. Shaped(c)
    <3>1. c.pc = "parse" => c.cmd \in Buffers
      BY <2>2, Zenon DEF IsChild, Given
    <3>2. c.pc # "parse" => c.cmd \in Commands
      BY <2>2, Zenon DEF IsChild, Given
    <3>3. /\ c.pc \in Plain => proc[p].pc \in Plain
          /\ c.pc \in Piping => proc[p].pc \in Piping
          /\ c.pc \notin {"read", "write", "list", "left", "right"}
      BY <2>2 DEF IsChild, Forking, Plain, Piping
    <3>4. c.ends = proc[p].ends /\ c.src = proc[p].src /\ c.fd = proc[p].fd
      BY <2>2, Zenon DEF IsChild
    <3> QED
      BY <1>2, <3>1, <3>2, <3>3, <3>4 DEF Shaped
  <2>8. \A x \in Pids : Shaped(proc'[x])
    BY <2>5, <2>6, <2>7, Zenon DEF ShellInv
  <2>9. proc'[p].pc = next /\ proc'[p].parent = proc[p].parent /\ proc'[p].bg = proc[p].bg
    BY <2>1, <2>5, Zenon DEF Moved
  <2>10. proc'[q].pc = first /\ proc'[q].parent = p /\ proc'[q].bg = b
    BY <2>2, <2>5, Zenon DEF IsChild
  <2>11. Few(proc', Kids(proc, p) \cup {q}, proc'[p].pc)
    <3>1. CASE next # "close"
      <4>1. Kids(proc, p) = {}
        BY <1>2, <3>1 DEF Few, Alone, Forking
      <4> QED
        BY <2>9, <2>10, <3>1, <4>1 DEF Few, Alone, Forking, Given
    <3>2. CASE next = "close"
      <4>1. \A x, y \in Kids(proc, p) : x = y
        BY <1>2, <3>2 DEF Few, Forking
      <4>2. \A x, y, z \in Kids(proc, p) \cup {q} : x = y \/ y = z \/ x = z
        BY <4>1, Zenon
      <4>3. "close" \notin Alone \cup {"wait", "list", "right", "wait2", "exit"}
        BY DEF Alone
      <4> QED
        BY <2>9, <3>2, <4>2, <4>3, Zenon DEF Few
    <3> QED
      BY <3>1, <3>2, Zenon
  <2>12. Top(proc')
    <3>1. q # Shell
      BY <1>1, <1>5 DEF Top
    <3>2. CASE p = Shell
      BY <1>1, <2>9, <3>2 DEF Top, Forking
    <3>3. CASE p # Shell
      BY <1>1, <2>5, <3>1, <3>3, Zenon DEF Top
    <3> QED
      BY <3>2, <3>3, Zenon
  <2>13. first \in Alone /\ (~b => ~proc[p].bg)
    BY DEF Forking, Given, Alone
  <2>14. Family(proc', fails)
    <3>1. Family(proc, fails)
      BY Zenon DEF ShellInv
    <3>2. proc'[q].pc \in Alone /\ (~proc'[q].bg => ~proc[p].bg) /\ proc[p].pc # "unused"
      BY <1>3, <2>10, <2>13
    <3>3. Forked(proc, proc', p, q)
      BY <1>5, <2>4, <2>5, <2>9, <2>10, <3>2, Zenon DEF Forked
    <3> QED
      BY <2>11, <2>12, <3>1, <3>3, ForkFamily, Zenon
  <2> QED
    BY <1>1, <1>5, <2>5, <2>8, <2>14, Zenon DEF ShellInv
<1>6. CASE \E q \in Pids :
        /\ proc[q].pc = "unused" /\ \A r \in Pids : proc[r].pc = "unused" => q <= r
        /\ proc' = [Goto(p, next) EXCEPT
             ![q] = [proc[p] EXCEPT !.pc = first, !.cmd = cmd, !.parent = p, !.bg = b]]
        /\ fails' = fails
  BY <1>5, <1>6, Zenon
<1> QED
  BY <1>4, <1>6, Zenon DEF fork1

-----------------------------------------------------------------------------
(* The actions.                                                             *)

\* Only the shell is at its prompt, or waits for a line.
LEMMA NotShell ==
  ASSUME ShellInv, NEW p \in Pids, proc[p].pc \notin {"prompt", "wait", "zombie"}
  PROVE  p # Shell
BY DEF ShellInv, Family, Top

\* A process without children moves.
LEMMA AloneStep ==
  ASSUME ShellInv, NEW p \in Pids, proc[p].pc \in Alone \ {"unused", "zombie", "prompt"},
         NEW r \in Procs, Shaped(r), r.parent = proc[p].parent, r.bg = proc[p].bg,
         proc' = [proc EXCEPT ![p] = r], UNCHANGED <<script, fails>>
  PROVE  ShellInv'
<1>1. Kids(proc, p) = {}
  <2>1. Few(proc, Kids(proc, p), proc[p].pc)
    BY InvOf, Zenon
  <2> QED
    BY <2>1 DEF Few
<1>2. Few(proc, Kids(proc, p), r.pc)
  BY <1>1 DEF Few
<1>3. p # Shell
  <2>1. proc[p].pc \notin {"prompt", "wait", "zombie"}
    BY DEF Alone
  <2> QED
    BY <2>1, NotShell, Zenon
<1>4. proc[p].pc # "unused"
  OBVIOUS
<1> QED
  BY <1>2, <1>3, <1>4, LocalStep, Zenon

\* A process exits where runcmd and the programs do.
LEMMA ExitAction ==
  ASSUME ShellInv, NEW p \in Pids, proc[p].pc \in (Alone \cup {"exit"}) \ {"unused", "zombie"},
         proc' = AfterExit(p), UNCHANGED <<script, fails>>
  PROVE  ShellInv'
<1>1. \A q \in Kids(proc, p) : proc[q].bg
  <2>1. Few(proc, Kids(proc, p), proc[p].pc)
    BY InvOf, Zenon
  <2>2. CASE proc[p].pc \in Alone
    BY <2>1, <2>2 DEF Few
  <2>3. CASE proc[p].pc = "exit"
    BY <2>1, <2>3, Zenon DEF Few
  <2> QED
    BY <2>2, <2>3
<1>2. script' \in Seq(DOMAIN Parsed) /\ fails' \in Nat /\ fails' = fails
  BY DEF ShellInv
<1>3. proc[p].pc \notin {"unused", "zombie"}
  OBVIOUS
<1> QED
  BY <1>1, <1>2, <1>3, ExitStep, Zenon

\* getcmd: the next line of the script.
LEMMA ReadLine ==
  ASSUME NEW s \in Seq(DOMAIN Parsed), s # <<>>
  PROVE  Head(s) \in DOMAIN Parsed /\ Tail(s) \in Seq(DOMAIN Parsed) /\ Typed(Head(s)) \in Buffers
<1>1. Head(s) \in DOMAIN Parsed /\ Tail(s) \in Seq(DOMAIN Parsed)
  OBVIOUS
<1> QED
  BY <1>1 DEF Typed, Buffers

\* main: end of file, cd, or a child for the line.
LEMMA MainPreserves ==
  ASSUME ShellInv, main
  PROVE  ShellInv'
<1>1. /\ Shell \in Pids /\ proc[Shell].pc = "prompt" /\ script \in Seq(DOMAIN Parsed)
      /\ proc[Shell].bg = FALSE
  <2>1. Shell \in Pids /\ proc[Shell].pc = "prompt" /\ script \in Seq(DOMAIN Parsed) /\ ~proc[Shell].bg
    BY ShellAssumption, Zenon DEF ShellInv, main, Family, Top
  <2>2. proc[Shell].bg \in BOOLEAN
    BY <2>1, InvOf, ProcFields, Zenon
  <2> QED
    BY <2>1, <2>2
<1>2. CASE script = <<>>
  <2>1. proc' = AfterExit(Shell) /\ UNCHANGED <<script, fails>>
    BY <1>2 DEF main, exit
  <2>2. proc[Shell].pc \in (Alone \cup {"exit"}) \ {"unused", "zombie"}
    BY <1>1 DEF Alone
  <2> QED
    BY <1>1, <2>1, <2>2, ExitAction, Zenon
<1>3. CASE script # <<>>
  <2>1. script' = Tail(script) /\ script' \in Seq(DOMAIN Parsed) /\ Typed(Head(script)) \in Buffers
    BY <1>1, <1>3, ReadLine DEF main
  <2>2. CASE UNCHANGED <<proc, obj, fails>>
    <3>1. proc' = proc /\ fails' = fails
      BY <2>2
    <3> QED
      BY <2>1, <3>1, Zenon DEF ShellInv
  <2>3. CASE fork1(Shell, "wait", "parse", Typed(Head(script)), FALSE)
    <3>1. Forking(proc[Shell].pc, "wait", "parse")
      BY <1>1, Zenon DEF Forking
    <3>2. Given(proc[Shell], "wait", "parse", Typed(Head(script)), FALSE)
      BY <1>1, <2>1, Zenon DEF Given
    <3> QED
      BY <1>1, <2>1, <2>3, <3>1, <3>2, ForkStep, Zenon
  <2> QED
    BY <1>3, <2>2, <2>3, Zenon DEF main
<1> QED
  BY <1>2, <1>3, Zenon

\* The shell waits for the line.
LEMMA MainWaitPreserves ==
  ASSUME ShellInv, main_wait
  PROVE  ShellInv'
<1> DEFINE m == [proc[Shell] EXCEPT !.pc = "prompt"]
<1>1. Shell \in Pids /\ proc[Shell].pc = "wait" /\ wait(Shell, Goto(Shell, "prompt"))
  BY ShellAssumption, Zenon DEF main_wait
<1>2. proc[Shell] \in Procs /\ Shaped(proc[Shell]) /\ Few(proc, Kids(proc, Shell), "wait")
  BY <1>1, InvOf, Zenon
<1>3. Moved(proc[Shell], m, "prompt")
  BY <1>2, MovedProc, Zenon DEF PCs
<1>4. wait(Shell, [proc EXCEPT ![Shell] = m])
  BY <1>1, Zenon DEF Goto
<1> HIDE DEF m
<1>5. Shaped(m)
  BY <1>1, <1>2, <1>3 DEF Shaped, Moved, Plain, Piping
<1>6. \A q \in Kids(proc, Shell) : Few(proc, Kids(proc, Shell) \ {q}, m.pc)
  <2>1. \A q \in Kids(proc, Shell) : Kids(proc, Shell) \ {q} = {}
    BY <1>2 DEF Few
  <2> QED
    BY <1>3, <2>1 DEF Few, Moved
<1>7. proc[Shell].pc \notin {"unused", "zombie"}
  BY <1>1
<1> QED
  BY <1>1, <1>3, <1>4, <1>5, <1>6, <1>7, WaitStep, Zenon DEF Moved

\* What a step makes of a process: parent and background stay.
Becomes(r, m, l, cmd, ends, src, fd) ==
  /\ m \in Procs /\ m.pc = l /\ m.cmd = cmd /\ m.ends = ends /\ m.src = src /\ m.fd = fd
  /\ m.parent = r.parent /\ m.bg = r.bg

\* The line is parsed.
LEMMA ParsePreserves ==
  ASSUME ShellInv, NEW p \in Pids, parse(p)
  PROVE  ShellInv'
<1> DEFINE c == Parsed[proc[p].cmd.buf]
           m == [proc[p] EXCEPT !.pc = "run", !.cmd = c]
<1>1. proc[p].pc = "parse" /\ proc[p] \in Procs /\ Shaped(proc[p]) /\ proc \in [Pids -> Procs]
  BY InvOf, Zenon DEF parse, ShellInv
<1>2. c \in Commands \cup {Syntax}
  <2>1. proc[p].cmd \in Buffers
    BY <1>1, Zenon DEF Shaped
  <2>2. proc[p].cmd.buf \in DOMAIN Parsed
    BY <2>1 DEF Buffers
  <2> QED
    BY <2>2, ShellAssumption, Zenon
<1>3. proc[p].pc \in Alone \ {"unused", "zombie", "prompt"}
  BY <1>1 DEF Alone
<1>4. CASE c = Syntax
  <2>1. proc' = AfterExit(p) /\ UNCHANGED <<script, fails>>
    BY <1>4 DEF parse, exit
  <2>2. proc[p].pc \in (Alone \cup {"exit"}) \ {"unused", "zombie"}
    BY <1>3
  <2> QED
    BY <2>1, <2>2, ExitAction, Zenon
<1>5. CASE c # Syntax
  <2>1. /\ proc' = [proc EXCEPT ![p].pc = "run", ![p].cmd = c] /\ UNCHANGED <<script, fails>>
    BY <1>5, Zenon DEF parse
  <2>2. proc' = [proc EXCEPT ![p] = m]
    BY <1>1, <2>1, Zenon
  <2>3. Becomes(proc[p], m, "run", c, proc[p].ends, proc[p].src, proc[p].fd)
    <3>1. c \in Commands
      BY <1>2, <1>5
    <3> HIDE DEF c
    <3>2. m \in Procs
      BY <1>1, <3>1, Zenon, SetField DEF PCs
    <3> QED
      BY <1>1, <3>1, <3>2 DEF Procs, Becomes
  <2>4. c \in Commands
    BY <1>2, <1>5
  <2> HIDE DEF m, c
  <2>5. Shaped(m)
    BY <1>1, <2>3, <2>4 DEF Shaped, Becomes, Plain, Piping
  <2> QED
    BY <1>3, <2>1, <2>2, <2>3, <2>5, AloneStep, Zenon DEF Becomes
<1> QED
  BY <1>4, <1>5, Zenon

\* A process at "run" has a command, the standard descriptors and no children.
LEMMA Running ==
  ASSUME ShellInv, NEW p \in Pids, proc[p].pc = "run"
  PROVE  /\ proc \in [Pids -> Procs] /\ proc[p] \in Procs /\ Shaped(proc[p]) /\ proc[p].cmd \in Commands
         /\ proc[p].fd \in Tables /\ proc[p].src = 0 /\ Has(proc[p].fd, 0 .. 2)
         /\ proc[p].pc \in Alone \ {"unused", "zombie", "prompt"}
         /\ proc[p].pc \in (Alone \cup {"exit"}) \ {"unused", "zombie"}
<1>1. proc \in [Pids -> Procs] /\ proc[p] \in Procs /\ Shaped(proc[p])
  BY InvOf, Zenon DEF ShellInv
<1>2. proc[p].cmd \in Commands
  BY <1>1 DEF Shaped
<1>3. proc[p].src = 0 /\ Has(proc[p].fd, 0 .. 2)
  BY <1>1, Zenon DEF Shaped, Plain
<1>4. proc[p].fd \in Tables
  BY <1>1, ProcFields, Zenon
<1>5. /\ proc[p].pc \in Alone \ {"unused", "zombie", "prompt"}
      /\ proc[p].pc \in (Alone \cup {"exit"}) \ {"unused", "zombie"}
  BY DEF Alone
<1> QED
  BY <1>1, <1>2, <1>3, <1>4, <1>5, Zenon

\* exec starts cat or echo, or exits.
LEMMA RunExecPreserves ==
  ASSUME ShellInv, NEW p \in Pids, run_exec(p)
  PROVE  ShellInv'
<1>1. proc[p].pc = "run" /\ proc[p].cmd.type = "EXEC"
  BY Zenon DEF run_exec, Runs
<1>2. CASE exit(p)
  BY <1>1, <1>2, Running, ExitAction, Zenon DEF exit
<1>3. CASE /\ proc[p].cmd.argv # <<>>
           /\ proc' = [proc EXCEPT
                ![p].pc = IF Program(p) = "echo" THEN "echo"
                          ELSE IF Len(proc[p].cmd.argv) = 1 THEN "read" ELSE "open",
                ![p].args = Tail(proc[p].cmd.argv), ![p].cmd = NoCmd]
           /\ UNCHANGED <<script, fails>>
  <2> DEFINE l == IF Program(p) = "echo" THEN "echo"
                  ELSE IF Len(proc[p].cmd.argv) = 1 THEN "read" ELSE "open"
             a == Tail(proc[p].cmd.argv)
             m1 == [proc[p] EXCEPT !.pc = l]
             m2 == [m1 EXCEPT !.args = a]
             m == [m2 EXCEPT !.cmd = NoCmd]
  <2>1. l \in {"echo", "read", "open"}
    OBVIOUS
  <2>2. a \in Seq([w : Words, nul : BOOLEAN])
    <3>1. proc[p].cmd \in Commands
      BY <1>1, Running, Zenon
    <3>2. proc[p].cmd.argv \in Seq([w : Words, nul : BOOLEAN])
      BY <1>1, <3>1, CommandsAssumption, Zenon
    <3> QED
      BY <1>3, <3>2
  <2>3. proc' = [proc EXCEPT ![p] = m]
    BY <1>1, <1>3, Running, Zenon
  <2> HIDE DEF l, a
  <2>4. m1 \in Procs
    <3>1. l \in PCs
      BY <2>1 DEF PCs
    <3> QED
      BY <1>1, <3>1, Running, SetField, Zenon
  <2>5. m2 \in Procs
    BY <2>2, <2>4, SetField, Zenon
  <2>6. m \in Procs
    BY <2>5, SetField, Zenon
  <2>7. Becomes(proc[p], m, l, NoCmd, proc[p].ends, proc[p].src, proc[p].fd)
    <3>1. proc[p] \in Procs
      BY <1>1, Running, Zenon
    <3> QED
      BY <2>6, <3>1 DEF Procs, Becomes
  <2> HIDE DEF m
  <2>8. Shaped(m)
    <3>1. m.src = 0 /\ Has(m.fd, 0 .. 2) /\ m.pc \in {"echo", "read", "open"}
      BY <1>1, <2>1, <2>7, Running, Zenon DEF Becomes
    <3> QED
      BY <3>1 DEF Shaped, Plain, Piping
  <2> QED
    BY <1>1, <1>3, <2>3, <2>7, <2>8, Running, AloneStep, Zenon DEF Becomes
<1> QED
  BY <1>2, <1>3, Zenon DEF run_exec

\* An object nobody holds is one of the objects.
LEMMA NewObjIs ==
  ASSUME Unheld # {}
  PROVE  NewObj \in Objs
<1>1. NewObj \in Unheld
  BY Zenon DEF NewObj
<1> QED
  BY <1>1, Zenon DEF Unheld

\* A redirection leaves three descriptors, of the right kinds.
LEMMA RunRedirPreserves ==
  ASSUME ShellInv, NEW p \in Pids, run_redir(p)
  PROVE  ShellInv'
<1> DEFINE c == proc[p].cmd
           v == IF c.fd = 1 THEN Sink ELSE End(NewObj, "r")
           f == Redirected(proc[p].fd, c.fd, v)
           m1 == [proc[p] EXCEPT !.cmd = c.cmd]
           m == [m1 EXCEPT !.fd = f]
<1>1. proc[p].pc = "run" /\ c.type = "REDIR"
  BY Zenon DEF run_redir, Runs
<1>2. CASE exit(p)
  BY <1>1, <1>2, Running, ExitAction, Zenon DEF exit
<1>3. CASE /\ c.fd = 1 \/ Unheld # {}
           /\ proc' = [proc EXCEPT ![p].cmd = c.cmd, ![p].fd = Redirected(@, c.fd, v)]
           /\ UNCHANGED <<script, fails>>
  <2>1. c \in Commands
    BY <1>1, Running, Zenon
  <2>2. c.cmd \in Commands /\ c.fd \in {0, 1}
    BY <1>1, <2>1, CommandsAssumption
  <2>3. v \in Descriptors /\ (c.fd = 0 => v \in Objs \X {"r"}) /\ (c.fd = 1 => v = Sink)
    <3>1. CASE c.fd = 1
      BY <3>1, DescriptorFacts
    <3>2. CASE c.fd # 1
      <4>1. v = End(NewObj, "r") /\ NewObj \in Objs
        BY <1>3, <3>2, NewObjIs, Zenon
      <4> QED
        BY <3>2, <4>1 DEF Descriptors, End
    <3> QED
      BY <3>1, <3>2, Zenon
  <2>4. proc' = [proc EXCEPT ![p] = m]
    BY <1>1, <1>3, Running, Zenon
  <2> HIDE DEF v
  <2>5. f \in Tables /\ Has(f, 0 .. 2)
    BY <1>1, <2>2, <2>3, Running, RedirectedHas, Zenon
  <2> HIDE DEF f
  <2>6. m1 \in Procs
    BY <1>1, <2>2, Running, SetField, Zenon
  <2>7. m \in Procs
    BY <2>5, <2>6, SetField, Zenon
  <2>8. Becomes(proc[p], m, proc[p].pc, c.cmd, proc[p].ends, proc[p].src, f)
    <3>1. proc[p] \in Procs
      BY <1>1, Running, Zenon
    <3> QED
      BY <2>7, <3>1 DEF Procs, Becomes
  <2> HIDE DEF m
  <2>9. Shaped(m)
    <3>1. m.src = 0 /\ Has(m.fd, 0 .. 2) /\ m.pc = "run" /\ m.cmd \in Commands
      BY <1>1, <2>2, <2>5, <2>8, Running, Zenon DEF Becomes
    <3> QED
      BY <3>1 DEF Shaped, Plain, Piping
  <2> QED
    BY <1>1, <1>3, <2>4, <2>8, <2>9, Running, AloneStep, Zenon DEF Becomes
<1> QED
  BY <1>2, <1>3, Zenon DEF run_redir

\* A list forks its left command, "&" its command.
LEMMA RunListPreserves ==
  ASSUME ShellInv, NEW p \in Pids, run_list(p) \/ run_back(p)
  PROVE  ShellInv'
<1>1. proc[p].pc = "run" /\ UNCHANGED script
  BY Zenon DEF run_list, run_back, Runs
<1>2. proc[p].cmd \in Commands /\ proc[p].bg \in BOOLEAN
  BY <1>1, Running, ProcFields, Zenon
<1>3. script' \in Seq(DOMAIN Parsed)
  BY <1>1 DEF ShellInv
<1>4. CASE run_list(p)
  <2>1. proc[p].cmd.type = "LIST" /\ fork1(p, "list", "run", proc[p].cmd.left, proc[p].bg)
    BY <1>4, Zenon DEF run_list, Runs
  <2>2. proc[p].cmd.left \in Commands
    BY <1>2, <2>1, CommandsAssumption
  <2>3. Forking(proc[p].pc, "list", "run")
    BY <1>1 DEF Forking
  <2>4. Given(proc[p], "list", "run", proc[p].cmd.left, proc[p].bg)
    BY <2>1, <2>2, Zenon DEF Given
  <2> QED
    BY <1>2, <1>3, <2>1, <2>3, <2>4, ForkStep, Zenon
<1>5. CASE run_back(p)
  <2>1. proc[p].cmd.type = "BACK" /\ fork1(p, "exit", "run", proc[p].cmd.cmd, TRUE)
    BY <1>5, Zenon DEF run_back, Runs
  <2>2. proc[p].cmd.cmd \in Commands
    BY <1>2, <2>1, CommandsAssumption
  <2>3. Forking(proc[p].pc, "exit", "run")
    BY <1>1 DEF Forking
  <2>4. Given(proc[p], "exit", "run", proc[p].cmd.cmd, TRUE)
    BY <2>2, Zenon DEF Given
  <2> QED
    BY <1>3, <2>1, <2>3, <2>4, ForkStep, Zenon
<1> QED
  BY <1>4, <1>5, Zenon

\* The left command of a list is waited for.
LEMMA ListRightPreserves ==
  ASSUME ShellInv, NEW p \in Pids, list_right(p)
  PROVE  ShellInv'
<1> DEFINE c == proc[p].cmd.right
           m == [proc[p] EXCEPT !.pc = "run", !.cmd = c]
<1>1. proc[p].pc = "list" /\ wait(p, [proc EXCEPT ![p].pc = "run", ![p].cmd = @.right])
  BY Zenon DEF list_right
<1>2. /\ proc \in [Pids -> Procs] /\ proc[p] \in Procs /\ Shaped(proc[p])
      /\ Few(proc, Kids(proc, p), "list")
  BY <1>1, InvOf, Zenon DEF ShellInv
<1>3. c \in Commands
  <2>1. proc[p].cmd \in Commands /\ proc[p].cmd.type = "LIST"
    BY <1>1, <1>2 DEF Shaped
  <2> QED
    BY <2>1, CommandsAssumption
<1>4. wait(p, [proc EXCEPT ![p] = m])
  <2>1. [proc EXCEPT ![p].pc = "run", ![p].cmd = @.right] = [proc EXCEPT ![p] = m]
    BY <1>2, Zenon
  <2> QED
    BY <1>1, <2>1, Zenon
<1> HIDE DEF c
<1>5. Becomes(proc[p], m, "run", c, proc[p].ends, proc[p].src, proc[p].fd)
  <2>1. m \in Procs
    BY <1>2, <1>3, SetField, Zenon DEF PCs
  <2> QED
    BY <1>2, <1>3, <2>1 DEF Procs, Becomes
<1> HIDE DEF m
<1>6. Shaped(m)
  BY <1>1, <1>2, <1>3, <1>5 DEF Shaped, Becomes, Plain, Piping
<1>7. \A q \in Kids(proc, p) : Few(proc, Kids(proc, p) \ {q}, m.pc)
  <2>1. \A q \in Kids(proc, p) : Kids(proc, p) \ {q} = {}
    BY <1>2 DEF Few
  <2> QED
    BY <1>5, <2>1 DEF Few, Becomes
<1>8. proc[p].pc \notin {"unused", "zombie"} /\ p # Shell
  <2>1. proc[p].pc \notin {"prompt", "wait", "zombie"} /\ proc[p].pc # "unused"
    BY <1>1
  <2> QED
    BY <2>1, NotShell, Zenon
<1> QED
  BY <1>4, <1>5, <1>6, <1>7, <1>8, WaitStep, Zenon DEF Becomes

\* pipe() gives 3 and 4, or the process exits.
LEMMA RunPipePreserves ==
  ASSUME ShellInv, NEW p \in Pids, run_pipe(p)
  PROVE  ShellInv'
<1> DEFINE i == NewObj
           f == Opened(proc[p].fd, End(i, "r"))
           g == Opened(f, End(i, "w"))
           e == <<fdalloc(proc[p].fd), fdalloc(f)>>
           m1 == [proc[p] EXCEPT !.pc = "left"]
           m2 == [m1 EXCEPT !.ends = e]
           m == [m2 EXCEPT !.fd = g]
<1>1. proc[p].pc = "run" /\ proc[p].cmd.type = "PIPE" /\ UNCHANGED script
  BY Zenon DEF run_pipe, Runs
<1>2. CASE Unheld # {} /\ fails' = fails
           /\ proc' = [proc EXCEPT ![p].pc = "left", ![p].ends = e, ![p].fd = g]
  <2>1. i \in Objs
    BY <1>2, NewObjIs, Zenon
  <2>2. proc' = [proc EXCEPT ![p] = m]
    BY <1>1, <1>2, Running, Zenon
  <2> HIDE DEF i
  <2>3. fdalloc(proc[p].fd) = 3 /\ fdalloc(f) = 4 /\ g \in Tables /\ Pipes(g)
    BY <1>1, <2>1, Running, PipeHas, Zenon
  <2>4. e = <<3, 4>>
    BY <2>3, Zenon
  <2> HIDE DEF f, g, e
  <2>5. m1 \in Procs
    BY <1>1, Running, SetField, Zenon DEF PCs
  <2>6. m2 \in Procs
    BY <2>4, <2>5, SetField, Zenon
  <2>7. m \in Procs
    BY <2>3, <2>6, SetField, Zenon
  <2>8. Becomes(proc[p], m, "left", proc[p].cmd, e, proc[p].src, g)
    <3>1. proc[p] \in Procs
      BY <1>1, Running, Zenon
    <3> QED
      BY <2>7, <3>1 DEF Procs, Becomes
  <2> HIDE DEF m
  <2>9. Shaped(m)
    <3>1. m.pc = "left" /\ m.src = 0 /\ m.cmd \in Commands /\ m.cmd.type = "PIPE" /\ m.ends = <<3, 4>>
      BY <1>1, <2>4, <2>8, Running, Zenon DEF Becomes
    <3>2. Has(m.fd, 0 .. 4) /\ m.fd[3][2] = "r" /\ m.fd[4][2] = "w"
      BY <2>3, <2>8, Zenon DEF Becomes, Pipes
    <3> QED
      BY <3>1, <3>2 DEF Shaped, Plain, Piping
  <2>10. UNCHANGED <<script, fails>>
    BY <1>1, <1>2
  <2> QED
    BY <1>1, <2>2, <2>8, <2>9, <2>10, Running, AloneStep, Zenon DEF Becomes
<1>3. CASE fails' = fails + 1 /\ proc' = AfterExit(p)
  <2>1. fails' \in Nat /\ fails' # 0 /\ script' \in Seq(DOMAIN Parsed)
    BY <1>1, <1>3 DEF ShellInv
  <2>2. proc[p].pc \notin {"unused", "zombie"} /\ proc' = AfterExit(p)
    BY <1>1, <1>3
  <2> QED
    BY <2>1, <2>2, ExitStep, Zenon
<1> QED
  BY <1>2, <1>3, Zenon DEF run_pipe

\* Both sides of a pipe are forked.
LEMMA PipeForkPreserves ==
  ASSUME ShellInv, NEW p \in Pids, pipe_left(p) \/ pipe_right(p)
  PROVE  ShellInv'
<1>1. proc[p].pc \in {"left", "right"} /\ UNCHANGED script
  BY DEF pipe_left, pipe_right
<1>2. script' \in Seq(DOMAIN Parsed)
  BY <1>1 DEF ShellInv
<1>3. /\ proc[p].bg \in BOOLEAN /\ proc[p].cmd.left \in Commands /\ proc[p].cmd.right \in Commands
  <2>1. proc[p] \in Procs /\ Shaped(proc[p])
    BY InvOf, Zenon
  <2>2. proc[p].cmd \in Commands /\ proc[p].cmd.type = "PIPE"
    BY <1>1, <2>1 DEF Shaped
  <2>3. proc[p].cmd.left \in Commands /\ proc[p].cmd.right \in Commands
    BY <2>2, CommandsAssumption
  <2> QED
    BY <2>1, <2>3, ProcFields, Zenon
<1>4. CASE pipe_left(p)
  <2>1. Forking(proc[p].pc, "right", "wire_left") /\ fork1(p, "right", "wire_left", proc[p].cmd.left, proc[p].bg)
    BY <1>4, Zenon DEF Forking, pipe_left
  <2>2. Given(proc[p], "right", "wire_left", proc[p].cmd.left, proc[p].bg)
    BY <1>3, Zenon DEF Given
  <2> QED
    BY <1>2, <1>3, <2>1, <2>2, ForkStep, Zenon
<1>5. CASE pipe_right(p)
  <2>1. Forking(proc[p].pc, "close", "wire_right") /\ fork1(p, "close", "wire_right", proc[p].cmd.right, proc[p].bg)
    BY <1>5, Zenon DEF Forking, pipe_right
  <2>2. Given(proc[p], "close", "wire_right", proc[p].cmd.right, proc[p].bg)
    BY <1>3, Zenon DEF Given
  <2> QED
    BY <1>2, <1>3, <2>1, <2>2, ForkStep, Zenon
<1> QED
  BY <1>4, <1>5, Zenon

\* A child takes its end of the pipe for a standard descriptor, closes the pipe
\* and runs.
LEMMA WirePreserves ==
  ASSUME ShellInv, NEW p \in Pids, wire(p)
  PROVE  ShellInv'
<1> DEFINE f == IF proc[p].pc = "wire_left" THEN Wired(proc[p].fd, 1, 2, proc[p].ends)
                ELSE Wired(proc[p].fd, 0, 1, proc[p].ends)
           m1 == [proc[p] EXCEPT !.pc = "run"]
           m2 == [m1 EXCEPT !.ends = <<>>]
           m == [m2 EXCEPT !.fd = f]
<1>1. proc[p].pc \in {"wire_left", "wire_right"} /\ UNCHANGED <<script, fails>>
  BY DEF wire
<1>2. proc \in [Pids -> Procs] /\ proc[p] \in Procs /\ Shaped(proc[p]) /\ proc[p].fd \in Tables
  BY InvOf, ProcFields, Zenon DEF ShellInv
<1>3. proc' = [proc EXCEPT ![p] = m]
  BY <1>2, Zenon DEF wire
<1>4. proc[p].ends = <<3, 4>> /\ Pipes(proc[p].fd) /\ proc[p].src = 0 /\ proc[p].cmd \in Commands
  <2>1. proc[p].pc \in Piping
    BY <1>1 DEF Piping
  <2>2. proc[p].cmd \in Commands
    BY <1>1, <1>2 DEF Shaped
  <2> QED
    BY <1>2, <2>1, <2>2, Zenon DEF Shaped, Pipes
<1>5. f \in Tables /\ Has(f, 0 .. 2)
  <2>1. /\ Wired(proc[p].fd, 1, 2, <<3, 4>>) \in Tables /\ Has(Wired(proc[p].fd, 1, 2, <<3, 4>>), 0 .. 2)
        /\ Wired(proc[p].fd, 0, 1, <<3, 4>>) \in Tables /\ Has(Wired(proc[p].fd, 0, 1, <<3, 4>>), 0 .. 2)
    <3>1. 2 = 1 + 1 /\ 1 = 0 + 1 /\ 0 \in {0, 1} /\ 1 \in {0, 1}
      OBVIOUS
    <3> QED
      BY <1>2, <1>4, <3>1, WiredHas, Zenon
  <2> QED
    BY <1>4, <2>1, Zenon
<1> HIDE DEF f
<1>6. m1 \in Procs
  BY <1>2, SetField, Zenon DEF PCs
<1>7. m2 \in Procs
  BY <1>6, SetField, Zenon
<1>8. m \in Procs
  BY <1>5, <1>7, SetField, Zenon
<1>9. Becomes(proc[p], m, "run", proc[p].cmd, <<>>, proc[p].src, f)
  BY <1>2, <1>8 DEF Procs, Becomes
<1> HIDE DEF m
<1>10. Shaped(m)
  <2>1. m.src = 0 /\ Has(m.fd, 0 .. 2) /\ m.pc = "run" /\ m.cmd \in Commands
    BY <1>4, <1>5, <1>9, Zenon DEF Becomes
  <2> QED
    BY <2>1 DEF Shaped, Plain, Piping
<1>11. proc[p].pc \in Alone \ {"unused", "zombie", "prompt"}
  BY <1>1 DEF Alone
<1> QED
  BY <1>1, <1>3, <1>9, <1>10, <1>11, AloneStep, Zenon DEF Becomes

\* The parent closes the pipe.
LEMMA PipeClosePreserves ==
  ASSUME ShellInv, NEW p \in Pids, pipe_close(p)
  PROVE  ShellInv'
<1> DEFINE f == ParentClosed(proc[p].fd, proc[p].ends)
           m1 == [proc[p] EXCEPT !.pc = "wait1"]
           m == [m1 EXCEPT !.fd = f]
<1>1. proc[p].pc = "close" /\ UNCHANGED <<script, fails>>
  BY DEF pipe_close
<1>2. /\ proc \in [Pids -> Procs] /\ proc[p] \in Procs /\ Shaped(proc[p]) /\ proc[p].fd \in Tables
      /\ Few(proc, Kids(proc, p), proc[p].pc)
  BY InvOf, ProcFields, Zenon DEF ShellInv
<1>3. proc' = [proc EXCEPT ![p] = m]
  BY <1>2, Zenon DEF pipe_close
<1>4. proc[p].ends = <<3, 4>> /\ Has(proc[p].fd, 0 .. 4) /\ proc[p].src = 0
  <2>1. proc[p].pc \in Piping
    BY <1>1 DEF Piping
  <2> QED
    BY <1>2, <2>1, Zenon DEF Shaped
<1>5. f \in Tables /\ Has(f, 0 .. 2)
  BY <1>2, <1>4, BothClosedHas, Zenon DEF ParentClosed
<1> HIDE DEF f
<1>6. m1 \in Procs
  BY <1>2, SetField, Zenon DEF PCs
<1>7. m \in Procs
  BY <1>5, <1>6, SetField, Zenon
<1>8. Becomes(proc[p], m, "wait1", proc[p].cmd, proc[p].ends, proc[p].src, f)
  BY <1>2, <1>7 DEF Procs, Becomes
<1> HIDE DEF m
<1>9. Shaped(m)
  <2>1. m.src = 0 /\ Has(m.fd, 0 .. 2) /\ m.pc = "wait1"
    BY <1>4, <1>5, <1>8, Zenon DEF Becomes
  <2> QED
    BY <2>1 DEF Shaped, Plain, Piping
<1>10. Few(proc, Kids(proc, p), m.pc)
  BY <1>1, <1>2, <1>8 DEF Few, Becomes, Alone
<1>11. p # Shell /\ proc[p].pc # "unused"
  <2>1. proc[p].pc \notin {"prompt", "wait", "zombie"} /\ proc[p].pc # "unused"
    BY <1>1
  <2> QED
    BY <2>1, NotShell, Zenon
<1> QED
  BY <1>1, <1>3, <1>8, <1>9, <1>10, <1>11, LocalStep, Zenon DEF Becomes

\* The parent waits for both children.
LEMMA PipeWaitPreserves ==
  ASSUME ShellInv, NEW p \in Pids, pipe_wait(p)
  PROVE  ShellInv'
<1>1. /\ proc[p] \in Procs /\ Shaped(proc[p]) /\ Few(proc, Kids(proc, p), proc[p].pc)
  BY InvOf, Zenon
<1>2. ASSUME NEW l \in {"wait2", "exit"}, proc[p].pc \in {"wait1", "wait2"}, wait(p, Goto(p, l)),
             \A q \in Kids(proc, p) : Few(proc, Kids(proc, p) \ {q}, l)
      PROVE  ShellInv'
  <2> DEFINE m == [proc[p] EXCEPT !.pc = l]
  <2>1. Moved(proc[p], m, l)
    <3>1. l \in PCs
      BY DEF PCs
    <3> QED
      BY <1>1, <3>1, MovedProc, Zenon
  <2>2. wait(p, [proc EXCEPT ![p] = m])
    BY <1>2, Zenon DEF Goto
  <2> HIDE DEF m
  <2>3. Shaped(m)
    BY <1>1, <1>2, <2>1 DEF Shaped, Moved, Plain, Piping
  <2>4. proc[p].pc \notin {"unused", "zombie"} /\ p # Shell
    <3>1. proc[p].pc \notin {"prompt", "wait", "zombie"} /\ proc[p].pc # "unused"
      BY <1>2
    <3> QED
      BY <3>1, NotShell, Zenon
  <2>5. /\ m \in Procs /\ m.parent = proc[p].parent /\ m.bg = proc[p].bg
        /\ \A q \in Kids(proc, p) : Few(proc, Kids(proc, p) \ {q}, m.pc)
    BY <1>2, <2>1, Zenon DEF Moved
  <2> QED
    BY <2>2, <2>3, <2>4, <2>5, WaitStep, Zenon
<1>3. CASE proc[p].pc = "wait1" /\ wait(p, Goto(p, AfterWait))
  <2>1. \A q, r, s \in Kids(proc, p) : q = r \/ r = s \/ q = s
    BY <1>1, <1>3 DEF Few
  <2>2. \A q \in Kids(proc, p) : \A r, s \in Kids(proc, p) \ {q} : r = s
    BY <2>1
  <2>3. \A q \in Kids(proc, p) : Few(proc, Kids(proc, p) \ {q}, "wait2")
    <3>1. "wait2" \notin Alone \cup {"close", "wait1", "exit"}
      BY DEF Alone
    <3> QED
      BY <2>2, <3>1, Zenon DEF Few
  <2> QED
    BY <1>2, <1>3, <2>3, Zenon DEF AfterWait
<1>4. CASE proc[p].pc = "wait2" /\ wait(p, Goto(p, "exit"))
  <2>1. \A q \in Kids(proc, p) : Kids(proc, p) \ {q} = {}
    BY <1>1, <1>4 DEF Few
  <2>2. \A q \in Kids(proc, p) : Few(proc, Kids(proc, p) \ {q}, "exit")
    BY <2>1 DEF Few
  <2> QED
    BY <1>2, <1>4, <2>2, Zenon
<1> QED
  BY <1>3, <1>4, Zenon DEF pipe_wait

\* The end of runcmd.
LEMMA RunExitPreserves ==
  ASSUME ShellInv, NEW p \in Pids, run_exit(p)
  PROVE  ShellInv'
<1>1. proc[p].pc \in (Alone \cup {"exit"}) \ {"unused", "zombie"} /\ proc' = AfterExit(p) /\ UNCHANGED <<script, fails>>
  BY DEF run_exit, exit
<1> QED
  BY <1>1, ExitAction, Zenon

\* A write moves the process to one of two places.
LEMMA WriteIs ==
  ASSUME NEW p, NEW next, NEW failed, write(p, next, failed)
  PROVE  proc' \in {next, failed} /\ UNCHANGED <<script, fails>>
<1>1. proc' = next \/ proc' = failed
  BY Zenon DEF write
<1>2. UNCHANGED <<script, fails>>
  BY DEF write
<1> QED
  BY <1>1, <1>2

\* A program that only changes its place: it keeps its descriptors.
LEMMA GotoPreserves ==
  ASSUME ShellInv, NEW p \in Pids, NEW l \in {"exit", "read", "write"},
         proc[p].pc \in {"open", "read", "write"}, l = "exit" \/ proc[p].pc \in {"read", "write"},
         proc' = Goto(p, l), UNCHANGED <<script, fails>>
  PROVE  ShellInv'
<1> DEFINE m == [proc[p] EXCEPT !.pc = l]
<1>1. proc[p] \in Procs /\ Shaped(proc[p])
  BY InvOf, Zenon
<1>2. Moved(proc[p], m, l)
  <2>1. l \in PCs
    BY DEF PCs
  <2> QED
    BY <1>1, <2>1, MovedProc, Zenon
<1>3. proc' = [proc EXCEPT ![p] = m]
  BY Zenon DEF Goto
<1> HIDE DEF m
<1>4. Shaped(m)
  BY <1>1, <1>2 DEF Shaped, Moved, Plain, Piping
<1>5. proc[p].pc \in Alone \ {"unused", "zombie", "prompt"}
  BY DEF Alone
<1>6. m \in Procs /\ m.parent = proc[p].parent /\ m.bg = proc[p].bg
  BY <1>2, Zenon DEF Moved
<1> QED
  BY <1>3, <1>4, <1>5, <1>6, AloneStep, Zenon

\* echo writes its arguments and exits.
LEMMA EchoPreserves ==
  ASSUME ShellInv, NEW p \in Pids, echo(p)
  PROVE  ShellInv'
<1> DEFINE m == [proc[p] EXCEPT !.args = Tail(proc[p].args)]
<1>1. proc[p].pc = "echo"
  BY Zenon DEF echo
<1>2. /\ proc \in [Pids -> Procs] /\ proc[p] \in Procs /\ Shaped(proc[p])
      /\ proc[p].args \in Seq([w : Words, nul : BOOLEAN])
  BY InvOf, ProcFields, Zenon DEF ShellInv
<1>3. CASE proc[p].args = <<>>
  <2>1. proc' = AfterExit(p) /\ UNCHANGED <<script, fails>>
    BY <1>3 DEF echo, exit
  <2>2. proc[p].pc \in (Alone \cup {"exit"}) \ {"unused", "zombie"}
    BY <1>1 DEF Alone
  <2> QED
    BY <2>1, <2>2, ExitAction, Zenon
<1>4. CASE proc[p].args # <<>>
  <2>1. proc' = [proc EXCEPT ![p] = m] /\ UNCHANGED <<script, fails>>
    <3> DEFINE pr == [proc EXCEPT ![p].args = Tail(@)]
    <3>1. write(p, pr, pr)
      BY <1>4, Zenon DEF echo
    <3>2. pr = [proc EXCEPT ![p] = m]
      BY <1>2, Zenon
    <3> HIDE DEF pr
    <3>3. proc' = pr /\ UNCHANGED <<script, fails>>
      BY <3>1, WriteIs
    <3> QED
      BY <3>2, <3>3, Zenon
  <2>2. Tail(proc[p].args) \in Seq([w : Words, nul : BOOLEAN])
    BY <1>2, <1>4
  <2>3. m \in Procs
    BY <1>2, <2>2, SetField, Zenon
  <2>4. Becomes(proc[p], m, "echo", proc[p].cmd, proc[p].ends, proc[p].src, proc[p].fd)
    BY <1>1, <1>2, <2>3 DEF Procs, Becomes
  <2> HIDE DEF m
  <2>5. Shaped(m)
    BY <1>1, <1>2, <2>4 DEF Shaped, Becomes
  <2>6. proc[p].pc \in Alone \ {"unused", "zombie", "prompt"}
    BY <1>1 DEF Alone
  <2> QED
    BY <2>1, <2>4, <2>5, <2>6, AloneStep, Zenon DEF Becomes
<1> QED
  BY <1>3, <1>4, Zenon

\* cat opens its next file as descriptor 3.
LEMMA CatOpenPreserves ==
  ASSUME ShellInv, NEW p \in Pids, cat_open(p)
  PROVE  ShellInv'
<1> DEFINE i == NewObj
           f == Opened(proc[p].fd, End(i, "r"))
           m1 == [proc[p] EXCEPT !.pc = "read"]
           m2 == [m1 EXCEPT !.args = Tail(proc[p].args)]
           m3 == [m2 EXCEPT !.src = fdalloc(proc[p].fd)]
           m == [m3 EXCEPT !.fd = f]
<1>1. proc[p].pc = "open"
  BY Zenon DEF cat_open
<1>2. /\ proc \in [Pids -> Procs] /\ proc[p] \in Procs /\ Shaped(proc[p]) /\ proc[p].fd \in Tables
      /\ proc[p].args \in Seq([w : Words, nul : BOOLEAN])
  BY InvOf, ProcFields, Zenon DEF ShellInv
<1>3. CASE exit(p)
  <2>1. proc[p].pc \in (Alone \cup {"exit"}) \ {"unused", "zombie"}
    BY <1>1 DEF Alone
  <2> QED
    BY <1>3, <2>1, ExitAction, Zenon DEF exit
<1>4. CASE write(p, Goto(p, "exit"), Goto(p, "exit"))
  <2>1. proc' = Goto(p, "exit") /\ UNCHANGED <<script, fails>>
    BY <1>4, WriteIs
  <2>2. proc[p].pc \in {"open", "read", "write"} /\ "exit" \in {"exit", "read", "write"}
    BY <1>1
  <2> QED
    BY <2>1, <2>2, GotoPreserves, Zenon
<1>5. CASE /\ proc[p].args # <<>> /\ Unheld # {}
           /\ proc' = [proc EXCEPT ![p].pc = "read", ![p].args = Tail(@),
                          ![p].src = fdalloc(proc[p].fd), ![p].fd = Opened(@, End(NewObj, "r"))]
           /\ UNCHANGED <<script, fails>>
  <2>1. i \in Objs
    BY <1>5, NewObjIs, Zenon
  <2>2. Tail(proc[p].args) \in Seq([w : Words, nul : BOOLEAN])
    BY <1>2, <1>5
  <2>3. proc' = [proc EXCEPT ![p] = m]
    BY <1>2, <1>5, Zenon
  <2> HIDE DEF i
  <2>4. fdalloc(proc[p].fd) = 3 /\ f \in Tables /\ Has(f, 0 .. 3)
    <3>1. Has(proc[p].fd, 0 .. 2)
      BY <1>1, <1>2 DEF Shaped, Plain
    <3> QED
      BY <1>2, <2>1, <3>1, PipeHas, Zenon
  <2> HIDE DEF f
  <2>5. m1 \in Procs
    BY <1>2, SetField, Zenon DEF PCs
  <2>6. m2 \in Procs
    BY <2>2, <2>5, SetField, Zenon
  <2>7. m3 \in Procs
    BY <2>4, <2>6, SetField, Zenon
  <2>8. m \in Procs
    BY <2>4, <2>7, SetField, Zenon
  <2>9. Becomes(proc[p], m, "read", proc[p].cmd, proc[p].ends, fdalloc(proc[p].fd), f)
    BY <1>2, <2>8 DEF Procs, Becomes
  <2> HIDE DEF m
  <2>10. Shaped(m)
    <3>1. m.src = 3 /\ Has(m.fd, 0 .. 3) /\ m.pc = "read"
      BY <2>4, <2>9, Zenon DEF Becomes
    <3> QED
      BY <3>1 DEF Shaped, Plain, Piping
  <2>11. proc[p].pc \in Alone \ {"unused", "zombie", "prompt"}
    BY <1>1 DEF Alone
  <2> QED
    BY <1>5, <2>3, <2>9, <2>10, <2>11, AloneStep, Zenon DEF Becomes
<1> QED
  BY <1>3, <1>4, <1>5, Zenon DEF cat_open

\* cat reads on, or closes its file and opens the next.
LEMMA CatReadPreserves ==
  ASSUME ShellInv, NEW p \in Pids, cat_read(p)
  PROVE  ShellInv'
<1> DEFINE f == close(proc[p].fd, proc[p].src)
           m1 == [proc[p] EXCEPT !.pc = "open"]
           m2 == [m1 EXCEPT !.src = 0]
           m == [m2 EXCEPT !.fd = f]
<1>1. proc[p].pc = "read"
  BY Zenon DEF cat_read
<1>2. /\ proc \in [Pids -> Procs] /\ proc[p] \in Procs /\ Shaped(proc[p]) /\ proc[p].fd \in Tables
      /\ proc[p].src \in {0, 3}
  BY InvOf, ProcFields, Zenon DEF ShellInv
<1>3. CASE exit(p)
  <2>1. proc[p].pc \in (Alone \cup {"exit"}) \ {"unused", "zombie"}
    BY <1>1 DEF Alone
  <2> QED
    BY <1>3, <2>1, ExitAction, Zenon DEF exit
<1>4. CASE proc' = Goto(p, "write") /\ UNCHANGED <<script, fails>>
  <2>1. proc[p].pc \in {"open", "read", "write"} /\ proc[p].pc \in {"read", "write"}
        /\ "write" \in {"exit", "read", "write"}
    BY <1>1
  <2> QED
    BY <1>4, <2>1, GotoPreserves, Zenon
<1>5. CASE /\ proc[p].src # 0
           /\ proc' = [proc EXCEPT ![p].pc = "open", ![p].src = 0, ![p].fd = close(@, proc[p].src)]
           /\ UNCHANGED <<script, fails>>
  <2>1. proc' = [proc EXCEPT ![p] = m]
    BY <1>2, <1>5, Zenon
  <2>2. proc[p].src = 3 /\ Has(proc[p].fd, 0 .. 3)
    BY <1>1, <1>2, <1>5 DEF Shaped
  <2>3. Sets(proc[p].fd, 3, Closed, f)
    BY <1>2, <2>2, CloseSets, FdFacts, Zenon
  <2> HIDE DEF f
  <2>4. /\ \A k \in Fds : f[k] # Closed <=> k \in 0 .. 2
        /\ f[0] = proc[p].fd[0] /\ f[1] = proc[p].fd[1] /\ f[2] = proc[p].fd[2]
    BY <2>2, <2>3, FdFacts DEF Sets, Has
  <2>5. f \in Tables /\ Has(f, 0 .. 2)
    BY <2>2, <2>3, <2>4, Zenon DEF Has, Sets
  <2>6. m1 \in Procs
    BY <1>2, SetField, Zenon DEF PCs
  <2>7. m2 \in Procs
    BY <2>6, SetField, Zenon
  <2>8. m \in Procs
    BY <2>5, <2>7, SetField, Zenon
  <2>9. Becomes(proc[p], m, "open", proc[p].cmd, proc[p].ends, 0, f)
    BY <1>2, <2>8 DEF Procs, Becomes
  <2> HIDE DEF m
  <2>10. Shaped(m)
    <3>1. m.src = 0 /\ Has(m.fd, 0 .. 2) /\ m.pc = "open"
      BY <2>5, <2>9, Zenon DEF Becomes
    <3> QED
      BY <3>1 DEF Shaped, Plain, Piping
  <2>11. proc[p].pc \in Alone \ {"unused", "zombie", "prompt"}
    BY <1>1 DEF Alone
  <2> QED
    BY <1>5, <2>1, <2>9, <2>10, <2>11, AloneStep, Zenon DEF Becomes
<1> QED
  BY <1>3, <1>4, <1>5, Zenon DEF cat_read

\* cat writes what it has read, and exits when that fails.
LEMMA CatWritePreserves ==
  ASSUME ShellInv, NEW p \in Pids, cat_write(p)
  PROVE  ShellInv'
<1>1. proc[p].pc = "write" /\ write(p, Goto(p, "read"), AfterExit(p))
  BY Zenon DEF cat_write
<1>2. UNCHANGED <<script, fails>> /\ (proc' = Goto(p, "read") \/ proc' = AfterExit(p))
  BY <1>1, WriteIs
<1>3. CASE proc' = Goto(p, "read")
  <2>1. proc[p].pc \in {"open", "read", "write"} /\ proc[p].pc \in {"read", "write"}
        /\ "read" \in {"exit", "read", "write"}
    BY <1>1
  <2> QED
    BY <1>2, <1>3, <2>1, GotoPreserves, Zenon
<1>4. CASE proc' = AfterExit(p)
  <2>1. proc[p].pc \in (Alone \cup {"exit"}) \ {"unused", "zombie"}
    BY <1>1 DEF Alone
  <2> QED
    BY <1>2, <1>4, <2>1, ExitAction, Zenon
<1> QED
  BY <1>2, <1>3, <1>4, Zenon

-----------------------------------------------------------------------------
(* The theorems.                                                            *)

\* At first there is only the shell, with the console.
LEMMA InitInv ==
  Init => ShellInv
<1> SUFFICES ASSUME Init PROVE ShellInv
  OBVIOUS
<1> DEFINE t == [d \in Fds |-> IF d < 3 THEN Console ELSE Closed]
           m1 == [Free EXCEPT !.pc = "prompt"]
           m2 == [m1 EXCEPT !.parent = 0]
           m == [m2 EXCEPT !.fd = t]
<1>1. Shell \in Pids /\ None \notin Pids /\ 0 \notin Pids
  BY ShellAssumption
<1>2. t \in Tables /\ Has(t, 0 .. 2)
  <2>1. t \in Tables
    BY DescriptorFacts DEF Tables
  <2>2. \A d \in Fds : t[d] # Closed <=> d \in 0 .. 2
    BY DescriptorFacts, FdFacts
  <2>3. t[0] = Console /\ t[1] = Console /\ t[2] = Console
    BY FdFacts
  <2> QED
    BY <2>1, <2>2, <2>3, Zenon DEF Has
<1>3. proc = [p \in Pids |-> IF p = Shell THEN m ELSE Free]
  BY Zenon DEF Init
<1> HIDE DEF t
<1>4. m1 \in Procs
  BY FreeProc, SetField, Zenon DEF PCs
<1>5. m2 \in Procs
  BY <1>4, SetField, Zenon
<1>6. m \in Procs
  BY <1>2, <1>5, SetField, Zenon
<1>7. Becomes(m2, m, "prompt", Free.cmd, Free.ends, Free.src, t) /\ m.parent = 0 /\ m.bg = FALSE
  BY <1>6, FreeProc DEF Procs, Becomes
<1>8. Free.src = 0
  BY DEF Free
<1> HIDE DEF m
<1>9. proc \in [Pids -> Procs] /\ proc[Shell] = m /\ \A p \in Pids : p # Shell => proc[p] = Free
  BY <1>1, <1>3, <1>6, FreeProc
<1>10. Shaped(m) /\ Shaped(Free)
  <2>1. m.pc = "prompt" /\ m.src = 0 /\ Has(m.fd, 0 .. 2)
    BY <1>2, <1>7, <1>8, Zenon DEF Becomes
  <2> QED
    BY <2>1, FreeProc DEF Shaped, Plain, Piping
<1>11. \A p \in Pids : Shaped(proc[p])
  BY <1>9, <1>10, Zenon
<1>12. Top(proc)
  BY <1>7, <1>9 DEF Top, Becomes
<1>13. \A p \in Pids : proc[p].parent \notin Pids
  BY <1>1, <1>7, <1>9, FreeProc
<1>14. \A p \in Pids : Few(proc, Kids(proc, p), proc[p].pc)
  <2>1. \A p \in Pids : Kids(proc, p) = {}
    BY <1>13 DEF Kids
  <2> QED
    BY <2>1 DEF Few
<1>15. Forest(proc)
  BY <1>13 DEF Forest
<1>16. Attached(proc)
  BY <1>9, FreeProc DEF Attached
<1>17. script \in Seq(DOMAIN Parsed) /\ fails \in Nat
  <2>1. script \in Scripts /\ fails = 0
    BY Zenon DEF Init
  <2> QED
    BY <2>1, ShellAssumption
<1> QED
  BY <1>9, <1>11, <1>12, <1>14, <1>15, <1>16, <1>17, Zenon DEF ShellInv, Family

\* Every step of the shell, of runcmd and of the programs keeps the invariant:
\* which descriptors are open where (sh.c 82-122), which children a process has
\* yet to wait for, and who is whose parent.
THEOREM ShellInvariant ==
  Spec => []ShellInv
<1>1. ShellInv /\ [Next]_vars => ShellInv'
  <2> SUFFICES ASSUME ShellInv, [Next]_vars PROVE ShellInv'
    OBVIOUS
  <2>1. CASE UNCHANGED vars
    <3>1. proc' = proc /\ script' = script /\ fails' = fails
      BY <2>1 DEF vars
    <3> QED
      BY <3>1, Zenon DEF ShellInv
  <2>2. CASE main
    BY <2>2, MainPreserves, Zenon
  <2>3. CASE main_wait
    BY <2>3, MainWaitPreserves, Zenon
  <2>4. ASSUME NEW p \in Pids, Step(p) PROVE ShellInv'
    <3>1. CASE parse(p)
      BY <3>1, ParsePreserves, Zenon
    <3>2. CASE run_exec(p)
      BY <3>2, RunExecPreserves, Zenon
    <3>3. CASE run_redir(p)
      BY <3>3, RunRedirPreserves, Zenon
    <3>4. CASE run_list(p) \/ run_back(p)
      BY <3>4, RunListPreserves, Zenon
    <3>5. CASE list_right(p)
      BY <3>5, ListRightPreserves, Zenon
    <3>6. CASE run_pipe(p)
      BY <3>6, RunPipePreserves, Zenon
    <3>7. CASE pipe_left(p) \/ pipe_right(p)
      BY <3>7, PipeForkPreserves, Zenon
    <3>8. CASE wire(p)
      BY <3>8, WirePreserves, Zenon
    <3>9. CASE pipe_close(p)
      BY <3>9, PipeClosePreserves, Zenon
    <3>10. CASE pipe_wait(p)
      BY <3>10, PipeWaitPreserves, Zenon
    <3>11. CASE run_exit(p)
      BY <3>11, RunExitPreserves, Zenon
    <3>12. CASE echo(p)
      BY <3>12, EchoPreserves, Zenon
    <3>13. CASE cat_open(p)
      BY <3>13, CatOpenPreserves, Zenon
    <3>14. CASE cat_read(p)
      BY <3>14, CatReadPreserves, Zenon
    <3>15. CASE cat_write(p)
      BY <3>15, CatWritePreserves, Zenon
    <3> QED
      BY <2>4, <3>1, <3>2, <3>3, <3>4, <3>5, <3>6, <3>7, <3>8, <3>9, <3>10, <3>11, <3>12,
         <3>13, <3>14, <3>15, Zenon DEF Step
  <2> QED
    BY <2>1, <2>2, <2>3, <2>4, Zenon DEF Next
<1> QED
  BY <1>1, InitInv, PTL DEF Spec

\* A program starts with descriptors 0 to 2 and no other, whatever the nesting
\* of pipes, blocks and redirections: every end of a pipe is closed in the parent
\* and in both children before anything is executed (sh.c 82-122).
THEOREM AlwaysOnlyStdio ==
  Spec => []OnlyStdio
<1>1. ShellInv => OnlyStdio
  <2> SUFFICES ASSUME ShellInv, NEW p \in Pids, proc[p].pc \in {"echo", "open", "read", "write"}
               PROVE  /\ \A d \in Fds : proc[p].fd[d] # Closed <=> d < 3 \/ d = proc[p].src
                      /\ proc[p].fd[0] = Console \/ proc[p].fd[0][2] = "r"
                      /\ proc[p].fd[1] \in {Console, Sink} \/ proc[p].fd[1][2] = "w"
                      /\ proc[p].fd[2] = Console
    BY Zenon DEF OnlyStdio
  <2>1. Shaped(proc[p])
    BY InvOf, Zenon
  <2>2. \/ proc[p].src = 0 /\ Has(proc[p].fd, 0 .. 2)
        \/ proc[p].src = 3 /\ Has(proc[p].fd, 0 .. 3)
    BY <2>1 DEF Shaped, Plain
  <2>3. \A d \in Fds : proc[p].fd[d] # Closed <=> d < 3 \/ d = proc[p].src
    BY <2>2, FdFacts DEF Has
  <2> QED
    BY <2>2, <2>3, Zenon DEF Has
<1> QED
  BY <1>1, ShellInvariant, PTL

\* When the shell prompts, only what was put in the background is left running,
\* unless there was no memory for a process or a pipe: each parent has waited for
\* as many children as it has made (sh.c 96, 120, 169).  Among the processes in
\* the foreground one would have its parent outside them, which is neither in
\* the background, nor free, nor the shell, which has no children left.
THEOREM PromptAlwaysAfterCommand ==
  Spec => []PromptAfterCommand
<1>1. ShellInv => PromptAfterCommand
  <2> SUFFICES ASSUME ShellInv, proc[Shell].pc = "prompt", fails = 0
               PROVE  \A p \in Pids \ {Shell} : proc[p].pc # "unused" => proc[p].bg
    BY Zenon DEF PromptAfterCommand
  <2> DEFINE S == {p \in Pids \ {Shell} : proc[p].pc # "unused" /\ ~proc[p].bg}
  <2>1. Attached(proc) /\ Forest(proc) /\ Shell \in Pids
    BY ShellAssumption, Zenon DEF ShellInv, Family
  <2>2. SUFFICES ASSUME S # {} PROVE FALSE
    BY Zenon
  <2>3. S \in SUBSET Pids
    OBVIOUS
  <2>4. PICK x \in S : proc[x].parent \notin S
    BY <2>1, <2>2, <2>3, Zenon DEF Forest
  <2>5. x \in Pids \ {Shell} /\ proc[x].pc # "unused" /\ ~proc[x].bg
    BY <2>4
  <2>6. proc[x].parent \in Pids /\ ~proc[proc[x].parent].bg
    BY <2>1, <2>5, Zenon DEF Attached
  <2>7. ASSUME NEW q \in Pids, proc[q].pc \in Alone PROVE proc[x].parent # q
    <3>1. Kids(proc, q) = {}
      <4>1. Few(proc, Kids(proc, q), proc[q].pc)
        BY InvOf, Zenon
      <4> QED
        BY <2>7, <4>1 DEF Few
    <3> QED
      BY <2>5, <3>1 DEF Kids
  <2>8. proc[x].parent # Shell
    BY <2>1, <2>7, Zenon DEF Alone
  <2>9. proc[proc[x].parent].pc # "unused"
    BY <2>6, <2>7, Zenon DEF Alone
  <2> QED
    BY <2>4, <2>6, <2>8, <2>9
<1> QED
  BY <1>1, ShellInvariant, PTL
=============================================================================
