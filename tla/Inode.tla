------------------------------- MODULE Inode --------------------------------
(***************************************************************************)
(* Inodes, directories and path names (fs.c), with the system calls on     *)
(* them (sysfile.c) and the creation and removal of swap files, run by     *)
(* several processes at once.                                              *)
(*                                                                         *)
(* A step ends where a process must take another inode's lock, or another  *)
(* process could see the difference: what happens between ilock and        *)
(* iunlock is one step unless a second lock is taken inside.  iput is      *)
(* three: look at the counts, free, drop the reference.                    *)
(*                                                                         *)
(* A directory's entries are a function from names to i-numbers, 0 for no  *)
(* entry; they fit in one block.  Sizes and offsets count blocks.  Every   *)
(* call runs in a log operation, so crashes are Log's concern.             *)
(***************************************************************************)
EXTENDS Integers, Sequences, FiniteSets, FiniteSetsExt

CONSTANTS
  Procs,              \* a process is also the name of its swap file
  Names,
  NInodes, NINODE,    \* inodes on the disk, entries of icache
  NBlocks, NDIRECT, NINDIRECT,
  Tree,               \* the entries <<directory, name, inode, type>> on the disk
  Menus,              \* sets of system calls to make, and how many in all
  NoProc

ASSUME InodeAssumption ==
  /\ {NInodes, NINODE, NBlocks, NDIRECT, NINDIRECT} \subseteq Nat \ {0}
  /\ NoProc \notin Procs /\ \A m \in Menus : m.left \in Nat

Inums == 1 .. NInodes
ROOTINO == 1
Entries == 1 .. NINODE
Blocks == 1 .. NBlocks
DirNames == Names \cup Procs \cup {".", ".."}
MAXFILE == NDIRECT + NINDIRECT

VARIABLES
  fs,         \* disk, bitmap, directory contents and inode cache
  t,          \* what each process is doing, and the inodes it holds
  calls,      \* the calls left to make
  hist        \* history: what the properties make exceptions for

vars == <<fs, t, calls, hist>>

NoAddrs == [b \in 0 .. NDIRECT |-> 0]
NoBlocks == [j \in 0 .. NINDIRECT - 1 |-> 0]
NoEntries == [n \in DirNames |-> 0]
FreeInode == [type |-> "none", nlink |-> 0, size |-> 0, addrs |-> NoAddrs]

Panic(s, why) == [s EXCEPT !.panic = why]

-----------------------------------------------------------------------------
(* The disk.  An operator takes the state s and returns the next one.      *)

FreeBlocks(s) == Blocks \ s.used

balloc(s) ==
  IF FreeBlocks(s) = {} THEN Panic(s, "balloc: out of blocks")
  ELSE [s EXCEPT !.used = @ \cup {Min(FreeBlocks(s))}]

\* The block balloc returns.
Allocated(s) == IF FreeBlocks(s) = {} THEN 0 ELSE Min(FreeBlocks(s))

bfree(s, bs) ==
  IF bs \subseteq s.used THEN [s EXCEPT !.used = @ \ bs] ELSE Panic(s, "freeing free block")

iupdate(s, e) == [s EXCEPT !.dinode[s.icache[e].inum] = s.icache[e].d]

SetDirect(s, e, bn) ==
  IF s.icache[e].d.addrs[bn] # 0 THEN s
  ELSE [balloc(s) EXCEPT !.icache[e].d.addrs[bn] = Allocated(s)]

\* A new block is zeroed: the indirect block of e lists none.
NewIndirect(s, e) ==
  [balloc(s) EXCEPT !.icache[e].d.addrs[NDIRECT] = Allocated(s),
                    !.indirect[s.icache[e].inum] = NoBlocks]

SetIndirect(s, i, j) ==
  IF s.indirect[i][j] # 0 THEN s
  ELSE [balloc(s) EXCEPT !.indirect[i][j] = Allocated(s)]

bmap(s, e, bn) ==
  IF bn < NDIRECT THEN SetDirect(s, e, bn)
  ELSE SetIndirect(IF s.icache[e].d.addrs[NDIRECT] = 0 THEN NewIndirect(s, e) ELSE s,
                   s.icache[e].inum, bn - NDIRECT)

\* The blocks of inode i, whose copy is d, the indirect one among them.
BlocksOf(s, i, d) ==
  ({d.addrs[b] : b \in 0 .. NDIRECT} \cup {s.indirect[i][j] : j \in DOMAIN NoBlocks}) \ {0}

\* Mutant: the indirect block itself is not freed, only what it lists.
itrunc_leaks(s, e) ==
  LET i == s.icache[e].inum
      d == s.icache[e].d
  IN  iupdate([bfree(s, BlocksOf(s, i, d) \ {d.addrs[NDIRECT]}) EXCEPT
                 !.icache[e].d.addrs = NoAddrs, !.icache[e].d.size = 0,
                 !.ents[i] = NoEntries, !.indirect[i] = NoBlocks], e)

itrunc(s, e) ==
  LET i == s.icache[e].inum
  IN  iupdate([bfree(s, BlocksOf(s, i, s.icache[e].d)) EXCEPT
                 !.icache[e].d.addrs = NoAddrs, !.icache[e].d.size = 0,
                 !.ents[i] = NoEntries, !.indirect[i] = NoBlocks], e)

\* readi returns data, writei does not return -1, for the block at off.
CanRead(s, e, off) == off < s.icache[e].d.size
CanWrite(s, e, off) == off <= s.icache[e].d.size /\ off + 1 <= MAXFILE

Grown(s, e, size) ==
  IF size > s.icache[e].d.size THEN iupdate([s EXCEPT !.icache[e].d.size = size], e) ELSE s

writei(s, e, off) == Grown(bmap(s, e, off), e, off + 1)

-----------------------------------------------------------------------------
(* The inode cache.                                                        *)

Cached(s, i) == {e \in Entries : s.icache[e].ref > 0 /\ s.icache[e].inum = i}
Unused(s) == {e \in Entries : s.icache[e].ref = 0}

\* The entry iget returns.
EntryFor(s, i) ==
  IF Cached(s, i) # {} THEN Min(Cached(s, i))
  ELSE IF Unused(s) # {} THEN Min(Unused(s)) ELSE 0

idup(s, e) == [s EXCEPT !.icache[e].ref = @ + 1]

iget(s, i) ==
  IF Cached(s, i) # {} THEN idup(s, EntryFor(s, i))
  ELSE IF Unused(s) = {} THEN Panic(s, "iget: no inodes")
  ELSE [s EXCEPT !.icache[EntryFor(s, i)] =
          [inum |-> i, ref |-> 1, valid |-> FALSE, d |-> FreeInode, lock |-> @.lock]]

FreeInums(s) == {i \in Inums : s.dinode[i].type = "none"}

\* ialloc marks the first free inode allocated and gets it.
NewInum(s) == IF FreeInums(s) = {} THEN 0 ELSE Min(FreeInums(s))
ialloc(s, type) ==
  IF FreeInums(s) = {} THEN Panic(s, "ialloc: no inodes")
  ELSE iget([s EXCEPT !.dinode[NewInum(s)] = [FreeInode EXCEPT !.type = type]], NewInum(s))

\* The second half of ilock: read the inode if the copy is not valid.
Read(s, e) ==
  IF s.icache[e].valid THEN s
  ELSE LET d == s.dinode[s.icache[e].inum]
           a == [s EXCEPT !.icache[e].d = d, !.icache[e].valid = TRUE]
       IN  IF d.type = "none" THEN Panic(a, "ilock: no type") ELSE a

Unlocked(e) == fs.icache[e].lock = NoProc
ilock(s, e, p) == [Read(s, e) EXCEPT !.icache[e].lock = p]
iunlock(s, e) == [s EXCEPT !.icache[e].lock = NoProc]

TypeOf(s, e) == s.icache[e].d.type
EntryIn(s, e, n) == s.ents[s.icache[e].inum][n]

\* dirlink once dirlookup has not found the name.
dirlink(s, e, n, i) == [writei(s, e, 0) EXCEPT !.ents[s.icache[e].inum][n] = i]

AddLinks(s, e, k) == iupdate([s EXCEPT !.icache[e].d.nlink = @ + k], e)

isdirempty(s, e) == \A n \in DirNames \ {".", ".."} : EntryIn(s, e, n) = 0

-----------------------------------------------------------------------------
(* Processes.  t[p].cur is the inode namex is at, then its result, 0 for   *)
(* none; t[p].ip is the other inode of the call; t[p].puts are the inodes  *)
(* to iput before going on at t[p].pc.                                     *)

NoCall == [op |-> "none", path |-> <<>>, new |-> <<>>]

At(p, pc) == fs.panic = "" /\ t[p].pc = pc /\ t[p].puts = <<>>

Step(p, s, r) == fs' = s /\ t' = [t EXCEPT ![p] = r]

\* The call returns once puts is empty; off is the offset of fd.
Return(r, puts) ==
  [r EXCEPT !.pc = "idle", !.call = NoCall, !.path = <<>>, !.name = ".",
            !.cur = 0, !.ip = 0, !.puts = puts, !.stale = FALSE]

Removes(op) == op \in {"unlink", "removeSwapFile"}
Creates(op) == op \in {"create", "mkdir", "mknod", "createSwapFile"}
TypeFor(op) == IF op = "mkdir" THEN "DIR" ELSE IF op = "mknod" THEN "DEV" ELSE "FILE"

\* nameiparent rather than namei: the second path of link, and these calls.
WantsParent(r) ==
  Removes(r.call.op) \/ Creates(r.call.op) \/ (r.call.op = "link" /\ r.ip # 0)

\* namex, up to the loop.  A swap file's path is absolute.
StartNamex(p, s, r, path) ==
  LET abs == r.call.op \in {"createSwapFile", "removeSwapFile"}
  IN  Step(p, IF abs THEN iget(s, ROOTINO) ELSE idup(s, r.cwd),
           [r EXCEPT !.pc = "namex", !.path = path,
                     !.cur = IF abs THEN EntryFor(s, ROOTINO) ELSE r.cwd])

\* namex gives up: iunlockput, and 0 is returned.
NotFound(r) == [r EXCEPT !.pc = "ret", !.puts = <<r.cur>>, !.cur = 0, !.path = <<>>]

\* Names in a removed directory are not links any more.
Removed(s, e) == s.icache[e].d.nlink = 0 \/ s.icache[e].inum \in hist.stranded

\* A path is the sequence of its elements: Head is the name skipelem copies.
skipelem(path) == Tail(path)

\* One round of the loop in namex: lock the inode, look the name up, unlock.
Namex(p) ==
  LET r == t[p]
      e == r.cur
      n == Head(r.path)
      s == Read(fs, e)
      last == Len(r.path) = 1
      i == EntryIn(s, e, n)
  IN  /\ At(p, "namex") /\ Unlocked(e) /\ UNCHANGED hist
      /\ \/ /\ TypeOf(s, e) # "DIR" /\ Step(p, s, NotFound(r))
         \/ /\ TypeOf(s, e) = "DIR" /\ WantsParent(r) /\ last
            /\ Step(p, s, [r EXCEPT !.pc = "ret", !.name = n, !.path = <<>>])
         \/ /\ TypeOf(s, e) = "DIR" /\ ~(WantsParent(r) /\ last) /\ i = 0
            /\ Step(p, s, NotFound(r))
         \/ /\ TypeOf(s, e) = "DIR" /\ ~(WantsParent(r) /\ last) /\ i # 0
            /\ Step(p, iget(s, i),
                    [r EXCEPT !.pc = IF last THEN "ret" ELSE "namex", !.path = skipelem(@),
                              !.cur = EntryFor(s, i), !.puts = <<e>>,
                              !.stale = @ \/ (n = ".." /\ Removed(s, e))])

-----------------------------------------------------------------------------
(* iput.                                                                   *)

\* Mutant: the reference count is not looked at.
LastReference_any(s, e) == s.icache[e].valid /\ s.icache[e].d.nlink = 0

\* Mutant: iput compares with the count after its own reference is gone.
LastReference_zero(s, e) ==
  s.icache[e].valid /\ s.icache[e].d.nlink = 0 /\ s.icache[e].ref = 0

LastReference(s, e) ==
  s.icache[e].valid /\ s.icache[e].d.nlink = 0 /\ s.icache[e].ref = 1

\* Another process has looked at e and is about to drop its reference.
DroppedElsewhere(p, e) ==
  \E q \in Procs \ {p} : t[q].puts # <<>> /\ Head(t[q].puts) = e /\ t[q].phase = "drop"

iputLook(p) ==
  LET r == t[p]
      e == Head(r.puts)
  IN  /\ fs.panic = "" /\ r.puts # <<>> /\ r.phase = "look" /\ Unlocked(e)
      /\ \/ /\ LastReference(fs, e)
            /\ Step(p, ilock(fs, e, p), [r EXCEPT !.phase = "free"])
            /\ UNCHANGED hist
         \/ /\ ~LastReference(fs, e)
            /\ Step(p, fs, [r EXCEPT !.phase = "drop"])
            /\ hist' = IF fs.icache[e].valid /\ fs.icache[e].d.nlink = 0 /\ DroppedElsewhere(p, e)
                       THEN [hist EXCEPT !.missed = @ \cup {fs.icache[e].inum}] ELSE hist

\* Mutant: the copy stays valid after the inode was freed.
Freed_valid(s, e) == iupdate([itrunc(s, e) EXCEPT !.icache[e].d.type = "none"], e)

Freed(s, e) ==
  [iupdate([itrunc(s, e) EXCEPT !.icache[e].d.type = "none"], e) EXCEPT
     !.icache[e].valid = FALSE]

iputFree(p) ==
  LET e == Head(t[p].puts)
      i == fs.icache[e].inum
  IN  /\ fs.panic = "" /\ t[p].puts # <<>> /\ t[p].phase = "free"
      /\ Step(p, iunlock(Freed(fs, e), e), [t[p] EXCEPT !.phase = "drop"])
      /\ hist' = [stranded |-> hist.stranded \ {i}, missed |-> hist.missed \ {i}]

iputDrop(p) ==
  /\ fs.panic = "" /\ t[p].puts # <<>> /\ t[p].phase = "drop"
  /\ Step(p, [fs EXCEPT !.icache[Head(t[p].puts)].ref = @ - 1],
          [t[p] EXCEPT !.phase = "look", !.puts = Tail(@)])
  /\ UNCHANGED hist

-----------------------------------------------------------------------------
(* System calls.                                                           *)

\* An entry put in a removed directory: neither the inode it names nor, if it
\* is a directory, its parent has the links its count says.
Strand(s, dp, ip) ==
  hist' = IF Removed(s, dp)
          THEN [hist EXCEPT !.stranded = @ \cup {s.icache[dp].inum, s.icache[ip].inum}]
          ELSE hist

\* create: lock the directory and look for the name.
createLook(p) ==
  LET r == t[p]
      s == ilock(fs, r.cur, p)
      i == EntryIn(s, r.cur, r.name)
      u == iunlock(s, r.cur)
      type == TypeFor(r.call.op)
  IN  /\ At(p, "ret") /\ Creates(r.call.op) /\ r.cur # 0 /\ Unlocked(r.cur)
      /\ UNCHANGED hist
      /\ \/ /\ i # 0
            /\ Step(p, iget(u, i), [r EXCEPT !.pc = "found", !.ip = EntryFor(u, i),
                                             !.cur = 0, !.puts = <<r.cur>>])
         \/ /\ i = 0
            /\ Step(p, ialloc(s, type),
                    [r EXCEPT !.pc = "new", !.ip = EntryFor(s, NewInum(s))])

\* The name is there: only a file will do, for one who wants a file.
createFound(p) ==
  LET r == t[p]
      s == ilock(fs, r.ip, p)
  IN  /\ At(p, "found") /\ Unlocked(r.ip) /\ UNCHANGED hist
      /\ IF TypeFor(r.call.op) = "FILE" /\ TypeOf(s, r.ip) = "FILE"
         THEN Step(p, s, [r EXCEPT !.pc = "created"])
         ELSE Step(p, iunlock(s, r.ip), [r EXCEPT !.pc = "ret", !.ip = 0, !.puts = <<r.ip>>])

\* "." and ".." of a new directory ip in dp.
WithDots(s, dp, ip) ==
  LET a == dirlink(AddLinks(s, dp, 1), ip, ".", s.icache[ip].inum)
  IN  dirlink(a, ip, "..", s.icache[dp].inum)

\* The new inode is filled in and named, with both locks held.
createNew(p) ==
  LET r == t[p]
      s == AddLinks(ilock(fs, r.ip, p), r.ip, 1)
      d == IF TypeFor(r.call.op) = "DIR" THEN WithDots(s, r.cur, r.ip) ELSE s
  IN  /\ At(p, "new") /\ Unlocked(r.ip)
      /\ Strand(fs, r.cur, r.ip)
      /\ Step(p, iunlock(dirlink(d, r.cur, r.name, s.icache[r.ip].inum), r.cur),
              [r EXCEPT !.pc = "created", !.cur = 0, !.puts = <<r.cur>>])

\* create has returned a locked inode to sys_open, sys_mkdir, sys_mknod or
\* createSwapFile.  sys_open fails if there is no descriptor left.
created(p) ==
  LET r == t[p]
      s == iunlock(fs, r.ip)
  IN  /\ At(p, "created") /\ UNCHANGED hist
      /\ \/ r.call.op \in {"mkdir", "mknod"} /\ Step(p, s, Return(r, <<r.ip>>))
         \/ r.call.op = "createSwapFile" /\ Step(p, s, [Return(r, <<>>) EXCEPT !.swap = r.ip])
         \/ /\ r.call.op \in {"open", "openw", "create"} /\ r.fd = 0
            /\ Step(p, s, [Return(r, <<>>) EXCEPT !.fd = r.ip, !.off = 0,
                                                  !.writable = r.call.op # "open"])
         \/ /\ r.call.op \in {"open", "openw", "create"} /\ r.fd # 0
            /\ Step(p, s, Return(r, <<r.ip>>))

\* No inode: sys_link undoes what it did, createSwapFile
\* unlocks the null pointer, the others return -1.
failed(p) ==
  LET r == t[p]
  IN  /\ At(p, "ret") /\ r.cur = 0 /\ UNCHANGED hist
      /\ \/ r.call.op = "link" /\ r.ip # 0 /\ Step(p, fs, [r EXCEPT !.pc = "undo"])
         \/ /\ ~(r.call.op = "link" /\ r.ip # 0)
            /\ Step(p, IF r.call.op = "createSwapFile" THEN Panic(fs, "iunlock") ELSE fs,
                    Return(r, <<>>))

\* sys_open without O_CREATE.
openFound(p) ==
  LET r == t[p]
      s == ilock(fs, r.cur, p)
  IN  /\ At(p, "ret") /\ r.call.op \in {"open", "openw"} /\ r.cur # 0 /\ Unlocked(r.cur)
      /\ UNCHANGED hist
      /\ IF TypeOf(s, r.cur) = "DIR" /\ r.call.op # "open"
         THEN Step(p, iunlock(s, r.cur), Return(r, <<r.cur>>))
         ELSE Step(p, s, [r EXCEPT !.pc = "created", !.ip = r.cur, !.cur = 0])

sys_chdir(p) ==
  LET r == t[p]
      s == Read(fs, r.cur)
  IN  /\ At(p, "ret") /\ r.call.op = "chdir" /\ r.cur # 0 /\ Unlocked(r.cur)
      /\ UNCHANGED hist
      /\ IF TypeOf(s, r.cur) # "DIR" THEN Step(p, s, Return(r, <<r.cur>>))
         ELSE Step(p, s, [Return(r, <<r.cwd>>) EXCEPT !.cwd = r.cur])

\* sys_link: count the link first, then look for the place to put it.
linkCount(p) ==
  LET r == t[p]
      s == Read(fs, r.cur)
  IN  /\ At(p, "ret") /\ r.call.op = "link" /\ r.ip = 0 /\ r.cur # 0 /\ Unlocked(r.cur)
      /\ UNCHANGED hist
      /\ IF TypeOf(s, r.cur) = "DIR" THEN Step(p, s, Return(r, <<r.cur>>))
         ELSE StartNamex(p, AddLinks(s, r.cur, 1), [r EXCEPT !.ip = r.cur], r.call.new)

linkEnter(p) ==
  LET r == t[p]
      s == ilock(fs, r.cur, p)
      i == EntryIn(s, r.cur, r.name)
  IN  /\ At(p, "ret") /\ r.call.op = "link" /\ r.ip # 0 /\ r.cur # 0 /\ Unlocked(r.cur)
      /\ \/ /\ i # 0 /\ UNCHANGED hist
            /\ Step(p, iget(s, i), [r EXCEPT !.pc = "exists", !.puts = <<EntryFor(s, i)>>])
         \/ /\ i = 0 /\ Strand(s, r.cur, r.ip)
            /\ Step(p, iunlock(dirlink(s, r.cur, r.name, s.icache[r.ip].inum), r.cur),
                    Return(r, <<r.cur, r.ip>>))

linkExists(p) ==
  LET r == t[p]
  IN  /\ At(p, "exists") /\ UNCHANGED hist
      /\ Step(p, iunlock(fs, r.cur), [r EXCEPT !.pc = "undo", !.cur = 0, !.puts = <<r.cur>>])

\* Mutant: the link is not taken off the count again.
linkUndo_keeps(p) ==
  LET r == t[p]
  IN  /\ At(p, "undo") /\ Unlocked(r.ip) /\ UNCHANGED hist
      /\ Step(p, Read(fs, r.ip), Return(r, <<r.ip>>))

linkUndo(p) ==
  LET r == t[p]
  IN  /\ At(p, "undo") /\ Unlocked(r.ip) /\ UNCHANGED hist
      /\ Step(p, AddLinks(Read(fs, r.ip), r.ip, -1), Return(r, <<r.ip>>))

\* Mutant: "." and ".." can be unlinked.
IsDot_never(n) == FALSE

IsDot(n) == n \in {".", ".."}

\* sys_unlink, and removeSwapFile from nameiparent on: lock the directory,
\* find the name, then lock the inode it names.
unlinkLook(p) ==
  LET r == t[p]
      s == ilock(fs, r.cur, p)
      i == EntryIn(s, r.cur, r.name)
  IN  /\ At(p, "ret") /\ Removes(r.call.op) /\ r.cur # 0 /\ Unlocked(r.cur) /\ UNCHANGED hist
      /\ IF IsDot(r.name) \/ i = 0
         THEN Step(p, iunlock(s, r.cur), Return(r, <<r.cur>>))
         ELSE Step(p, iget(s, i), [r EXCEPT !.pc = "unlink", !.ip = EntryFor(s, i)])

\* Erase the entry.  The inode stays locked while the directory is let go.
unlinkErase(p) ==
  LET r == t[p]
      locked == ilock(fs, r.ip, p)
      s == IF locked.icache[r.ip].d.nlink < 1 THEN Panic(locked, "unlink: nlink < 1") ELSE locked
      dir == TypeOf(s, r.ip) = "DIR"
      erased == [s EXCEPT !.ents[s.icache[r.cur].inum][r.name] = 0]
  IN  /\ At(p, "unlink") /\ Unlocked(r.ip) /\ UNCHANGED hist
      /\ \/ /\ dir /\ ~isdirempty(s, r.ip)
            /\ Step(p, iunlock(s, r.ip), [r EXCEPT !.pc = "nonempty", !.ip = 0, !.puts = <<r.ip>>])
         \/ /\ ~(dir /\ ~isdirempty(s, r.ip))
            /\ Step(p, iunlock(IF dir THEN AddLinks(erased, r.cur, -1) ELSE erased, r.cur),
                    [r EXCEPT !.pc = "erased", !.cur = 0, !.puts = <<r.cur>>])

unlinkNonempty(p) ==
  LET r == t[p]
  IN  /\ At(p, "nonempty") /\ UNCHANGED hist
      /\ Step(p, iunlock(fs, r.cur), Return(r, <<r.cur>>))

unlinkCount(p) ==
  LET r == t[p]
  IN  /\ At(p, "erased") /\ UNCHANGED hist
      /\ Step(p, iunlock(AddLinks(fs, r.ip, -1), r.ip), Return(r, <<r.ip>>))

\* removeSwapFile once fileclose has put the inode.
swapClosed(p) ==
  At(p, "closed") /\ UNCHANGED hist /\ StartNamex(p, fs, t[p], <<p>>)

-----------------------------------------------------------------------------
(* A process begins a call.                                                *)

BeginPath(p, c) ==
  /\ At(p, "idle") /\ c.path # <<>> /\ UNCHANGED hist
  /\ StartNamex(p, fs, [t[p] EXCEPT !.call = c], c.path)

\* allocproc calls createSwapFile, which goes on in createLook and created;
\* exit calls removeSwapFile, which closes the file and goes on in swapClosed
\* and, with the text of sys_unlink, in unlinkLook.
createSwapFile(p, c) ==
  /\ At(p, "idle") /\ c.op = "createSwapFile" /\ t[p].swap = 0 /\ UNCHANGED hist
  /\ StartNamex(p, fs, [t[p] EXCEPT !.call = c], <<p>>)

removeSwapFile(p, c) ==
  /\ At(p, "idle") /\ c.op = "removeSwapFile" /\ t[p].swap # 0 /\ UNCHANGED hist
  /\ Step(p, fs, [t[p] EXCEPT !.call = c, !.pc = "closed", !.swap = 0, !.puts = <<t[p].swap>>])

\* The last close of a descriptor; Pipe has those that are not the last.
sys_close(p, c) ==
  /\ At(p, "idle") /\ c.op = "close" /\ t[p].fd # 0 /\ UNCHANGED hist
  /\ Step(p, fs, [t[p] EXCEPT !.fd = 0, !.off = 0, !.writable = FALSE, !.puts = <<t[p].fd>>])

\* filewrite and fileread of one block at the descriptor's offset.
sys_write(p, c) ==
  LET r == t[p]
      s == Read(fs, r.fd)
  IN  /\ At(p, "idle") /\ c.op = "write" /\ r.fd # 0 /\ r.writable /\ Unlocked(r.fd)
      /\ CanWrite(s, r.fd, r.off) /\ UNCHANGED hist
      /\ Step(p, writei(s, r.fd, r.off), [r EXCEPT !.off = @ + 1])

sys_read(p, c) ==
  LET r == t[p]
      s == Read(fs, r.fd)
  IN  /\ At(p, "idle") /\ c.op = "read" /\ r.fd # 0 /\ Unlocked(r.fd)
      /\ CanRead(s, r.fd, r.off) /\ UNCHANGED hist
      /\ Step(p, s, [r EXCEPT !.off = @ + 1])

Begin(p, c) ==
  \/ BeginPath(p, c) \/ createSwapFile(p, c) \/ removeSwapFile(p, c)
  \/ sys_close(p, c) \/ sys_write(p, c) \/ sys_read(p, c)

Continue(p) ==
  \/ Namex(p) \/ iputLook(p) \/ iputFree(p) \/ iputDrop(p) \/ failed(p)
  \/ createLook(p) \/ createFound(p) \/ createNew(p) \/ created(p) \/ openFound(p)
  \/ sys_chdir(p) \/ linkCount(p) \/ linkEnter(p) \/ linkExists(p) \/ linkUndo(p)
  \/ unlinkLook(p) \/ unlinkErase(p) \/ unlinkNonempty(p) \/ unlinkCount(p) \/ swapClosed(p)

Next ==
  \/ /\ calls.left > 0 /\ calls' = [calls EXCEPT !.left = @ - 1]
     /\ \E p \in Procs, c \in calls.from : Begin(p, c)
  \/ UNCHANGED calls /\ \E p \in Procs : Continue(p)

-----------------------------------------------------------------------------
(* The disk as mkfs and earlier calls left it, no file open, each process  *)
(* in the root directory.                                                  *)

InitType(i) ==
  IF i = ROOTINO THEN "DIR"
  ELSE IF \E x \in Tree : x[3] = i THEN (CHOOSE x \in Tree : x[3] = i)[4] ELSE "none"

\* One link per entry, one from ".." of each directory in it; mkfs gives the
\* root one more.
InitLinks(i) ==
  Cardinality({x \in Tree : x[3] = i}) + Cardinality({x \in Tree : x[1] = i /\ x[4] = "DIR"})
    + (IF i = ROOTINO THEN 1 ELSE 0)

InitInode(i) ==
  CASE InitType(i) = "none" -> FreeInode
    [] InitType(i) = "DIR" ->
         [type |-> "DIR", nlink |-> InitLinks(i), size |-> 1, addrs |-> [NoAddrs EXCEPT ![0] = i]]
    [] InitType(i) = "FILE" ->
         [type |-> "FILE", nlink |-> InitLinks(i), size |-> NDIRECT + 1,
          addrs |-> [b \in 0 .. NDIRECT |-> i + b * NInodes]]

\* A file has one block more than the direct ones.
InitIndirect(i) ==
  IF InitType(i) # "FILE" THEN NoBlocks ELSE [NoBlocks EXCEPT ![0] = i + (NDIRECT + 1) * NInodes]

InitParent(i) == IF i = ROOTINO THEN i ELSE (CHOOSE x \in Tree : x[3] = i)[1]

InitEntries(i) ==
  IF InitType(i) # "DIR" THEN NoEntries
  ELSE [n \in DirNames |->
          IF n = "." THEN i ELSE IF n = ".." THEN InitParent(i)
          ELSE IF \E x \in Tree : x[1] = i /\ x[2] = n
          THEN (CHOOSE x \in Tree : x[1] = i /\ x[2] = n)[3] ELSE 0]

Init ==
  /\ fs = [dinode |-> [i \in Inums |-> InitInode(i)],
           ents |-> [i \in Inums |-> InitEntries(i)],
           used |-> {i \in Inums : InitType(i) = "DIR"}
                      \cup {i + b * NInodes : i \in {j \in Inums : InitType(j) = "FILE"},
                                              b \in 0 .. NDIRECT + 1},
           indirect |-> [i \in Inums |-> InitIndirect(i)],
           icache |-> [e \in Entries |->
                         [inum |-> IF e = 1 THEN ROOTINO ELSE 0,
                          ref |-> IF e = 1 THEN Cardinality(Procs) ELSE 0,
                          valid |-> FALSE, d |-> FreeInode, lock |-> NoProc]],
           panic |-> ""]
  /\ t = [p \in Procs |->
            [pc |-> "idle", call |-> NoCall, path |-> <<>>, name |-> ".", cur |-> 0, ip |-> 0,
             puts |-> <<>>, phase |-> "look", fd |-> 0, off |-> 0, writable |-> FALSE,
             cwd |-> 1, swap |-> 0, stale |-> FALSE]]
  /\ calls \in Menus
  /\ hist = [stranded |-> {}, missed |-> {}]

Spec == Init /\ [][Next]_vars

-----------------------------------------------------------------------------
(* Properties.  After a panic nothing moves and nothing is promised.       *)

\* The pointers process p has to entry e.
Pointers(p, e) ==
  Cardinality({k \in {"cur", "ip", "fd", "cwd", "swap"} : t[p][k] = e})
    + Cardinality({k \in DOMAIN t[p].puts : t[p].puts[k] = e})

\* The cache keeps what fs.c's opening comment promises: ref counts the
\* pointers to an entry on every path through every call, an inode is in one
\* entry only, and a valid copy nobody has locked is what is on the disk.
CacheSound ==
  fs.panic = "" =>
    \A e \in Entries :
      LET c == fs.icache[e]
      IN  /\ c.ref = MapThenSumSet(LAMBDA p : Pointers(p, e), Procs)
          /\ c.ref > 0 => Cardinality(Cached(fs, c.inum)) = 1
          /\ c.ref > 0 /\ c.valid /\ c.lock = NoProc => c.d = fs.dinode[c.inum]

\* Calls in the middle of which the count of i is one above its entries:
\* sys_link has counted and not entered, sys_unlink has erased and not counted.
Linking(i) ==
  {p \in Procs : t[p].call.op = "link" /\ t[p].ip # 0 /\ fs.icache[t[p].ip].inum = i}
Erasing(i) == {p \in Procs : t[p].pc = "erased" /\ fs.icache[t[p].ip].inum = i}

Directories == {i \in Inums : fs.dinode[i].type = "DIR"}
InUse(i) == fs.dinode[i].nlink > Cardinality(Erasing(i))

EntriesFor(i) ==
  {x \in Directories \X (DirNames \ {"."}) :
     /\ fs.ents[x[1]][x[2]] = i
     /\ x[2] = ".." => x[1] \notin {i} \cup hist.stranded /\ InUse(x[1])}

\* A link count is the number of directory entries that name the inode, the
\* ".." of its subdirectories among them, but for calls in progress: iput
\* frees by this count.  Exception: an entry made in a directory that was
\* removed after nameiparent had returned it, or that is somebody's cwd.
LinksExact ==
  fs.panic = "" =>
    \A i \in Inums \ hist.stranded :
      fs.dinode[i].type # "none" /\ ~(\E p \in Procs : t[p].pc = "new" /\ fs.icache[t[p].ip].inum = i) =>
        fs.dinode[i].nlink = Cardinality(EntriesFor(i)) + Cardinality(Linking(i))
                               + Cardinality(Erasing(i)) + (IF i = ROOTINO THEN 1 ELSE 0)

\* balloc and bfree keep the bitmap exact: each block that is marked belongs
\* to one inode, once, and no block of an inode is unmarked.
BlocksExact ==
  fs.panic = "" =>
    /\ UNION {BlocksOf(fs, i, fs.dinode[i]) : i \in Inums} = fs.used
    /\ \A i, j \in Inums :
         i # j => BlocksOf(fs, i, fs.dinode[i]) \cap BlocksOf(fs, j, fs.dinode[j]) = {}

\* "If that was the last reference and the inode has no links to it, free the
\* inode" (iput).  Exception: two processes looked at the reference count
\* before either dropped its own.
LastPutFrees ==
  fs.panic = "" =>
    \A i \in Inums \ hist.missed :
      fs.dinode[i].type # "none" /\ fs.dinode[i].nlink = 0 => Cached(fs, i) # {}

\* No inode is freed under a process that uses it and no block is freed twice:
\* the kernel panics for want of inodes or blocks only, or for a process that
\* followed ".." out of a removed directory to a parent that is gone as well.
PanicsKnown ==
  \/ fs.panic \in {"", "ialloc: no inodes", "iget: no inodes", "balloc: out of blocks"}
  \/ fs.panic = "ilock: no type" /\ \E p \in Procs : t[p].stale

\* The inode p must lock next, 0 if none.
WaitsFor(p) ==
  LET r == t[p]
  IN  IF r.puts # <<>> THEN (IF r.phase = "look" THEN Head(r.puts) ELSE 0)
      ELSE IF r.pc \in {"namex", "ret"} THEN r.cur
      ELSE IF r.pc \in {"found", "new", "undo", "unlink"} THEN r.ip ELSE 0

WaitsOn(p, q) == WaitsFor(p) # 0 /\ fs.icache[WaitsFor(p)].lock = q

\* Locks are taken from a directory to what is in it, so nobody waits for a
\* lock of their own and no two processes wait for each other.  Exception:
\* create and sys_unlink put the directory while they hold the inode they have
\* entered or erased, and the other process found that inode's name there.
LockOrder ==
  \A p, q \in Procs :
    WaitsOn(p, q) /\ WaitsOn(q, p) => p # q /\ {t[p].pc, t[q].pc} \cap {"created", "erased"} # {}

=============================================================================
