------------------------------ MODULE MCInode -------------------------------
(* /a and /c are one file; /b and /b/b are directories.                    *)
EXTENDS Inode, TLC

OneTree ==
  {<<1, "a", 3, "FILE">>, <<1, "c", 3, "FILE">>, <<1, "b", 2, "DIR">>, <<2, "b", 4, "DIR">>}

Call(op, path) == [op |-> op, path |-> path, new |-> <<>>]

Link(new) == [op |-> "link", path |-> <<"a">>, new |-> new]

OnFiles ==
  {Call(op, <<>>) : op \in {"close", "write"}}
  \cup {Call("openw", <<"a">>), Link(<<"c">>), Link(<<"c", "a">>)}
  \cup {Call("unlink", path) : path \in {<<"a">>, <<"c">>}}

OnDirectories ==
  {Call("create", <<"b", "b", "a">>), Call("mkdir", <<"b", "b", "a">>), Link(<<"b", "b", "c">>),
   Call("open", <<"b", "b", "..">>), Call("chdir", <<"b">>)}
  \cup {Call("unlink", path) : path \in {<<"b">>, <<"b", "b">>}}

OnSwapFiles ==
  {Call(op, <<>>) : op \in {"createSwapFile", "removeSwapFile", "close", "read", "write"}}
  \cup {Call("create", <<"d">>), Call("unlink", <<"d">>)}

OnTheWrongThings ==
  {Call("chdir", <<"a">>), Call("openw", <<"b">>), Call("unlink", <<".">>),
   Call("mknod", <<"b">>), [op |-> "link", path |-> <<"b">>, new |-> <<"c">>]}

SomeMenus ==
  {[from |-> OnTheWrongThings, left |-> 2],
   [from |-> OnFiles, left |-> 4], [from |-> OnDirectories, left |-> 3],
   [from |-> OnSwapFiles, left |-> 4]}

Symmetry == Permutations(Procs)
=============================================================================
