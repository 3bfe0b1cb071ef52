--------------------------- MODULE ShellCommands ---------------------------
(* The commands of sh.c: what the parser builds and runcmd runs.  A word is *)
(* a counted string until nulterminate has ended it ("nul").                *)

CONSTANT Words      \* programs and files

Syntax == [type |-> "SYNTAX"]
Counted(w) == [w |-> w, nul |-> FALSE]
Ended(w) == [w |-> w, nul |-> TRUE]

execcmd(argv) == [type |-> "EXEC", argv |-> argv]

redircmd(sub, file, fd) ==
  IF sub = Syntax THEN Syntax
  ELSE [type |-> "REDIR", cmd |-> sub, file |-> file, fd |-> fd]

pipecmd(left, right) ==
  IF Syntax \in {left, right} THEN Syntax
  ELSE [type |-> "PIPE", left |-> left, right |-> right]

listcmd(left, right) ==
  IF Syntax \in {left, right} THEN Syntax
  ELSE [type |-> "LIST", left |-> left, right |-> right]

backcmd(sub) == IF sub = Syntax THEN Syntax ELSE [type |-> "BACK", cmd |-> sub]
=============================================================================
