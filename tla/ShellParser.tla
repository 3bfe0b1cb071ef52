---------------------------- MODULE ShellParser ----------------------------
(***************************************************************************)
(* The recursive-descent parser of sh.c.  A line is a sequence of tokens,  *)
(* what gettoken returns one at a time: the symbols, and words.  A panic   *)
(* of the parser gives Syntax, and reads no further.                       *)
(***************************************************************************)
EXTENDS ShellCommands, Integers, Sequences, FiniteSetsExt

CONSTANT MAXARGS

ASSUME ParserAssumption == MAXARGS \in Nat \ {0}

\* The redirections wrap the command in the order they were read.
RECURSIVE Wrap(_, _)
Wrap(cmd, redirs) ==
  IF redirs = <<>> THEN cmd
  ELSE Wrap(redircmd(cmd, redirs[1].file, redirs[1].fd), Tail(redirs))

-----------------------------------------------------------------------------
Panic == [cmd |-> Syntax, rest |-> <<>>]

gettoken(s) == IF s = <<>> THEN "" ELSE Head(s)

peek(s, toks) == gettoken(s) \in toks

Skip(s, n) == SubSeq(s, n + 1, Len(s))

\* ">" and ">>" are the same redirection: neither truncates nor appends.
RedirFd(tok) == IF tok = "<" THEN 0 ELSE 1

RECURSIVE parseredirs(_, _)
parseredirs(redirs, s) ==
  CASE ~peek(s, {"<", ">", ">>"}) -> [ok |-> TRUE, redirs |-> redirs, rest |-> s]
    [] peek(s, {"<", ">", ">>"}) /\ gettoken(Tail(s)) \notin Words ->
         [ok |-> FALSE, redirs |-> <<>>, rest |-> <<>>]
    [] OTHER ->
         parseredirs(Append(redirs, [file |-> Counted(s[2]), fd |-> RedirFd(s[1])]), Skip(s, 2))

\* The loop of parseexec; x is what parseredirs has found so far.  argv[] needs
\* room for its final 0.
RECURSIVE parseargs(_, _)
parseargs(argv, x) ==
  CASE ~x.ok -> Panic
    [] x.ok /\ peek(x.rest, {"|", ")", "&", ";", ""}) ->
         [cmd |-> Wrap(execcmd(argv), x.redirs), rest |-> x.rest]
    [] x.ok /\ ~peek(x.rest, {"|", ")", "&", ";", ""} \cup Words) -> Panic
    [] OTHER ->
         IF Len(argv) + 1 >= MAXARGS THEN Panic
         ELSE parseargs(Append(argv, Counted(Head(x.rest))), parseredirs(x.redirs, Tail(x.rest)))

\* while(peek "&")
RECURSIVE Backs(_)
Backs(p) ==
  IF peek(p.rest, {"&"}) THEN Backs([cmd |-> backcmd(p.cmd), rest |-> Tail(p.rest)]) ELSE p

RECURSIVE parseline(_), parseblock(_), parseexec(_), parsepipe(_)

\* Mutant: a pipe ends at the first "|" of the rest.
PipeRest_flat(s) == parseexec(s)

PipeRest(s) == parsepipe(s)

parseblock(s) ==
  LET b == parseline(Tail(s))
      x == parseredirs(<<>>, Tail(b.rest))
  IN  IF ~peek(b.rest, {")"}) \/ ~x.ok THEN Panic
      ELSE [cmd |-> Wrap(b.cmd, x.redirs), rest |-> x.rest]

parseexec(s) ==
  IF peek(s, {"("}) THEN parseblock(s) ELSE parseargs(<<>>, parseredirs(<<>>, s))

parsepipe(s) ==
  LET l == parseexec(s)
      r == PipeRest(Tail(l.rest))
  IN  IF ~peek(l.rest, {"|"}) THEN l
      ELSE [cmd |-> pipecmd(l.cmd, r.cmd), rest |-> r.rest]

parseline(s) ==
  LET b == Backs(parsepipe(s))
      r == parseline(Tail(b.rest))
  IN  IF ~peek(b.rest, {";"}) THEN b
      ELSE [cmd |-> listcmd(b.cmd, r.cmd), rest |-> r.rest]

RECURSIVE nulterminate(_)
nulterminate(cmd) ==
  CASE cmd.type = "EXEC" -> execcmd([i \in DOMAIN cmd.argv |-> Ended(cmd.argv[i].w)])
    [] cmd.type = "REDIR" -> redircmd(nulterminate(cmd.cmd), Ended(cmd.file.w), cmd.fd)
    [] cmd.type = "PIPE" -> pipecmd(nulterminate(cmd.left), nulterminate(cmd.right))
    [] cmd.type = "LIST" -> listcmd(nulterminate(cmd.left), nulterminate(cmd.right))
    [] cmd.type = "BACK" -> backcmd(nulterminate(cmd.cmd))
    [] OTHER -> cmd

parsecmd(s) ==
  LET l == parseline(s)
  IN  IF l.rest # <<>> THEN Syntax ELSE nulterminate(l.cmd)

-----------------------------------------------------------------------------
(* The grammar, by splitting at the operator that binds least:             *)
(*   line ::= job [";" line]   job ::= pipeline {"&"}                      *)
(*   pipeline ::= simple ["|" pipeline]                                    *)
(*   simple ::= "(" line ")" redirections | words and redirections         *)

Depth(s, i) ==
  Cardinality({j \in 1 .. i : s[j] = "("}) - Cardinality({j \in 1 .. i : s[j] = ")"})

TopLevel(s, tok) == {i \in DOMAIN s : s[i] = tok /\ Depth(s, i) = 0}

RedirAt(s) == {i \in DOMAIN s : s[i] \in {"<", ">", ">>"}}

\* s without the positions of drop
Without(s, drop) ==
  LET kept == DOMAIN s \ drop
      Nth(n) == CHOOSE i \in kept : Cardinality({j \in kept : j <= i}) = n
  IN  [n \in 1 .. Cardinality(kept) |-> s[Nth(n)]]

RedirWords(s) ==
  LET ops == Without(s, DOMAIN s \ RedirAt(s))
      files == Without(s, {i \in DOMAIN s : i - 1 \notin RedirAt(s)})
  IN  [n \in DOMAIN ops |-> [file |-> Ended(files[n]), fd |-> IF ops[n] = "<" THEN 0 ELSE 1]]

GrammarWords(s) ==
  LET argv == Without(s, RedirAt(s) \cup {i + 1 : i \in RedirAt(s)})
      wellFormed ==
        /\ \A i \in DOMAIN s : i \in RedirAt(s) \/ s[i] \in Words
        /\ \A i \in RedirAt(s) : i + 1 \in DOMAIN s /\ s[i + 1] \in Words
  IN  IF ~wellFormed \/ Len(argv) >= MAXARGS THEN Syntax
      ELSE Wrap(execcmd([i \in DOMAIN argv |-> Ended(argv[i])]), RedirWords(s))

RECURSIVE GrammarLine(_), GrammarJob(_), GrammarPipe(_), GrammarSimple(_)

GrammarSimple(s) ==
  LET ends == TopLevel(s, ")")
      redirs == Skip(s, Min(ends))
      words == GrammarWords(redirs)
  IN  IF s = <<>> \/ s[1] # "(" THEN GrammarWords(s)
      ELSE IF ends = {} \/ words = Syntax THEN Syntax
      ELSE IF Len(redirs) # 2 * Cardinality(RedirAt(redirs)) THEN Syntax
      ELSE Wrap(GrammarLine(SubSeq(s, 2, Min(ends) - 1)), RedirWords(redirs))

GrammarPipe(s) ==
  LET bars == TopLevel(s, "|")
  IN  IF bars = {} THEN GrammarSimple(s)
      ELSE pipecmd(GrammarSimple(SubSeq(s, 1, Min(bars) - 1)), GrammarPipe(Skip(s, Min(bars))))

GrammarJob(s) ==
  IF s # <<>> /\ s[Len(s)] = "&" THEN backcmd(GrammarJob(SubSeq(s, 1, Len(s) - 1)))
  ELSE GrammarPipe(s)

GrammarLine(s) ==
  LET ends == TopLevel(s, ";")
  IN  IF ends = {} THEN GrammarJob(s)
      ELSE listcmd(GrammarJob(SubSeq(s, 1, Min(ends) - 1)), GrammarLine(Skip(s, Min(ends))))
=============================================================================
