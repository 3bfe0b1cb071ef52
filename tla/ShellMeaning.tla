---------------------------- MODULE ShellMeaning ---------------------------
(***************************************************************************)
(* Shell with the parser of sh.c, and what the lines of the scripts should *)
(* do according to the grammar.                                            *)
(***************************************************************************)
EXTENDS ShellParser, Shell

\* Every line of the scripts, what the parser makes of it and what it is.
Lines == UNION {{s[i] : i \in DOMAIN s} : s \in Scripts}
ParsedLines == [l \in Lines |-> parsecmd(l)]
GrammarLines == [l \in Lines |-> GrammarLine(l)]

\* The commands in a command, itself included.
RECURSIVE Within(_)
Within(c) ==
  {c} \cup (CASE c.type \in {"REDIR", "BACK"} -> Within(c.cmd)
            [] c.type \in {"PIPE", "LIST"} -> Within(c.left) \cup Within(c.right)
            [] OTHER -> {})
AllCommands == UNION {Within(parsecmd(l)) : l \in Lines} \ {Syntax}

-----------------------------------------------------------------------------
(* What a line should write, from its grammar: the bytes it writes given    *)
(* the bytes it can read, and how many of these it leaves.                  *)

RECURSIVE Meaning(_, _)
Meaning(c, in) ==
  LET n == Cardinality({i \in DOMAIN c.argv : i > 1 /\ c.argv[i].w \in Files})
      missing == {i \in DOMAIN c.argv : i > 1 /\ c.argv[i].w \notin Files}
      read == IF missing = {} THEN n * FileSize ELSE (Min(missing) - 2) * FileSize + 1
      l == Meaning(c.left, in)
      r == Meaning(c.right, IF c.type = "PIPE" THEN l.out ELSE l.rest)
      file == Meaning(c.cmd, FileSize)
      sub == Meaning(c.cmd, in)
  IN  CASE c.type = "EXEC" ->
             IF c.argv = <<>> THEN [out |-> 0, rest |-> in]
             ELSE IF c.argv[1].w = "echo" THEN [out |-> Len(c.argv) - 1, rest |-> in]
             ELSE IF c.argv[1].w # "cat" THEN [out |-> 0, rest |-> in]
             ELSE IF Len(c.argv) = 1 THEN [out |-> in, rest |-> 0]
             ELSE [out |-> read, rest |-> in]
        [] c.type = "REDIR" ->
             IF c.fd = 1 THEN [out |-> 0, rest |-> sub.rest]
             ELSE [out |-> IF c.file.w \in Files THEN file.out ELSE 0, rest |-> in]
        [] c.type = "PIPE" -> [out |-> r.out, rest |-> l.rest]
        [] c.type = "LIST" -> [out |-> l.out + r.out, rest |-> r.rest]
        [] c.type = "BACK" -> sub
        [] OTHER -> [out |-> 0, rest |-> in]

MeantLines == [l \in Lines |-> Meaning(GrammarLine(l), 0).out]

-----------------------------------------------------------------------------
\* The parser accepts the lines of the grammar and builds their tree: "|" binds
\* tighter than "&" and ";", both group to the right, a redirection binds to
\* its command or block, and every word is ended (sh.c 327-493).
ParsesGrammar ==
  \A p \in Pids : proc[p].pc = "parse" => Parsed[proc[p].cmd.buf] = GrammarLines[proc[p].cmd.buf]
=============================================================================
